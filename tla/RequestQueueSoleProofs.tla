------------------------ MODULE RequestQueueSoleProofs ------------------------
(***************************************************************************)
(* What a client that is alone on its directory may rely on, for any       *)
(* number of requests and any sequence of calls, crashes and failed        *)
(* writes: its index, its counters and its order of delivery agree with    *)
(* the request files.                                                      *)
(***************************************************************************)
EXTENDS RequestQueueProofs

\* The use of the queue the theorems are about.
SoleUse ==
    /\ \A c, d \in Clients : c = d                \* one client,
    /\ "drop" \notin Ops                          \* whose storage is not dropped;
    /\ LegacyKeys = {}                            \* every file has an orderNo,
    /\ ReclaimStamped \subseteq {FALSE}           \* no caller stamps what it reclaims,
    /\ FaultKinds \cap {"read", "remove"} = {}    \* and files can be read and removed.

\* Moreover no request that comes as handled is moved to the forefront: such a move
\* would turn a pending request into a handled one without counting it.
CountedAdds ==
    \A call \in Adds : call.forefront => \A i \in 1..Len(call.batch) : ~call.batch[i].handledAt

-------------------------------------------------------------------------------
(* The inductive invariants *)

\* Kinds of calls during which the index is not there yet, or no more.
Unindexed == {"closed", "create", "list", "clear", "purge"}

\* The requests that rebuild_index has not come to.
Unread(c) ==
    {k \in Keys : \/ op[c].kind \in {"rebuild", "rewrite"} /\ k \in op[c].todo
                  \/ op[c].kind = "rewrite" /\ k = op[c].key}

\* What the index says of k is what the file says, but for a stale lock that the
\* sole owner could not clear.
AgreesOn(c, k) ==
    /\ Indexed(c, k) <=> Exists(k)
    /\ IndexHandled(c, k) <=> Handled(k)
    /\ Pending(k) =>
          /\ \/ inner[c].requests[k].order = files[k].order
             \/ ~IsLockedOrder(inner[c].requests[k].order, now)
          /\ inner[c].requests[k].order < 0 <=> files[k].order < 0

IndexSound(c) ==
    op[c].kind \notin Unindexed =>
        \A k \in Keys : IF k \in Unread(c) THEN Exists(k) /\ ~Indexed(c, k) ELSE AgreesOn(c, k)

\* The sole owner leaves no lock in its index.
Unlocked(c) ==
    \A k \in Keys : Indexed(c, k) /\ ~IndexHandled(c, k) => ~IsLockedOrder(inner[c].requests[k].order, now)

\* What c's call in progress may count on.
CallSound(c) ==
    /\ op[c].kind \in {"clear", "purge"} => op[c].todo = {k \in Keys : Exists(k)}
    /\ op[c].kind \in {"rebuild", "rewrite"} => 1 <= op[c].at /\ op[c].at <= now
    /\ op[c].kind = "rewrite" =>
          /\ Pending(op[c].key) /\ op[c].key \notin op[c].todo
          /\ ~IsLockedOrder(op[c].order, now)
          /\ op[c].order < 0 <=> files[op[c].key].order < 0
    /\ op[c].kind \in {"rebuild", "rewrite", "ready"} => (op[c].sole => Unlocked(c))
    /\ op[c].kind = "addWrite" => ~Handled(op[c].key)
    /\ op[c].kind \in {"lock", "mark", "reclaim", "prolong"} => Pending(op[c].key)
    /\ op[c].kind = "fetch" =>
          /\ op[c].at <= now
          /\ \A k \in op[c].todo : Pending(k)
          /\ \A k \in Keys \ op[c].todo : Pending(k) => IsLockedOrder(files[k].order, op[c].at)

SoleInv ==
    /\ now >= 1
    /\ dropping = {}
    /\ \A c \in Clients : IndexSound(c) /\ CallSound(c)

\* The requests the index has as handled and as pending.
HandledIn(c) == {k \in Keys : IndexHandled(c, k)}
PendingIn(c) == {k \in Keys : Indexed(c, k) /\ ~IndexHandled(c, k)}

Counted(c) ==
    /\ inner[c].metadata.handled = Cardinality(HandledIn(c))
    /\ inner[c].metadata.pending = Cardinality(PendingIn(c))

\* The items still to be added, none of them handled if they go to the forefront.
Addable(call) == call.forefront => \A i \in 1..Len(call.batch) : ~call.batch[i].handledAt

AddSound(c) ==
    /\ op[c].kind \in {"add", "addWrite"} => Addable(op[c])
    /\ op[c].kind = "addWrite" => IF op[c].forefront THEN ~op[c].handledAt ELSE ~Indexed(c, op[c].key)

CountSound(c) ==
    /\ disk = Absent => op[c].kind \in {"closed", "create"} /\ \A k \in Keys : ~Exists(k)
    /\ op[c].kind = "create" => disk = Absent /\ inner[c].metadata = NewMetadata
    /\ op[c].kind \notin Unindexed => Counted(c)
    /\ op[c].kind \notin Unindexed \cup {"rebuild", "rewrite"} =>
          inner[c].metadata.total = inner[c].metadata.handled + inner[c].metadata.pending
    /\ AddSound(c)

CountInv == \A c \in Clients : CountSound(c)

-------------------------------------------------------------------------------
(* Steps in general *)

\* A step of c, the only client there is.
LEMMA SoleStep ==
    ASSUME SoleUse, NEW c \in Clients, now' >= 1, dropping' = {}, IndexSound(c)', CallSound(c)'
    PROVE  SoleInv'
    BY DEF SoleUse, SoleInv

\* The client a step is about and what the invariant says of it.
LEMMA SoleClient ==
    ASSUME SoleInv, NEW c \in Clients
    PROVE  now >= 1 /\ dropping = {} /\ IndexSound(c) /\ CallSound(c)
    BY DEF SoleInv

LEMMA PendingOrder ==
    ASSUME TypeOK, CoherentInv, NEW k \in Keys, Pending(k)
    PROVE  files[k].order \in Int
    BY DEF TypeOK, CoherentInv, FilesCoherent, Pending, Exists, Files, Orders

\* An index entry is an entry, and its orderNo null or an integer.
LEMMA EntryOrder ==
    ASSUME TypeOK, NEW c \in Clients, NEW k \in Keys, Indexed(c, k)
    PROVE  inner[c].requests[k] \in Entries /\ inner[c].requests[k].order \in Orders
    BY ClientType DEF Indexed, Entries

\* Outside rebuild_index nothing is unread.
LEMMA NothingUnread ==
    ASSUME NEW c \in Clients, op[c].kind \notin {"rebuild", "rewrite"}
    PROVE  Unread(c) = {}
    BY DEF Unread

LEMMA AgreesAll ==
    ASSUME NEW c \in Clients, IndexSound(c), op[c].kind \notin Unindexed \cup {"rebuild", "rewrite"}
    PROVE  \A k \in Keys : AgreesOn(c, k)
    BY NothingUnread DEF IndexSound

\* Files and index stay as they are.
LEMMA IndexStill ==
    ASSUME NEW c \in Clients, IndexSound(c), op[c].kind \notin Unindexed,
           op[c].kind \in {"rebuild", "rewrite"} => Unread(c) = {},
           op'[c].kind \notin {"rebuild", "rewrite"}, UNCHANGED <<now, files>>,
           inner'[c].requests = inner[c].requests
    PROVE  IndexSound(c)'
    <1>1. Unread(c) = {} /\ Unread(c)' = {}
        BY DEF Unread
    <1>2. \A k \in Keys : AgreesOn(c, k)
        BY <1>1 DEF IndexSound
    <1>3. \A k \in Keys : AgreesOn(c, k)'
        BY <1>2 DEF AgreesOn, Indexed, IndexHandled, Exists, Handled, Pending
    <1> QED BY <1>1, <1>3 DEF IndexSound

\* File and index entry of one request are brought together.
LEMMA IndexSync ==
    ASSUME TypeOK', CoherentInv', NEW c \in Clients, IndexSound(c),
           op[c].kind \notin Unindexed \cup {"rebuild", "rewrite"}, op'[c].kind \notin {"rebuild", "rewrite"},
           UNCHANGED now, NEW k \in Keys, Exists(k)', Indexed(c, k)',
           inner'[c].requests[k].order = files'[k].order,
           \A j \in Keys \ {k} : files'[j] = files[j] /\ inner'[c].requests[j] = inner[c].requests[j]
    PROVE  IndexSound(c)'
    <1>1. Unread(c)' = {}
        BY DEF Unread
    <1>2. \A j \in Keys \ {k} : AgreesOn(c, j)'
        BY AgreesAll DEF AgreesOn, Indexed, IndexHandled, Exists, Handled, Pending
    <1>3. Handled(k)' <=> files'[k].order = None
        BY DEF CoherentInv, FilesCoherent, Handled, Exists
    <1>4. AgreesOn(c, k)'
        BY <1>3 DEF AgreesOn, IndexHandled, Pending, Handled
    <1> QED BY <1>1, <1>2, <1>4 DEF IndexSound

\* Calls about which there is nothing to say.
LEMMA CallPlain ==
    ASSUME NEW c \in Clients, op'[c].kind \in {"closed", "idle", "create", "list", "add", "deliver", "persist"}
    PROVE  CallSound(c)'
    BY DEF CallSound

LEMMA CallOnPending ==
    ASSUME NEW c \in Clients, op'[c].kind \in {"lock", "mark", "reclaim", "prolong"}, NEW k \in Keys,
           op'[c].key = k, Pending(k), UNCHANGED files
    PROVE  CallSound(c)'
    BY DEF CallSound, Pending, Exists

\* A request that can be marked or reclaimed is pending.
LEMMA SomethingToDo ==
    ASSUME NEW c \in Clients, NEW k \in Keys, AgreesOn(c, k), ~NothingToDo(c, k)
    PROVE  Pending(k)
    BY DEF AgreesOn, NothingToDo, Pending, Handled

\* One call after another.
LEMMA SoleTurn ==
    ASSUME NEW c \in Clients, MayStart(c), SoleInv
    PROVE  /\ op[c] = Idle /\ op[c].kind = "idle"
           /\ IndexSound(c)
           /\ \A k \in Keys : AgreesOn(c, k)
    BY SoleClient, AgreesAll DEF MayStart, Idle, Unindexed

-------------------------------------------------------------------------------
(* The calls callers make *)

LEMMA SoleFetch ==
    ASSUME TypeOK, TypeOK', CoherentInv, SoleInv, SoleUse, NEW c \in Clients, Fetch(c)
    PROVE  SoleInv'
    <1>1. op'[c] = [kind |-> "fetch", todo |-> Candidates(c, now), at |-> now]
        BY DEF Fetch, Go, TypeOK
    <1>2. \A k \in Keys : AgreesOn(c, k)
        BY SoleTurn DEF Fetch
    <1>3. ASSUME NEW k \in Candidates(c, now) PROVE Pending(k)
        BY <1>2 DEF Candidates, AgreesOn, IndexHandled, Pending, Handled
    <1>4. ASSUME NEW k \in Keys \ Candidates(c, now), Pending(k) PROVE IsLockedOrder(files[k].order, now)
        BY <1>2, <1>4 DEF Candidates, AgreesOn, IndexHandled, Pending, Handled
    <1>5. UNCHANGED <<now, files, inner, dropping>>
        BY DEF Fetch
    <1>6. CallSound(c)'
        BY <1>1, <1>3, <1>4, <1>5 DEF CallSound, Pending, Exists, TypeOK
    <1>7. IndexSound(c)'
        BY <1>1, <1>5, SoleTurn, IndexStill DEF Fetch, Unindexed
    <1> QED BY <1>5, <1>6, <1>7, SoleClient, SoleStep

LEMMA SoleProlongRefused ==
    ASSUME TypeOK, TypeOK', CoherentInv', SoleInv, SoleUse, NEW c \in Clients, NEW k \in Keys, ProlongRefused(c, k)
    PROVE  SoleInv'
    <1>1. op[c] = Idle /\ op'[c] = Idle /\ UNCHANGED <<now, files, dropping>> /\ AgreesOn(c, k) /\ IndexSound(c)
        BY SoleTurn DEF ProlongRefused, MayStart
    <1>2. CallSound(c)'
        BY <1>1, CallPlain DEF Idle
    <1>3. CASE Exists(k)
        <2>1. inner'[c] = [inner[c] EXCEPT !.held[k] = None, !.requests = Resync(c, k, files[k].order)]
            BY <1>3 DEF ProlongRefused, Become, TypeOK
        <2>2. inner'[c].requests = Resync(c, k, files[k].order)
            BY <2>1, ClientType DEF InnerStates
        <2>3. inner'[c].requests = [inner[c].requests EXCEPT ![k].order = files[k].order]
            BY <1>1, <1>3, <2>2 DEF Resync, AgreesOn
        <2>4. inner[c].requests[k] \in Entries
            BY <1>1, <1>3, EntryOrder DEF AgreesOn
        <2>5. files[k].order \in Orders
            BY <1>3 DEF TypeOK, Exists, Files
        <2>6. /\ Indexed(c, k)' /\ inner'[c].requests[k].order = files[k].order
              /\ \A j \in Keys \ {k} : inner'[c].requests[j] = inner[c].requests[j]
            BY <2>3, <2>4, <2>5, ClientType, AbsentAssumption DEF Indexed, Entries
        <2>7. IndexSound(c)'
            BY <1>1, <1>3, <2>6, IndexSync DEF Idle, Unindexed, Exists
        <2> QED BY <1>1, <1>2, <2>7, SoleClient, SoleStep
    <1>4. CASE ~Exists(k)
        <2>1. inner'[c] = [inner[c] EXCEPT !.held[k] = None, !.requests[k] = Absent]
            BY <1>4 DEF ProlongRefused, Become, TypeOK
        <2>2. inner[c].requests[k] = Absent
            BY <1>1, <1>4 DEF AgreesOn, Indexed
        <2>3. inner'[c].requests = inner[c].requests
            BY <2>1, <2>2, ClientType DEF InnerStates
        <2>4. IndexSound(c)'
            BY <1>1, <2>3, IndexStill DEF Idle, Unindexed
        <2> QED BY <1>1, <1>2, <2>4, SoleClient, SoleStep
    <1> QED BY <1>3, <1>4

LEMMA SoleStart ==
    ASSUME TypeOK, TypeOK', CoherentInv, CoherentInv', SoleInv, SoleUse, NEW c \in Clients, Start(c)
    PROVE  SoleInv'
    <1>1. CASE Open(c)
        <2>1. PICK sole \in AccessModes :
                  Go(c, [kind |-> IF disk = Absent THEN "create" ELSE "list", sole |-> sole])
            BY <1>1 DEF Open
        <2>2. op'[c].kind \in {"create", "list"}
            BY <2>1 DEF Go, TypeOK
        <2>3. IndexSound(c)'
            BY <2>2 DEF IndexSound, Unindexed
        <2> QED BY <1>1, <2>2, <2>3, CallPlain, SoleClient, SoleStep DEF Open
    <1>2. CASE AddBatch(c)
        <2>1. PICK call \in Adds : Go(c, [kind |-> "add", batch |-> call.batch, forefront |-> call.forefront])
            BY <1>2 DEF AddBatch
        <2>2. op'[c].kind = "add"
            BY <2>1 DEF Go, TypeOK
        <2>3. IndexSound(c)'
            BY <1>2, <2>2, SoleTurn, IndexStill DEF AddBatch, Unindexed
        <2> QED BY <1>2, <2>2, <2>3, CallPlain, SoleClient, SoleStep DEF AddBatch
    <1>3. CASE Fetch(c)
        BY <1>3, SoleFetch
    <1>4. CASE Touch(c)
        <2>1. op'[c].kind = "persist"
            BY <1>4 DEF Touch, Go, TypeOK
        <2>2. IndexSound(c)'
            BY <1>4, <2>1, SoleTurn, IndexStill DEF Touch, Unindexed
        <2> QED BY <1>4, <2>1, <2>2, CallPlain, SoleClient, SoleStep DEF Touch
    <1>5. CASE Raise(c)
        <2>1. PICK d \in Raises : Become(c, [inner[c] EXCEPT !.lockMillis = d])
            BY <1>5 DEF Raise
        <2>2. inner'[c].requests = inner[c].requests
            BY <2>1, ClientType DEF Become, TypeOK, InnerStates
        <2>3. op'[c].kind = "idle"
            BY <1>5, SoleTurn DEF Raise
        <2>4. IndexSound(c)'
            BY <1>5, <2>2, <2>3, SoleTurn, IndexStill DEF Raise, Unindexed
        <2> QED BY <1>5, <2>3, <2>4, CallPlain, SoleClient, SoleStep DEF Raise
    <1>6. CASE Purge(c)
        <2>1. op'[c] = [kind |-> "purge", todo |-> {k \in Keys : Exists(k)}]
            BY <1>6 DEF Purge, Go, TypeOK
        <2>2. CallSound(c)'
            BY <1>6, <2>1 DEF Purge, CallSound, Exists
        <2>3. IndexSound(c)'
            BY <2>1 DEF IndexSound, Unindexed
        <2> QED BY <1>6, <2>2, <2>3, SoleClient, SoleStep DEF Purge
    <1>7. CASE DropDirectory(c)
        BY <1>7 DEF DropDirectory, SoleUse
    <1>8. ASSUME NEW k \in Keys, GiveUp(c, k) PROVE SoleInv'
        <2>1. inner'[c] = [inner[c] EXCEPT !.held[k] = None]
            BY <1>8 DEF GiveUp, Become, TypeOK
        <2>2. inner'[c].requests = inner[c].requests
            BY <2>1, ClientType DEF InnerStates
        <2>3. op'[c].kind = "idle"
            BY <1>8, SoleTurn DEF GiveUp
        <2>4. IndexSound(c)'
            BY <1>8, <2>2, <2>3, SoleTurn, IndexStill DEF GiveUp, Unindexed
        <2> QED BY <1>8, <2>3, <2>4, CallPlain, SoleClient, SoleStep DEF GiveUp
    <1>9. ASSUME NEW k \in Keys, Mark(c, k) PROVE SoleInv'
        <2>1. op'[c].kind = "mark" /\ op'[c].key = k
            BY <1>9 DEF Mark, Go, TypeOK
        <2>2. Pending(k)
            BY <1>9, SoleTurn, SomethingToDo DEF Mark
        <2>3. IndexSound(c)'
            BY <1>9, <2>1, SoleTurn, IndexStill DEF Mark, Unindexed
        <2>4. CallSound(c)'
            BY <1>9, <2>1, <2>2, CallOnPending DEF Mark
        <2> QED BY <1>9, <2>3, <2>4, SoleClient, SoleStep DEF Mark
    <1>10. ASSUME NEW k \in Keys, Reclaim(c, k) PROVE SoleInv'
        <2>1. PICK forefront \in BOOLEAN, handledAt \in ReclaimStamped :
                  Go(c, [kind |-> "reclaim", key |-> k, forefront |-> forefront, handledAt |-> handledAt,
                         order |-> CalculateOrderNo(forefront, now)])
            BY <1>10 DEF Reclaim
        <2>2. op'[c].kind = "reclaim" /\ op'[c].key = k
            BY <2>1 DEF Go, TypeOK
        <2>3. Pending(k)
            BY <1>10, SoleTurn, SomethingToDo DEF Reclaim
        <2>4. IndexSound(c)'
            BY <1>10, <2>2, SoleTurn, IndexStill DEF Reclaim, Unindexed
        <2>5. CallSound(c)'
            BY <1>10, <2>2, <2>3, CallOnPending DEF Reclaim
        <2> QED BY <1>10, <2>4, <2>5, SoleClient, SoleStep DEF Reclaim
    <1>11. ASSUME NEW k \in Keys, ProlongRefused(c, k) PROVE SoleInv'
        BY <1>11, SoleProlongRefused
    <1>12. ASSUME NEW k \in Keys, Prolong(c, k) PROVE SoleInv'
        <2>1. PICK extension \in Extensions :
                  Go(c, [kind |-> "prolong", key |-> k, order |-> ExtendedOrder(inner[c].held[k], extension),
                         handledAt |-> files[k].handledAt])
            BY <1>12 DEF Prolong
        <2>2. op'[c].kind = "prolong" /\ op'[c].key = k
            BY <2>1 DEF Go, TypeOK
        <2>3. Pending(k)
            BY <1>12 DEF Prolong, LostLock, CoherentInv, FilesCoherent, Pending
        <2>4. IndexSound(c)'
            BY <1>12, <2>2, SoleTurn, IndexStill DEF Prolong, Unindexed
        <2>5. CallSound(c)'
            BY <1>12, <2>2, <2>3, CallOnPending DEF Prolong
        <2> QED BY <1>12, <2>4, <2>5, SoleClient, SoleStep DEF Prolong
    <1> QED BY <1>1, <1>2, <1>3, <1>4, <1>5, <1>6, <1>7, <1>8, <1>9, <1>10, <1>11, <1>12 DEF Start

-------------------------------------------------------------------------------
(* open_with_clock and rebuild_index *)

LEMMA SoleBeforeRebuild ==
    ASSUME TypeOK, TypeOK', SoleInv, SoleUse, NEW c \in Clients, Create(c) \/ List(c) \/ Clear(c)
    PROVE  SoleInv'
    <1>1. now >= 1 /\ now' = now /\ files' = files /\ dropping' = {}
        BY SoleClient DEF Create, List, Clear
    <1>2. CASE Create(c) \/ List(c)
        <2>1. op'[c].kind \in {"list", "clear"}
            BY <1>2 DEF Create, List, Go, TypeOK
        <2>2. op'[c].kind = "clear" => op'[c].todo = {k \in Keys : Exists(k)}
            BY <1>2 DEF Create, List, Go, TypeOK
        <2>3. CallSound(c)'
            BY <1>1, <2>1, <2>2 DEF CallSound, Exists
        <2>4. IndexSound(c)'
            BY <2>1 DEF IndexSound, Unindexed
        <2> QED BY <1>1, <2>3, <2>4, SoleStep
    <1>3. CASE Clear(c)
        <2>1. op'[c] = [kind |-> "rebuild", sole |-> op[c].sole, todo |-> op[c].todo, at |-> now]
            BY <1>3 DEF Clear, Go, TypeOK
        <2>2. inner'[c] = InnerWith([NewMetadata EXCEPT !.forefront = inner[c].metadata.forefront])
            BY <1>3 DEF Clear, Become, TypeOK
        <2>3. \A k \in Keys : inner'[c].requests[k] = Absent
            BY <2>2 DEF InnerWith
        <2>4. op[c].todo = {k \in Keys : Exists(k)}
            BY <1>3, SoleClient DEF Clear, CallSound
        <2>5. \A k \in Keys : ~Indexed(c, k)' /\ ~IndexHandled(c, k)'
            BY <2>3 DEF Indexed, IndexHandled
        <2>6. Unread(c)' = {k \in Keys : Exists(k)}
            BY <2>1, <2>4 DEF Unread
        <2>7. IndexSound(c)'
            BY <1>1, <2>5, <2>6 DEF IndexSound, AgreesOn, Pending, Handled, Exists
        <2>8. CallSound(c)'
            BY <1>1, <2>1, <2>5 DEF CallSound, Unlocked, TypeOK
        <2> QED BY <1>1, <2>7, <2>8, SoleStep
    <1> QED BY <1>2, <1>3

\* The entry of a request that rebuild_index has read or rewritten.
LEMMA RestoreEntry ==
    ASSUME TypeOK, NEW c \in Clients, NEW k \in Keys, NEW order \in Orders, Restore(c, k, order)
    PROVE  /\ \A j \in Keys : inner'[c].requests[j] =
                  IF j = k THEN [order |-> order, seq |-> inner[c].counter] ELSE inner[c].requests[j]
           /\ \A j \in Keys : Indexed(c, j)' <=> j = k \/ Indexed(c, j)
           /\ inner'[c].metadata = CountRestored(inner[c].metadata, order)
           /\ inner'[c].held = inner[c].held
    <1>1. /\ \A j \in Keys : inner'[c].requests[j] =
                 IF j = k THEN [order |-> order, seq |-> inner[c].counter] ELSE inner[c].requests[j]
          /\ inner'[c].metadata = CountRestored(inner[c].metadata, order)
          /\ inner'[c].held = inner[c].held
        BY ClientType DEF Restore, Become, TypeOK, InnerStates
    <1>2. [order |-> order, seq |-> inner[c].counter] # Absent
        BY ClientType, AbsentAssumption DEF Entries
    <1> QED BY <1>1, <1>2 DEF Indexed

LEMMA SoleRebuild ==
    ASSUME TypeOK, TypeOK', CoherentInv, SoleInv, SoleUse, NEW c \in Clients, NEW k \in Keys, Rebuild(c, k)
    PROVE  SoleInv'
    <1> DEFINE order == files[k].order
               at == op[c].at
    <1>1. op[c] \in [kind : {"rebuild"}, sole : BOOLEAN, todo : SUBSET Keys, at : Nat]
        BY ClientType DEF Rebuild, RebuildNext, Calls
    <1>2. k \in op[c].todo /\ Exists(k) /\ UNCHANGED <<now, files, dropping>>
        BY DEF Rebuild, RebuildNext
    <1>3. files[k] \in Files /\ order \in Orders
        BY <1>2 DEF Exists, TypeOK, Files
    <1>4. (Handled(k) <=> order = None) /\ (Pending(k) <=> order # None)
        BY <1>2 DEF CoherentInv, FilesCoherent, Handled, Pending
    <1>5. RestoredOrder(files[k], at) = order
        BY <1>2, <1>4 DEF RestoredOrder, Handled
    <1>6. 1 <= at /\ at <= now /\ now \in Nat /\ at \in Nat
        BY <1>1, SoleClient DEF CallSound, TypeOK
    <1>7. Unread(c) = op[c].todo
        BY <1>1 DEF Unread
    <1>8. op[c].sole => Unlocked(c)
        BY <1>1, SoleClient DEF CallSound
    <1>9. \A j \in Keys : IF j \in op[c].todo THEN Exists(j) /\ ~Indexed(c, j) ELSE AgreesOn(c, j)
        BY <1>1, <1>7, SoleClient DEF IndexSound, Unindexed
    <1>10. CASE MustReclaim(op[c].sole, order, at)
        <2>1. /\ Go(c, [kind |-> "rewrite", sole |-> op[c].sole, todo |-> op[c].todo \ {k}, at |-> at,
                        key |-> k, order |-> WithSignOf(order, at)])
              /\ UNCHANGED inner
            BY <1>5, <1>10 DEF Rebuild
        <2>2. op'[c] = [kind |-> "rewrite", sole |-> op[c].sole, todo |-> op[c].todo \ {k}, at |-> at,
                        key |-> k, order |-> WithSignOf(order, at)]
            BY <2>1 DEF Go, TypeOK
        <2>3. order \in Int /\ Pending(k) /\ IsLockedOrder(order, at)
            BY <1>3, <1>4, <1>10 DEF MustReclaim, Orders
        <2>4. ~IsLockedOrder(WithSignOf(order, at), now) /\ (WithSignOf(order, at) < 0 <=> order < 0)
            <3> HIDE DEF order, at
            <3> QED BY <1>6, <2>3 DEF WithSignOf, IsLockedOrder
        <2>5. Unread(c)' = op[c].todo
            BY <1>1, <1>2, <2>2 DEF Unread
        <2>6. IndexSound(c)'
            BY <1>2, <1>9, <2>1, <2>5 DEF IndexSound, AgreesOn, Pending, Handled, Exists, Indexed, IndexHandled
        <2>7. CallSound(c)'
            <3> HIDE DEF order, at
            <3>1. op[c].sole => Unlocked(c)'
                BY <1>2, <1>8, <2>1 DEF Unlocked, Indexed, IndexHandled
            <3>2. Pending(k)'
                BY <1>2, <2>3 DEF Pending, Exists
            <3> QED BY <1>2, <1>6, <2>2, <2>4, <3>1, <3>2 DEF CallSound, order
        <2> QED BY <1>2, <2>6, <2>7, SoleClient, SoleStep
    <1>11. CASE ~MustReclaim(op[c].sole, order, at)
        <2>1. Go(c, [op[c] EXCEPT !.todo = op[c].todo \ {k}]) /\ Restore(c, k, order)
            BY <1>5, <1>11 DEF Rebuild
        <2>2. op'[c] = [op[c] EXCEPT !.todo = op[c].todo \ {k}]
            BY <2>1 DEF Go, TypeOK
        <2>3. /\ \A j \in Keys : inner'[c].requests[j] =
                     IF j = k THEN [order |-> order, seq |-> inner[c].counter] ELSE inner[c].requests[j]
              /\ \A j \in Keys : Indexed(c, j)' <=> j = k \/ Indexed(c, j)
            BY <1>3, <2>1, RestoreEntry
        <2>4. Unread(c)' = op[c].todo \ {k}
            BY <1>1, <2>2 DEF Unread
        <2> HIDE DEF order, at
        <2>5. \A j \in Keys : /\ Indexed(c, j)' <=> j = k \/ Indexed(c, j)
                              /\ inner'[c].requests[j].order = IF j = k THEN order ELSE inner[c].requests[j].order
            BY <2>3
        <2>6. \A j \in Keys : IndexHandled(c, j)' <=> IF j = k THEN order = None ELSE IndexHandled(c, j)
            BY <2>5 DEF IndexHandled
        <2>7. AgreesOn(c, k)'
            BY <1>2, <1>4, <2>5, <2>6 DEF AgreesOn, Pending, Handled, Exists, order
        <2>8. ASSUME NEW j \in Keys \ op[c].todo PROVE AgreesOn(c, j)'
            BY <1>2, <1>9, <2>5, <2>6 DEF AgreesOn, Pending, Handled, Exists
        <2>9. IndexSound(c)'
            BY <1>2, <1>9, <2>4, <2>5, <2>7, <2>8 DEF IndexSound, Exists
        <2>10. op[c].sole => Unlocked(c)'
            <3> SUFFICES ASSUME op[c].sole, NEW j \in Keys, Indexed(c, j)', ~IndexHandled(c, j)'
                         PROVE  ~IsLockedOrder(inner'[c].requests[j].order, now')
                BY DEF Unlocked
            <3>1. CASE j = k
                <4>1. order \in Int /\ ~IsLockedOrder(order, at)
                    BY <1>3, <1>11, <2>6, <3>1 DEF MustReclaim, Orders
                <4> QED BY <1>2, <1>6, <2>5, <3>1, <4>1 DEF IsLockedOrder
            <3>2. CASE j # k
                BY <1>2, <1>8, <2>5, <2>6, <3>2 DEF Unlocked
            <3> QED BY <3>1, <3>2
        <2>11. op'[c].kind = "rebuild" /\ op'[c].at = at /\ op'[c].sole = op[c].sole
            BY <1>1, <2>2 DEF at
        <2>12. CallSound(c)'
            BY <1>2, <1>6, <2>10, <2>11 DEF CallSound
        <2> QED BY <1>2, <2>9, <2>12, SoleClient, SoleStep
    <1> QED BY <1>10, <1>11

LEMMA SoleRewrite ==
    ASSUME TypeOK, TypeOK', CoherentInv, SoleInv, SoleUse, NEW c \in Clients, Rewrite(c) \/ RewriteFails(c)
    PROVE  SoleInv'
    <1>0. op[c].kind = "rewrite"
        BY DEF Rewrite, RewriteFails
    <1>1. op[c] \in [kind : {"rewrite"}, sole : BOOLEAN, todo : SUBSET Keys, at : Nat, key : Keys, order : Int]
        BY <1>0, ClientType DEF Calls
    <1>2. PICK k \in Keys : op[c].key = k
        BY <1>1
    <1>3. PICK order \in Int : op[c].order = order
        BY <1>1
    <1>4. Go(c, AfterRewrite(c)) /\ Restore(c, k, order) /\ UNCHANGED <<now, dropping>>
        BY <1>2, <1>3 DEF Rewrite, RewriteFails
    <1>5. op'[c] = [kind |-> "rebuild", sole |-> op[c].sole, todo |-> op[c].todo, at |-> op[c].at]
        BY <1>4 DEF Go, TypeOK, AfterRewrite
    <1>6. \A j \in Keys : /\ Indexed(c, j)' <=> j = k \/ Indexed(c, j)
                          /\ inner'[c].requests[j].order = IF j = k THEN order ELSE inner[c].requests[j].order
        <2>1. order \in Orders
            BY DEF Orders
        <2>2. /\ \A j \in Keys : inner'[c].requests[j] =
                     IF j = k THEN [order |-> order, seq |-> inner[c].counter] ELSE inner[c].requests[j]
              /\ \A j \in Keys : Indexed(c, j)' <=> j = k \/ Indexed(c, j)
            BY <1>4, <2>1, RestoreEntry
        <2> QED BY <2>2
    <1>7. \A j \in Keys : IndexHandled(c, j)' <=> j # k /\ IndexHandled(c, j)
        BY <1>6, NoneAssumption DEF IndexHandled
    <1>8. /\ Pending(k) /\ k \notin op[c].todo
          /\ ~IsLockedOrder(order, now) /\ (order < 0 <=> files[k].order < 0)
          /\ 1 <= op[c].at /\ op[c].at <= now
          /\ op[c].sole => Unlocked(c)
        BY <1>0, <1>2, <1>3, SoleClient DEF CallSound
    <1>9. /\ Pending(k)' /\ (order < 0 <=> files'[k].order < 0)
          /\ \A j \in Keys \ {k} : files'[j] = files[j]
        <2>1. CASE RewriteFails(c)
            BY <1>8, <2>1 DEF RewriteFails, Pending, Exists
        <2>2. CASE Rewrite(c)
            <3>1. WriteRequest(k, [order |-> order, handledAt |-> FALSE])
                BY <1>2, <1>3, <2>2 DEF Rewrite
            <3>2. [order |-> order, handledAt |-> FALSE] \in Files
                BY DEF Files, Orders
            <3>3. files'[k] = [order |-> order, handledAt |-> FALSE] /\ \A j \in Keys \ {k} : files'[j] = files[j]
                BY <3>1 DEF WriteRequest, TypeOK
            <3>4. files'[k].order = order /\ ~files'[k].handledAt
                BY <3>3
            <3>5. files'[k] # Absent
                <4> DEFINE file == [order |-> order, handledAt |-> FALSE]
                <4>1. file \in Files /\ files'[k] = file
                    BY <3>2, <3>3
                <4> HIDE DEF file
                <4> QED BY <4>1, AbsentAssumption
            <3> QED BY <3>3, <3>4, <3>5 DEF Pending, Exists
        <2> QED BY <2>1, <2>2
    <1>10. Unread(c) = op[c].todo \cup {k} /\ Unread(c)' = op[c].todo
        BY <1>1, <1>2, <1>5 DEF Unread
    <1>11. \A j \in Keys : IF j \in op[c].todo \cup {k} THEN Exists(j) /\ ~Indexed(c, j) ELSE AgreesOn(c, j)
        BY <1>0, <1>10, SoleClient DEF IndexSound, Unindexed
    <1>12. AgreesOn(c, k)'
        BY <1>4, <1>6, <1>7, <1>8, <1>9 DEF AgreesOn, Pending, Handled
    <1>13. ASSUME NEW j \in Keys, j \notin op[c].todo, j # k PROVE AgreesOn(c, j)'
        BY <1>4, <1>6, <1>7, <1>9, <1>11, <1>13 DEF AgreesOn, Pending, Handled, Exists
    <1>14. IndexSound(c)'
        BY <1>6, <1>8, <1>9, <1>10, <1>11, <1>12, <1>13 DEF IndexSound, Exists
    <1>15. op[c].sole => Unlocked(c)'
        BY <1>4, <1>6, <1>7, <1>8 DEF Unlocked
    <1>16. CallSound(c)'
        BY <1>4, <1>5, <1>8, <1>15 DEF CallSound
    <1> QED BY <1>4, <1>14, <1>16, SoleClient, SoleStep

LEMMA SoleOpening ==
    ASSUME TypeOK, TypeOK', CoherentInv, SoleInv, SoleUse, NEW c \in Clients, Opening(c)
    PROVE  SoleInv'
    <1>1. CASE RebuildDone(c)
        <2>1. op[c].kind = "rebuild" /\ op[c].todo = {} /\ op'[c] = [kind |-> "ready", sole |-> op[c].sole]
            BY <1>1 DEF RebuildDone, Go, TypeOK
        <2>2. inner'[c].requests = inner[c].requests
            BY <1>1, ClientType DEF RebuildDone, Become, TypeOK, InnerStates
        <2>3. IndexSound(c)'
            BY <1>1, <2>1, <2>2, SoleClient, IndexStill DEF RebuildDone, Unindexed, Unread
        <2>4. op[c].sole => Unlocked(c)'
            BY <1>1, <2>1, <2>2, SoleClient DEF RebuildDone, CallSound, Unlocked, Indexed, IndexHandled
        <2>5. CallSound(c)'
            BY <2>1, <2>4 DEF CallSound
        <2> QED BY <1>1, <2>3, <2>5, SoleClient, SoleStep DEF RebuildDone
    <1>2. CASE Ready(c)
        <2>1. op[c].kind = "ready" /\ op'[c].kind = "idle"
            BY <1>2 DEF Ready, Go, TypeOK, Idle
        <2>2. IndexSound(c)'
            BY <1>2, <2>1, SoleClient, IndexStill DEF Ready, Unindexed
        <2> QED BY <1>2, <2>1, <2>2, CallPlain, SoleClient, SoleStep DEF Ready
    <1>3. ASSUME NEW k \in Keys, RebuildSkip(c, k) PROVE SoleInv'
        <2>1. op[c].kind = "rebuild" /\ k \in Unread(c) /\ ~Exists(k)
            BY <1>3 DEF RebuildSkip, RebuildNext, Unread
        <2> QED BY <2>1, SoleClient DEF IndexSound, Unindexed
    <1> QED BY <1>1, <1>2, <1>3, SoleBeforeRebuild, SoleRebuild, SoleRewrite DEF Opening

-------------------------------------------------------------------------------
(* The calls of an open client *)

\* A step of c that writes the file of k and sets its index entry to match.
Synced(c, k) ==
    /\ Exists(k)' /\ Indexed(c, k)'
    /\ inner'[c].requests[k].order = files'[k].order
    /\ \A j \in Keys \ {k} : files'[j] = files[j] /\ inner'[c].requests[j] = inner[c].requests[j]

LEMMA SyncedBy ==
    ASSUME TypeOK, NEW c \in Clients, NEW k \in Keys, NEW file \in Files, WriteRequest(k, file),
           NEW entry \in Entries, inner'[c].requests = [inner[c].requests EXCEPT ![k] = entry],
           entry.order = file.order
    PROVE  Synced(c, k) /\ files'[k] = file /\ inner'[c].requests[k] = entry
    <1>1. file # Absent /\ entry # Absent
        BY AbsentAssumption
    <1>2. inner[c].requests \in [Keys -> Entries \cup {Absent}]
        BY ClientType
    <1>3. /\ files'[k] = file /\ inner'[c].requests[k] = entry
          /\ \A j \in Keys \ {k} : files'[j] = files[j] /\ inner'[c].requests[j] = inner[c].requests[j]
        BY <1>2 DEF WriteRequest, TypeOK
    <1> QED BY <1>1, <1>3 DEF Synced, Exists, Indexed

LEMMA AddWriteSyncs ==
    ASSUME TypeOK, NEW c \in Clients, AddWrite(c)
    PROVE  /\ op[c].key \in Keys /\ Synced(c, op[c].key)
           /\ files'[op[c].key].handledAt = op[c].handledAt
           /\ inner'[c].metadata = CountAdded(MovedForward(c, op[c].key), Indexed(c, op[c].key), op[c].handledAt)
           /\ op'[c] = [kind |-> "add", batch |-> op[c].batch, forefront |-> op[c].forefront]
    <1>0. PICK k \in Keys : op[c].key = k
        BY ClientType DEF AddWrite, Calls
    <1> DEFINE file == [order |-> op[c].order, handledAt |-> op[c].handledAt]
               m == CountAdded(MovedForward(c, k), Indexed(c, k), op[c].handledAt)
               entry == [order |-> op[c].order, seq |-> op[c].seq]
    <1>1. op[c] \in [kind : {"addWrite"}, key : Keys, handledAt : BOOLEAN, order : Orders, seq : Nat,
                     batch : Seq(Items), forefront : BOOLEAN]
        BY ClientType DEF AddWrite, Calls
    <1>2. entry \in Entries /\ file \in Files /\ entry.order = file.order /\ file.handledAt = op[c].handledAt
        BY <1>1 DEF Entries, Files
    <1>3. WriteRequest(k, file) /\ Become(c, [inner[c] EXCEPT !.requests[k] = entry, !.metadata = m])
        BY <1>0 DEF AddWrite
    <1>4. op'[c] = [kind |-> "add", batch |-> op[c].batch, forefront |-> op[c].forefront]
        BY DEF AddWrite, Go, TypeOK
    <1> HIDE DEF entry, file, m
    <1>5. inner'[c].requests = [inner[c].requests EXCEPT ![k] = entry] /\ inner'[c].metadata = m
        BY <1>3, ClientType DEF Become, TypeOK, InnerStates
    <1>6. Synced(c, k) /\ files'[k] = file
        BY <1>2, <1>3, <1>5, SyncedBy
    <1> QED BY <1>0, <1>2, <1>4, <1>5, <1>6 DEF m

LEMMA ResyncEntry ==
    ASSUME TypeOK, NEW c \in Clients, NEW k \in Keys, NEW order \in Orders, Indexed(c, k)
    PROVE  /\ Resync(c, k, order) = [inner[c].requests EXCEPT ![k] = [order |-> order, seq |-> inner[c].requests[k].seq]]
           /\ [order |-> order, seq |-> inner[c].requests[k].seq] \in Entries
    <1>1. inner[c].requests \in [Keys -> Entries \cup {Absent}] /\ inner[c].requests[k] \in Entries
        BY ClientType, EntryOrder
    <1>2. [inner[c].requests[k] EXCEPT !.order = order] = [order |-> order, seq |-> inner[c].requests[k].seq]
        BY <1>1 DEF Entries
    <1> QED BY <1>1, <1>2 DEF Resync, Entries

\* FetchLock and ProlongWrite: the order goes into the file and the entry.
LEMMA LockSyncs ==
    ASSUME TypeOK, CoherentInv, NEW c \in Clients, FetchLock(c) \/ ProlongWrite(c), Indexed(c, op[c].key)
    PROVE  /\ op[c].key \in Keys /\ Synced(c, op[c].key)
           /\ ~files'[op[c].key].handledAt
           /\ inner'[c].metadata = inner[c].metadata
           /\ op'[c].kind \in {"deliver", "persist"}
    <1>0. PICK k \in Keys : op[c].key = k
        BY ClientType DEF FetchLock, ProlongWrite, Calls
    <1> DEFINE file == [order |-> op[c].order, handledAt |-> op[c].handledAt]
               entry == [order |-> op[c].order, seq |-> inner[c].requests[k].seq]
    <1>1. op[c].order \in Int /\ op[c].handledAt \in BOOLEAN /\ op[c].kind \in {"lock", "prolong"}
        BY ClientType DEF FetchLock, ProlongWrite, Calls
    <1>2. ~op[c].handledAt
        BY <1>1, NoneAssumption DEF CoherentInv, Writes, Coherent
    <1>3. file \in Files /\ file.order = op[c].order /\ ~file.handledAt
        BY <1>1, <1>2 DEF Files, Orders
    <1>4. op[c].order \in Orders
        BY <1>1 DEF Orders
    <1>5. Resync(c, k, op[c].order) = [inner[c].requests EXCEPT ![k] = entry] /\ entry \in Entries
        BY <1>0, <1>4, ResyncEntry
    <1>6. entry.order = op[c].order
        OBVIOUS
    <1>7. WriteRequest(k, file)
        BY <1>0 DEF FetchLock, ProlongWrite
    <1>8. inner'[c].requests = Resync(c, k, op[c].order) /\ inner'[c].metadata = inner[c].metadata
        <2>1. CASE FetchLock(c)
            <3>1. inner'[c] = [inner[c] EXCEPT !.requests = Resync(c, k, op[c].order)]
                BY <1>0, <2>1 DEF FetchLock, Become, TypeOK
            <3> QED BY <3>1, ClientType DEF InnerStates
        <2>2. CASE ProlongWrite(c)
            <3>1. inner'[c] = [inner[c] EXCEPT !.held[k] = op[c].order, !.requests = Resync(c, k, op[c].order)]
                BY <1>0, <2>2 DEF ProlongWrite, Become, TypeOK
            <3> QED BY <3>1, ClientType DEF InnerStates
        <2> QED BY <2>1, <2>2
    <1>9. op'[c].kind \in {"deliver", "persist"}
        BY DEF FetchLock, ProlongWrite, Go, TypeOK
    <1> HIDE DEF entry, file
    <1>10. Synced(c, k) /\ files'[k] = file
        BY <1>3, <1>5, <1>6, <1>7, <1>8, SyncedBy
    <1> QED BY <1>0, <1>3, <1>8, <1>9, <1>10

LEMMA MarkSyncs ==
    ASSUME TypeOK, NEW c \in Clients, MarkWrite(c)
    PROVE  /\ op[c].key \in Keys /\ Synced(c, op[c].key)
           /\ files'[op[c].key].handledAt
           /\ inner'[c].metadata = CountHandled(Unlisted(inner[c].metadata, op[c].key))
           /\ op'[c].kind = "persist"
    <1>0. PICK k \in Keys : op[c].key = k
        BY ClientType DEF MarkWrite, Calls
    <1> DEFINE m == CountHandled(Unlisted(inner[c].metadata, k))
    <1>1. HandledFile(k) \in Files /\ HandledFile(k).order = None /\ HandledFile(k).handledAt
        BY DEF HandledFile, Files, Orders
    <1>2. Seq0(c, k) \in Nat
        BY EntryOrder DEF Seq0, Entries
    <1>3. HandledEntry(c, k) \in Entries /\ HandledEntry(c, k).order = None
        BY <1>2 DEF HandledEntry, Entries, Orders
    <1>4. /\ WriteRequest(k, HandledFile(k))
          /\ Become(c, [inner[c] EXCEPT !.held[k] = None, !.requests[k] = HandledEntry(c, k), !.metadata = m])
        BY <1>0 DEF MarkWrite
    <1>5. op'[c].kind = "persist"
        BY DEF MarkWrite, Go, TypeOK
    <1> HIDE DEF m
    <1>6. inner'[c].requests = [inner[c].requests EXCEPT ![k] = HandledEntry(c, k)] /\ inner'[c].metadata = m
        BY <1>4, ClientType DEF Become, TypeOK, InnerStates
    <1>7. Synced(c, k) /\ files'[k] = HandledFile(k)
        BY <1>1, <1>3, <1>4, <1>6, SyncedBy
    <1> QED BY <1>0, <1>1, <1>5, <1>6, <1>7 DEF m

LEMMA ReclaimSyncs ==
    ASSUME TypeOK, CoherentInv, NEW c \in Clients, ReclaimWrite(c)
    PROVE  /\ op[c].key \in Keys /\ Synced(c, op[c].key)
           /\ ~files'[op[c].key].handledAt
           /\ inner'[c].metadata.handled = inner[c].metadata.handled
           /\ inner'[c].metadata.pending = inner[c].metadata.pending
           /\ inner'[c].metadata.total = inner[c].metadata.total
           /\ op'[c].kind = "persist"
    <1>0. PICK k \in Keys : op[c].key = k
        BY ClientType DEF ReclaimWrite, Calls
    <1> DEFINE file == [order |-> op[c].order, handledAt |-> op[c].handledAt]
               entry == [order |-> op[c].order, seq |-> ReclaimedSeq(c, k)]
               n == IF Indexed(c, k) THEN inner[c].counter ELSE inner[c].counter + 1
               ff == IF op[c].forefront /\ inner[c].metadata.forefront[k] = 0
                     THEN Push(inner[c].metadata.forefront, k) ELSE inner[c].metadata.forefront
               state == [inner[c] EXCEPT !.held[k] = None, !.requests[k] = entry, !.counter = n,
                                         !.metadata.forefront = ff]
    <1>1. op[c].order \in Int /\ op[c].handledAt \in BOOLEAN /\ op[c].kind = "reclaim"
        BY ClientType DEF ReclaimWrite, Calls
    <1>2. ~op[c].handledAt
        BY <1>1, NoneAssumption DEF CoherentInv, Writes, Coherent
    <1>3. file \in Files /\ file.order = op[c].order /\ ~file.handledAt
        BY <1>1, <1>2 DEF Files, Orders
    <1>4. ReclaimedSeq(c, k) \in Nat
        BY EntryOrder, ClientType DEF ReclaimedSeq, Entries
    <1>5. entry \in Entries /\ entry.order = op[c].order
        BY <1>1, <1>4 DEF Entries, Orders
    <1>6. WriteRequest(k, file) /\ Become(c, state)
        BY <1>0 DEF ReclaimWrite
    <1>7. op'[c].kind = "persist"
        BY DEF ReclaimWrite, Go, TypeOK
    <1>8. inner'[c] = state
        <2> HIDE DEF state
        <2> QED BY <1>6 DEF Become, TypeOK
    <1> HIDE DEF file, entry, n, ff
    <1>9. /\ inner'[c].requests = [inner[c].requests EXCEPT ![k] = entry]
          /\ inner'[c].metadata = [inner[c].metadata EXCEPT !.forefront = ff]
        BY <1>8, ClientType DEF InnerStates
    <1>10. Synced(c, k) /\ files'[k] = file
        BY <1>3, <1>5, <1>6, <1>9, SyncedBy
    <1> QED BY <1>0, <1>3, <1>7, <1>9, <1>10, ClientType DEF Metadata

LEMMA SoleWrite ==
    ASSUME TypeOK, TypeOK', CoherentInv, CoherentInv', SoleInv, SoleUse, NEW c \in Clients,
           AddWrite(c) \/ FetchLock(c) \/ MarkWrite(c) \/ ReclaimWrite(c) \/ ProlongWrite(c)
    PROVE  SoleInv' /\ op[c].key \in Keys /\ ~Handled(op[c].key) /\ Synced(c, op[c].key)
    <1>1. op[c].kind \in {"addWrite", "lock", "mark", "reclaim", "prolong"} /\ UNCHANGED <<now, dropping>>
        BY DEF AddWrite, FetchLock, MarkWrite, ReclaimWrite, ProlongWrite
    <1>2. op[c].key \in Keys
        BY <1>1, ClientType DEF Calls
    <1>3. \A k \in Keys : AgreesOn(c, k)
        BY <1>1, SoleClient, AgreesAll DEF Unindexed
    <1>4. op[c].kind # "addWrite" => Pending(op[c].key) /\ Indexed(c, op[c].key)
        BY <1>1, <1>2, <1>3, SoleClient DEF CallSound, AgreesOn, Pending
    <1>5. op[c].kind = "addWrite" => AddWrite(c)
        BY <1>1 DEF AddWrite, FetchLock, MarkWrite, ReclaimWrite, ProlongWrite
    <1>6. Synced(c, op[c].key) /\ op'[c].kind \in {"add", "deliver", "persist"}
        <2>1. CASE AddWrite(c)
            <3>1. Synced(c, op[c].key) /\ op'[c] = [kind |-> "add", batch |-> op[c].batch, forefront |-> op[c].forefront]
                BY <2>1, AddWriteSyncs
            <3> QED BY <3>1
        <2>2. CASE FetchLock(c) \/ ProlongWrite(c)
            BY <1>4, <2>2, LockSyncs DEF FetchLock, ProlongWrite
        <2> QED BY <2>1, <2>2, MarkSyncs, ReclaimSyncs
    <1>7. IndexSound(c)'
        <2>1. PICK k \in Keys : op[c].key = k
            BY <1>2
        <2>2. Synced(c, k)
            BY <1>6, <2>1
        <2> QED BY <1>1, <1>6, <2>2, SoleClient, IndexSync DEF Synced, Unindexed
    <1>8. CallSound(c)'
        BY <1>6, CallPlain
    <1>9. ~Handled(op[c].key)
        BY <1>1, <1>4, SoleClient DEF CallSound, Pending, Handled
    <1> QED BY <1>1, <1>2, <1>6, <1>7, <1>8, <1>9, SoleClient, SoleStep

LEMMA SoleFetching ==
    ASSUME TypeOK, TypeOK', CoherentInv, CoherentInv', SoleInv, SoleUse, NEW c \in Clients, NEW k \in Keys,
           FetchVanished(c, k) \/ FetchSkip(c, k) \/ FetchFree(c, k)
    PROVE  SoleInv'
    <1>1. op[c].kind = "fetch" /\ k \in op[c].todo /\ UNCHANGED <<now, files, dropping>>
        BY DEF FetchVanished, FetchSkip, FetchFree, FetchNext
    <1>2. op[c] \in [kind : {"fetch"}, todo : SUBSET Keys, at : Nat]
        BY <1>1, ClientType DEF Calls
    <1>3. /\ op[c].at <= now
          /\ \A j \in op[c].todo : Pending(j)
          /\ \A j \in Keys \ op[c].todo : Pending(j) => IsLockedOrder(files[j].order, op[c].at)
        BY <1>1, SoleClient DEF CallSound
    <1>4. AgreesOn(c, k) /\ Pending(k) /\ Exists(k) /\ Indexed(c, k)
        BY <1>1, <1>3, SoleClient, AgreesAll DEF Unindexed, AgreesOn, Pending
    <1>5. CASE FetchVanished(c, k)
        BY <1>4, <1>5 DEF FetchVanished
    <1>6. CASE FetchSkip(c, k)
        <2>1. op'[c] = [op[c] EXCEPT !.todo = @ \ {k}]
            BY <1>6 DEF FetchSkip, Go, TypeOK
        <2>2. op'[c].kind = "fetch" /\ op'[c].at = op[c].at /\ op'[c].todo = op[c].todo \ {k}
            BY <1>2, <2>1
        <2>3. IsLockedOrder(files[k].order, op[c].at)
            BY <1>4, <1>6, PendingOrder, NoneAssumption DEF FetchSkip, MustSkip
        <2>4. CallSound(c)'
            BY <1>1, <1>3, <2>2, <2>3 DEF CallSound, Pending, Exists
        <2>5. files[k].order \in Orders
            BY <1>4 DEF TypeOK, Exists, Files
        <2>6. inner'[c] = [inner[c] EXCEPT !.requests = Resync(c, k, files[k].order)]
            BY <1>6 DEF FetchSkip, Become, TypeOK
        <2> DEFINE entry == [order |-> files[k].order, seq |-> inner[c].requests[k].seq]
        <2>7. inner'[c].requests = [inner[c].requests EXCEPT ![k] = entry] /\ entry \in Entries
            BY <1>4, <2>5, <2>6, ResyncEntry, ClientType DEF InnerStates
        <2>8. entry.order = files[k].order /\ entry # Absent
            BY <2>7, AbsentAssumption
        <2> HIDE DEF entry
        <2>9. /\ inner'[c].requests[k] = entry
              /\ \A j \in Keys \ {k} : inner'[c].requests[j] = inner[c].requests[j]
            BY <2>7, ClientType
        <2>10. IndexSound(c)'
            BY <1>1, <1>4, <2>2, <2>8, <2>9, SoleClient, IndexSync DEF Unindexed, Indexed, Exists
        <2> QED BY <1>1, <2>4, <2>10, SoleClient, SoleStep
    <1>7. CASE FetchFree(c, k)
        <2>1. op'[c].kind = "lock" /\ op'[c].key = k
            BY <1>7 DEF FetchFree, Go, TypeOK
        <2>2. CallSound(c)'
            BY <1>1, <1>4, <2>1, CallOnPending
        <2>3. IndexSound(c)'
            BY <1>1, <1>7, <2>1, SoleClient, IndexStill DEF FetchFree, Unindexed
        <2> QED BY <1>1, <2>2, <2>3, SoleClient, SoleStep
    <1> QED BY <1>5, <1>6, <1>7

LEMMA SolePurging ==
    ASSUME TypeOK, TypeOK', SoleInv, SoleUse, NEW c \in Clients,
           PurgeDone(c) \/ \E k \in Keys : PurgeFile(c, k) \/ PurgeFails(c, k)
    PROVE  SoleInv'
    <1>1. op[c].kind = "purge" /\ op[c].todo = {k \in Keys : Exists(k)}
        BY SoleClient DEF PurgeDone, PurgeFile, PurgeFails, CallSound
    <1>2. op[c] \in [kind : {"purge"}, todo : SUBSET Keys]
        BY <1>1, ClientType DEF Calls
    <1>3. CASE PurgeDone(c)
        <2>1. UNCHANGED <<now, files, dropping>> /\ op'[c].kind = "persist"
            BY <1>3 DEF PurgeDone, Go, TypeOK
        <2>2. inner'[c] = Purged(inner[c])
            BY <1>3 DEF PurgeDone, Become, TypeOK
        <2>3. inner'[c].requests = [k \in Keys |-> Absent]
            BY <2>2 DEF Purged, InnerWith
        <2>4. \A k \in Keys : ~Indexed(c, k)' /\ ~Exists(k)'
            BY <1>1, <1>3, <2>1, <2>3 DEF PurgeDone, Indexed, Exists
        <2>5. IndexSound(c)'
            BY <2>1, <2>4 DEF IndexSound, Unread, AgreesOn, IndexHandled, Handled, Pending
        <2> QED BY <2>1, <2>5, CallPlain, SoleClient, SoleStep
    <1>4. ASSUME NEW k \in Keys, PurgeFile(c, k) PROVE SoleInv'
        <2>1. op'[c] = [op[c] EXCEPT !.todo = @ \ {k}]
            BY <1>4 DEF PurgeFile, Go, TypeOK
        <2>2. op'[c].kind = "purge" /\ op'[c].todo = op[c].todo \ {k}
            BY <1>2, <2>1
        <2>3. \A j \in Keys : files'[j] = IF j = k THEN Absent ELSE files[j]
            BY <1>4 DEF PurgeFile, WriteRequest, TypeOK
        <2>4. op'[c].todo = {j \in Keys : Exists(j)'}
            BY <1>1, <2>2, <2>3 DEF Exists
        <2>5. CallSound(c)'
            BY <2>2, <2>4 DEF CallSound
        <2>6. IndexSound(c)'
            BY <2>2 DEF IndexSound, Unindexed
        <2> QED BY <1>4, <2>5, <2>6, SoleClient, SoleStep DEF PurgeFile
    <1>5. ASSUME NEW k \in Keys, PurgeFails(c, k) PROVE SoleInv'
        BY <1>1, <1>5 DEF PurgeFails
    <1> QED BY <1>3, <1>4, <1>5

LEMMA SoleContinue ==
    ASSUME TypeOK, TypeOK', CoherentInv, CoherentInv', SoleInv, SoleUse, NEW c \in Clients, Continue(c)
    PROVE  SoleInv'
    <1>1. CASE AddMalformed(c) \/ AddDone(c) \/ FetchNothing(c) \/ Persist(c)
        <2>1. /\ op[c].kind \in {"add", "fetch", "persist"} /\ op'[c].kind \in {"idle", "persist"}
              /\ UNCHANGED <<now, files, inner, dropping>>
            BY <1>1 DEF AddMalformed, AddDone, FetchNothing, Persist, Go, TypeOK, Idle
        <2>2. IndexSound(c)'
            BY <2>1, SoleClient, IndexStill DEF Unindexed
        <2> QED BY <2>1, <2>2, CallPlain, SoleClient, SoleStep
    <1>2. CASE AddSkip(c)
        <2>1. op[c] \in [kind : {"add"}, batch : Seq(Items), forefront : BOOLEAN]
            BY <1>2, ClientType DEF AddSkip, Calls
        <2>2. op'[c] = [op[c] EXCEPT !.batch = Tail(@)]
            BY <1>2 DEF AddSkip, Go, TypeOK
        <2>3. op'[c].kind = "add"
            BY <2>1, <2>2
        <2>4. IndexSound(c)'
            BY <1>2, <2>1, <2>3, SoleClient, IndexStill DEF AddSkip, Unindexed
        <2> QED BY <1>2, <2>3, <2>4, CallPlain, SoleClient, SoleStep DEF AddSkip
    <1>3. CASE AddItem(c)
        <2>1. Head(op[c].batch) \in Items
            BY <1>3, AddCallType DEF AddItem
        <2>2. Head(op[c].batch).key \in Keys
            BY <1>3, <2>1 DEF AddItem, Items
        <2>3. AgreesOn(c, Head(op[c].batch).key)
            BY <1>3, <2>2, SoleClient, AgreesAll DEF AddItem, Unindexed
        <2>4. ~Handled(Head(op[c].batch).key)
            BY <1>3, <2>3 DEF AddItem, AlreadyThere, AgreesOn
        <2>5. op'[c].kind = "addWrite" /\ op'[c].key = Head(op[c].batch).key
            BY <1>3 DEF AddItem, Go, TypeOK
        <2>6. CallSound(c)'
            BY <1>3, <2>4, <2>5 DEF AddItem, CallSound, Handled, Exists
        <2>7. inner'[c].requests = inner[c].requests
            BY <1>3, ClientType DEF AddItem, Become, TypeOK, InnerStates
        <2>8. IndexSound(c)'
            BY <1>3, <2>5, <2>7, SoleClient, IndexStill DEF AddItem, Unindexed
        <2> QED BY <1>3, <2>6, <2>8, SoleClient, SoleStep DEF AddItem
    <1>4. CASE Deliver(c)
        <2>1. op'[c].kind = "idle"
            BY <1>4 DEF Deliver, Go, TypeOK, Idle
        <2>2. inner'[c].requests = inner[c].requests
            BY <1>4, ClientType DEF Deliver, Become, TypeOK, InnerStates
        <2>3. IndexSound(c)'
            BY <1>4, <2>1, <2>2, SoleClient, IndexStill DEF Deliver, Unindexed
        <2> QED BY <1>4, <2>1, <2>3, CallPlain, SoleClient, SoleStep DEF Deliver
    <1>5. CASE DropClear(c)
        BY <1>5, SoleClient DEF DropClear
    <1> QED BY <1>1, <1>2, <1>3, <1>4, <1>5, SoleOpening, SoleWrite, SoleFetching, SolePurging DEF Continue

-------------------------------------------------------------------------------
(* Faults and time *)

LEMMA SoleFail ==
    ASSUME TypeOK, TypeOK', CoherentInv, SoleInv, SoleUse, NEW c \in Clients, Fail(c)
    PROVE  SoleInv'
    <1>1. CASE Crash(c) \/ OpenFails(c)
        <2>1. op'[c].kind = "closed" /\ now' = now /\ dropping' = {}
            BY <1>1, SoleClient DEF Crash, OpenFails, Stop, Go, TypeOK, Closed
        <2>2. IndexSound(c)'
            BY <2>1 DEF IndexSound, Unindexed
        <2> QED BY <2>1, <2>2, CallPlain, SoleClient, SoleStep
    <1>2. CASE WriteFails(c)
        <2>1. op[c].kind \in {"addWrite", "lock", "deliver", "mark", "reclaim", "prolong", "persist"} /\ op'[c].kind = "idle"
            BY <1>2 DEF WriteFails, Go, TypeOK, Idle
        <2>2. IndexSound(c)'
            BY <1>2, <2>1, SoleClient, IndexStill DEF WriteFails, Unindexed
        <2> QED BY <1>2, <2>1, <2>2, CallPlain, SoleClient, SoleStep DEF WriteFails
    <1>3. CASE RemoveFails(c) \/ \E k \in Keys : FetchReadFails(c, k) \/ RebuildReadFails(c, k)
        BY <1>3 DEF RemoveFails, FetchReadFails, RebuildReadFails, MayFault, SoleUse
    <1> QED BY <1>1, <1>2, <1>3, SoleRewrite DEF Fail

\* What is not locked never becomes so by itself.
LEMMA StaysFree ==
    ASSUME TypeOK, Tick, NEW order \in Int, ~IsLockedOrder(order, now)
    PROVE  ~IsLockedOrder(order, now')
    BY DEF Tick, TypeOK, IsLockedOrder

LEMMA SoleTick ==
    ASSUME TypeOK, CoherentInv, SoleInv, SoleUse, Tick
    PROVE  SoleInv'
    <1>1. now >= 1 /\ now' >= 1 /\ now \in Nat /\ now' = now + 1 /\ UNCHANGED <<files, op, inner, dropping>>
        BY DEF Tick, TypeOK, SoleInv
    <1> SUFFICES ASSUME NEW c \in Clients PROVE IndexSound(c)' /\ CallSound(c)'
        BY <1>1 DEF SoleInv
    <1>2. ASSUME NEW k \in Keys, Indexed(c, k), ~IndexHandled(c, k) PROVE inner[c].requests[k].order \in Int
        BY <1>2, EntryOrder DEF IndexHandled, Orders
    <1>3. ASSUME NEW k \in Keys, AgreesOn(c, k) PROVE AgreesOn(c, k)'
        <2>1. Pending(k) => inner[c].requests[k].order \in Int
            BY <1>2, <1>3 DEF AgreesOn, Pending, Handled
        <2> QED BY <1>1, <1>3, <2>1, StaysFree DEF AgreesOn, Indexed, IndexHandled, Pending, Handled, Exists
    <1>4. IndexSound(c)'
        <2>1. Unread(c)' = Unread(c)
            BY <1>1 DEF Unread
        <2> QED BY <1>1, <1>3, <2>1, SoleClient DEF IndexSound, Indexed, Exists
    <1>5. Unlocked(c) => Unlocked(c)'
        BY <1>1, <1>2, StaysFree DEF Unlocked, Indexed, IndexHandled
    <1>6. op[c].kind \in {"rebuild", "rewrite", "fetch"} => op[c].at \in Nat
        BY ClientType DEF Calls
    <1>7. op[c].kind = "rewrite" => op[c].order \in Int
        BY ClientType DEF Calls
    <1>8. CallSound(c)'
        BY <1>1, <1>5, <1>6, <1>7, StaysFree, SoleClient DEF CallSound, Pending, Handled, Exists
    <1> QED BY <1>4, <1>8

-------------------------------------------------------------------------------
(* The counters *)

LEMMA OneMoreOrLess ==
    ASSUME NEW S \in SUBSET Keys, NEW k \in Keys
    PROVE  /\ Cardinality(S) \in Nat
           /\ k \notin S => Cardinality(S \cup {k}) = Cardinality(S) + 1 /\ S \ {k} = S
           /\ k \in S => Cardinality(S \ {k}) = Cardinality(S) - 1 /\ Cardinality(S) > 0 /\ S \cup {k} = S
    <1>1. IsFiniteSet(S) /\ Cardinality(S) \in Nat
        BY KeysAssumption, FS_Subset, FS_CardinalityType
    <1>2. k \notin S => Cardinality(S \cup {k}) = Cardinality(S) + 1
        BY <1>1, FS_AddElement
    <1>3. k \in S => Cardinality(S \ {k}) = Cardinality(S) - 1 /\ Cardinality(S \ {k}) \in Nat
        BY <1>1, FS_RemoveElement, CountType
    <1>4. (k \notin S => S \ {k} = S) /\ (k \in S => S \cup {k} = S)
        OBVIOUS
    <1>5. k \in S => Cardinality(S) > 0
        BY <1>1, <1>3
    <1> QED BY <1>1, <1>2, <1>3, <1>4, <1>5

\* One entry that was not handled is set: what the numbers of handled and of pending
\* entries become.
LEMMA OneEntry ==
    ASSUME NEW c \in Clients, NEW k \in Keys, ~IndexHandled(c, k), Indexed(c, k)',
           \A j \in Keys \ {k} : inner'[c].requests[j] = inner[c].requests[j]
    PROVE  /\ Cardinality(HandledIn(c)') =
                  IF IndexHandled(c, k)' THEN Cardinality(HandledIn(c)) + 1 ELSE Cardinality(HandledIn(c))
           /\ Cardinality(PendingIn(c)') =
                  IF IndexHandled(c, k)'
                  THEN IF Indexed(c, k) THEN Cardinality(PendingIn(c)) - 1 ELSE Cardinality(PendingIn(c))
                  ELSE IF Indexed(c, k) THEN Cardinality(PendingIn(c)) ELSE Cardinality(PendingIn(c)) + 1
           /\ Indexed(c, k) => Cardinality(PendingIn(c)) > 0
    <1>1. \A j \in Keys \ {k} : /\ Indexed(c, j)' <=> Indexed(c, j)
                                /\ IndexHandled(c, j)' <=> IndexHandled(c, j)
        BY DEF Indexed, IndexHandled
    <1>2. HandledIn(c)' = IF IndexHandled(c, k)' THEN HandledIn(c) \cup {k} ELSE HandledIn(c)
        BY <1>1 DEF HandledIn
    <1>3. PendingIn(c)' = IF IndexHandled(c, k)' THEN PendingIn(c) \ {k} ELSE PendingIn(c) \cup {k}
        BY <1>1 DEF PendingIn
    <1>4. k \notin HandledIn(c) /\ (k \in PendingIn(c) <=> Indexed(c, k))
        BY DEF HandledIn, PendingIn
    <1>5. HandledIn(c) \in SUBSET Keys /\ PendingIn(c) \in SUBSET Keys
        BY DEF HandledIn, PendingIn
    <1>6. Cardinality(HandledIn(c) \cup {k}) = Cardinality(HandledIn(c)) + 1
        BY <1>4, <1>5, OneMoreOrLess
    <1>7. CASE Indexed(c, k)
        <2>1. /\ Cardinality(PendingIn(c) \ {k}) = Cardinality(PendingIn(c)) - 1
              /\ Cardinality(PendingIn(c)) > 0 /\ PendingIn(c) \cup {k} = PendingIn(c)
            BY <1>4, <1>5, <1>7, OneMoreOrLess
        <2> QED BY <1>2, <1>3, <1>6, <1>7, <2>1
    <1>8. CASE ~Indexed(c, k)
        <2>1. /\ Cardinality(PendingIn(c) \cup {k}) = Cardinality(PendingIn(c)) + 1
              /\ PendingIn(c) \ {k} = PendingIn(c)
            BY <1>4, <1>5, <1>8, OneMoreOrLess
        <2> QED BY <1>2, <1>3, <1>6, <1>8, <2>1
    <1> QED BY <1>7, <1>8

LEMMA InAgreement ==
    ASSUME NEW c \in Clients, \A k \in Keys : AgreesOn(c, k)
    PROVE  HandledIn(c) = {k \in Keys : Handled(k)} /\ PendingIn(c) = {k \in Keys : Pending(k)}
    BY DEF AgreesOn, HandledIn, PendingIn, Handled, Pending

\* No entry at all.
LEMMA CountedNone ==
    ASSUME NEW c \in Clients, \A k \in Keys : inner'[c].requests[k] = Absent,
           inner'[c].metadata.handled = 0, inner'[c].metadata.pending = 0
    PROVE  Counted(c)'
    <1>1. HandledIn(c)' = {} /\ PendingIn(c)' = {}
        BY DEF HandledIn, PendingIn, IndexHandled, Indexed
    <1> QED BY <1>1, FS_EmptySet DEF Counted

LEMMA OnDisk ==
    ASSUME TypeOK, NEW c \in Clients, CountSound(c), op[c].kind \notin {"closed", "create"},
           disk' = disk \/ WriteMetadata(c)
    PROVE  disk' # Absent
    BY ClientType, AbsentAssumption DEF CountSound, WriteMetadata

\* Steps of an open client that move no request from pending to handled.
LEMMA CountPlain ==
    ASSUME TypeOK, NEW c \in Clients, CountSound(c), SoleInv, SoleInv', disk' = disk \/ WriteMetadata(c),
           op[c].kind \notin Unindexed \cup {"rebuild", "rewrite"},
           op'[c].kind \notin Unindexed \cup {"rebuild", "rewrite"}, AddSound(c)',
           UNCHANGED files,
           inner'[c].metadata.handled = inner[c].metadata.handled,
           inner'[c].metadata.pending = inner[c].metadata.pending,
           inner'[c].metadata.total = inner[c].metadata.total
    PROVE  CountSound(c)'
    <1>1. \A k \in Keys : AgreesOn(c, k)
        BY SoleClient, AgreesAll
    <1>2. \A k \in Keys : AgreesOn(c, k)'
        BY DEF SoleInv, IndexSound, Unread
    <1>3. HandledIn(c)' = {k \in Keys : Handled(k)'} /\ PendingIn(c)' = {k \in Keys : Pending(k)'}
        BY <1>2 DEF AgreesOn, HandledIn, PendingIn, Handled, Pending
    <1>4. HandledIn(c)' = HandledIn(c) /\ PendingIn(c)' = PendingIn(c)
        BY <1>1, <1>3, InAgreement DEF Handled, Pending, Exists
    <1>5. Counted(c)'
        BY <1>4 DEF CountSound, Counted
    <1>6. disk' # Absent /\ op'[c].kind # "create"
        BY OnDisk DEF Unindexed
    <1> QED BY <1>5, <1>6 DEF CountSound

\* A step that writes the file of a request that was not handled, and its entry.
LEMMA CountWritten ==
    ASSUME TypeOK, NEW c \in Clients, CountSound(c), SoleInv, SoleInv', UNCHANGED disk,
           op[c].kind \notin Unindexed \cup {"rebuild", "rewrite"},
           op'[c].kind \notin Unindexed \cup {"rebuild", "rewrite"}, AddSound(c)',
           NEW k \in Keys, ~Handled(k), Synced(c, k),
           inner'[c].metadata.handled =
               IF files'[k].handledAt THEN inner[c].metadata.handled + 1 ELSE inner[c].metadata.handled,
           inner'[c].metadata.pending =
               IF files'[k].handledAt
               THEN IF Indexed(c, k) THEN inner[c].metadata.pending - 1 ELSE inner[c].metadata.pending
               ELSE IF Indexed(c, k) THEN inner[c].metadata.pending ELSE inner[c].metadata.pending + 1,
           inner'[c].metadata.total =
               IF Indexed(c, k) THEN inner[c].metadata.total ELSE inner[c].metadata.total + 1
    PROVE  CountSound(c)'
    <1>1. ~IndexHandled(c, k)
        BY SoleClient, AgreesAll DEF AgreesOn
    <1>2. AgreesOn(c, k)'
        BY DEF SoleInv, IndexSound, Unread
    <1>3. IndexHandled(c, k)' <=> files'[k].handledAt
        BY <1>2 DEF AgreesOn, Handled, Synced
    <1>4. Counted(c) /\ inner[c].metadata.total = inner[c].metadata.handled + inner[c].metadata.pending
        BY DEF CountSound
    <1>5. Counted(c)'
        BY <1>1, <1>3, <1>4, OneEntry DEF Counted, Synced
    <1>6. inner'[c].metadata.total = inner'[c].metadata.handled + inner'[c].metadata.pending
        BY <1>3, <1>4, ClientType
    <1>7. disk' # Absent /\ op'[c].kind # "create"
        BY OnDisk DEF Unindexed
    <1> QED BY <1>5, <1>6, <1>7 DEF CountSound

\* Steps before or after the index is there, and steps of rebuild_index.
LEMMA CountOpening ==
    ASSUME TypeOK, NEW c \in Clients, CountSound(c), op[c].kind \notin {"closed", "create"},
           disk' = disk \/ WriteMetadata(c),
           op'[c].kind \in Unindexed \cup {"rebuild", "rewrite"}, op'[c].kind # "create",
           op'[c].kind \notin Unindexed => Counted(c)'
    PROVE  CountSound(c)'
    <1>1. AddSound(c)'
        BY DEF AddSound, Unindexed
    <1> QED BY <1>1, OnDisk DEF CountSound

LEMMA CountStart ==
    ASSUME TypeOK, SoleInv, SoleInv', SoleUse, CountedAdds, NEW c \in Clients, CountSound(c), Start(c)
    PROVE  CountSound(c)'
    <1>1. CASE Open(c)
        <2>1. PICK sole \in AccessModes :
                  Go(c, [kind |-> IF disk = Absent THEN "create" ELSE "list", sole |-> sole])
            BY <1>1 DEF Open
        <2>2. op'[c].kind = IF disk = Absent THEN "create" ELSE "list"
            BY <2>1 DEF Go, TypeOK
        <2>3. disk = Absent => inner'[c].metadata = NewMetadata
            BY <1>1 DEF Open, Become, TypeOK, InnerWith
        <2>4. UNCHANGED <<files, disk>>
            BY <1>1 DEF Open
        <2>5. AddSound(c)'
            BY <2>2 DEF AddSound
        <2> QED BY <2>2, <2>3, <2>4, <2>5 DEF CountSound, Exists, Unindexed
    <1>2. CASE Purge(c)
        <2>1. op[c].kind = "idle" /\ op'[c].kind = "purge" /\ UNCHANGED disk
            BY <1>2, SoleTurn DEF Purge, Go, TypeOK
        <2> QED BY <2>1, CountOpening DEF Unindexed
    <1>3. CASE DropDirectory(c)
        BY <1>3 DEF DropDirectory, SoleUse
    <1>4. CASE AddBatch(c)
        <2>1. PICK call \in Adds : Go(c, [kind |-> "add", batch |-> call.batch, forefront |-> call.forefront])
            BY <1>4 DEF AddBatch
        <2>2. op'[c] = [kind |-> "add", batch |-> call.batch, forefront |-> call.forefront]
            BY <2>1 DEF Go, TypeOK
        <2>3. AddSound(c)'
            BY <2>2 DEF AddSound, Addable, CountedAdds
        <2> QED BY <1>4, <2>2, <2>3, SoleTurn, CountPlain DEF AddBatch, Unindexed
    <1>5. CASE Raise(c) \/ \E k \in Keys : GiveUp(c, k) \/ ProlongRefused(c, k)
        <2>1. op[c] = Idle /\ op'[c].kind = "idle" /\ UNCHANGED <<files, disk>>
            BY <1>5, SoleTurn DEF Raise, GiveUp, ProlongRefused
        <2>2. inner'[c].metadata = inner[c].metadata
            <3>1. CASE Raise(c)
                BY <3>1, ClientType DEF Raise, Become, TypeOK, InnerStates
            <3>2. ASSUME NEW k \in Keys, GiveUp(c, k) PROVE inner'[c].metadata = inner[c].metadata
                BY <3>2, ClientType DEF GiveUp, Become, TypeOK, InnerStates
            <3>3. ASSUME NEW k \in Keys, ProlongRefused(c, k) PROVE inner'[c].metadata = inner[c].metadata
                <4>1. \/ inner'[c] = [inner[c] EXCEPT !.held[k] = None,
                                                      !.requests = Resync(c, k, files[k].order)]
                      \/ inner'[c] = [inner[c] EXCEPT !.held[k] = None, !.requests[k] = Absent]
                    BY <3>3 DEF ProlongRefused, Become, TypeOK
                <4> QED BY <4>1, ClientType DEF InnerStates
            <3> QED BY <1>5, <3>1, <3>2, <3>3
        <2>3. AddSound(c)'
            BY <2>1 DEF AddSound
        <2> QED BY <2>1, <2>2, <2>3, CountPlain DEF Idle, Unindexed
    <1>6. CASE Fetch(c) \/ Touch(c) \/ \E k \in Keys : Mark(c, k) \/ Reclaim(c, k) \/ Prolong(c, k)
        <2>1. op[c].kind = "idle" /\ UNCHANGED <<files, disk, inner>>
            BY <1>6, SoleTurn DEF Fetch, Touch, Mark, Reclaim, Prolong
        <2>2. op'[c].kind \in {"fetch", "persist", "mark", "reclaim", "prolong"}
            BY <1>6 DEF Fetch, Touch, Mark, Reclaim, Prolong, Go, TypeOK
        <2>3. AddSound(c)'
            BY <2>2 DEF AddSound
        <2> QED BY <2>1, <2>2, <2>3, CountPlain DEF Unindexed
    <1> QED BY <1>1, <1>2, <1>3, <1>4, <1>5, <1>6 DEF Start

LEMMA CountBuilding ==
    ASSUME TypeOK, CoherentInv, SoleInv, SoleInv', SoleUse, NEW c \in Clients, CountSound(c),
           Opening(c) \/ RewriteFails(c)
    PROVE  CountSound(c)'
    <1>1. CASE Create(c)
        <2>1. op'[c].kind = "list" /\ WriteMetadata(c)
            BY <1>1 DEF Create, Go, TypeOK
        <2>2. disk' # Absent
            BY <2>1, ClientType, AbsentAssumption DEF WriteMetadata
        <2>3. AddSound(c)'
            BY <2>1 DEF AddSound
        <2> QED BY <2>1, <2>2, <2>3 DEF CountSound, Unindexed
    <1>2. CASE List(c)
        <2>1. op[c].kind = "list" /\ op'[c].kind = "clear" /\ UNCHANGED disk
            BY <1>2 DEF List, Go, TypeOK
        <2> QED BY <2>1, CountOpening DEF Unindexed
    <1>3. CASE Clear(c)
        <2>1. op[c].kind = "clear" /\ op'[c].kind = "rebuild" /\ UNCHANGED disk
            BY <1>3 DEF Clear, Go, TypeOK
        <2>2. inner'[c] = InnerWith([NewMetadata EXCEPT !.forefront = inner[c].metadata.forefront])
            BY <1>3 DEF Clear, Become, TypeOK
        <2>3. Counted(c)'
            BY <2>2, CountedNone DEF InnerWith, NewMetadata
        <2> QED BY <2>1, <2>3, CountOpening DEF Unindexed
    <1>4. ASSUME NEW k \in Keys, NEW order \in Orders, op[c].kind \in {"rebuild", "rewrite"}, k \in Unread(c),
                 op'[c].kind = "rebuild", UNCHANGED disk, Restore(c, k, order)
          PROVE  CountSound(c)'
        <2>1. ~Indexed(c, k) /\ ~IndexHandled(c, k)
            BY <1>4, SoleClient DEF IndexSound, Unindexed, IndexHandled
        <2>2. /\ \A j \in Keys : inner'[c].requests[j] =
                     IF j = k THEN [order |-> order, seq |-> inner[c].counter] ELSE inner[c].requests[j]
              /\ Indexed(c, k)'
              /\ inner'[c].metadata = CountRestored(inner[c].metadata, order)
            BY <1>4, RestoreEntry
        <2>3. inner'[c].requests[k].order = order
            BY <2>2
        <2>4. IndexHandled(c, k)' <=> order = None
            BY <2>2, <2>3 DEF IndexHandled
        <2>5. /\ inner'[c].metadata.handled =
                     IF order = None THEN inner[c].metadata.handled + 1 ELSE inner[c].metadata.handled
              /\ inner'[c].metadata.pending =
                     IF order = None THEN inner[c].metadata.pending ELSE inner[c].metadata.pending + 1
            BY <2>2, ClientType DEF CountRestored, Metadata
        <2>6. \A j \in Keys \ {k} : inner'[c].requests[j] = inner[c].requests[j]
            BY <2>2
        <2>7. Counted(c)
            BY <1>4 DEF CountSound, Unindexed
        <2>8. Counted(c)'
            BY <2>1, <2>2, <2>4, <2>5, <2>6, <2>7, OneEntry DEF Counted
        <2> QED BY <1>4, <2>8, CountOpening DEF Unindexed
    <1>5. ASSUME NEW k \in Keys, Rebuild(c, k) PROVE CountSound(c)'
        <2> DEFINE order == RestoredOrder(files[k], op[c].at)
        <2>1. op[c] \in [kind : {"rebuild"}, sole : BOOLEAN, todo : SUBSET Keys, at : Nat]
            BY <1>5, ClientType DEF Rebuild, RebuildNext, Calls
        <2>2. k \in Unread(c) /\ UNCHANGED disk
            BY <1>5 DEF Rebuild, RebuildNext, Unread
        <2>3. CASE MustReclaim(op[c].sole, order, op[c].at)
            <3>1. op'[c].kind = "rewrite" /\ UNCHANGED inner
                BY <1>5, <2>3 DEF Rebuild, Go, TypeOK
            <3>2. Counted(c)'
                BY <2>1, <3>1 DEF CountSound, Unindexed, Counted, HandledIn, PendingIn, IndexHandled, Indexed
            <3> QED BY <2>1, <2>2, <3>1, <3>2, CountOpening DEF Unindexed
        <2>4. CASE ~MustReclaim(op[c].sole, order, op[c].at)
            <3>1. Restore(c, k, order) /\ op'[c] = [op[c] EXCEPT !.todo = op[c].todo \ {k}]
                BY <1>5, <2>4 DEF Rebuild, Go, TypeOK
            <3>2. op'[c].kind = "rebuild"
                BY <2>1, <3>1
            <3>3. order \in Orders
                <4>1. files[k] \in Files
                    BY <1>5 DEF Rebuild, Exists, TypeOK
                <4> QED BY <2>1, <4>1, RestoredOrderType
            <3> HIDE DEF order
            <3> QED BY <1>4, <2>1, <2>2, <3>1, <3>2, <3>3
        <2> QED BY <2>3, <2>4
    <1>6. CASE Rewrite(c) \/ RewriteFails(c)
        <2>1. op[c].kind = "rewrite" /\ UNCHANGED disk /\ Restore(c, op[c].key, op[c].order) /\ Go(c, AfterRewrite(c))
            BY <1>6 DEF Rewrite, RewriteFails
        <2>2. op[c].key \in Keys /\ op[c].order \in Int
            BY <2>1, AfterRewriteType
        <2>3. op'[c].kind = "rebuild"
            BY <2>1 DEF Go, AfterRewrite, TypeOK
        <2>4. op[c].key \in Unread(c) /\ op[c].order \in Orders
            BY <2>1, <2>2 DEF Unread, Orders
        <2> QED BY <1>4, <2>1, <2>2, <2>3, <2>4
    <1>7. ASSUME NEW k \in Keys, RebuildSkip(c, k) PROVE CountSound(c)'
        <2>1. op[c].kind = "rebuild" /\ k \in Unread(c) /\ ~Exists(k)
            BY <1>7 DEF RebuildSkip, RebuildNext, Unread
        <2> QED BY <2>1, SoleClient DEF IndexSound, Unindexed
    <1>8. CASE RebuildDone(c)
        <2>1. op[c].kind = "rebuild" /\ op'[c].kind = "ready" /\ UNCHANGED disk
            BY <1>8 DEF RebuildDone, Go, TypeOK
        <2>2. inner'[c] = [inner[c] EXCEPT
                  !.metadata = Pruned(inner[c].metadata, {k \in Keys : Indexed(c, k) /\ ~IndexHandled(c, k)})]
            BY <1>8 DEF RebuildDone, Become, TypeOK
        <2>3. /\ inner'[c].requests = inner[c].requests
              /\ inner'[c].metadata.handled = inner[c].metadata.handled
              /\ inner'[c].metadata.pending = inner[c].metadata.pending
              /\ inner'[c].metadata.total = inner[c].metadata.handled + inner[c].metadata.pending
            BY <2>2, ClientType DEF InnerStates, Pruned, Metadata
        <2>4. Counted(c)'
            BY <2>1, <2>3 DEF CountSound, Unindexed, Counted, HandledIn, PendingIn, IndexHandled, Indexed
        <2>5. AddSound(c)' /\ disk' # Absent
            BY <2>1, OnDisk DEF AddSound
        <2> QED BY <2>1, <2>3, <2>4, <2>5 DEF CountSound
    <1>9. CASE Ready(c)
        <2>1. op[c].kind = "ready" /\ op'[c].kind = "idle" /\ UNCHANGED <<files, inner>> /\ WriteMetadata(c)
            BY <1>9 DEF Ready, Go, TypeOK, Idle
        <2>2. AddSound(c)'
            BY <2>1 DEF AddSound
        <2> QED BY <2>1, <2>2, CountPlain DEF Unindexed
    <1> QED BY <1>1, <1>2, <1>3, <1>5, <1>6, <1>7, <1>8, <1>9 DEF Opening

LEMMA CountAdding ==
    ASSUME TypeOK, CoherentInv, SoleInv, SoleInv', SoleUse, NEW c \in Clients, CountSound(c),
           AddMalformed(c) \/ AddSkip(c) \/ AddItem(c) \/ AddDone(c)
    PROVE  CountSound(c)'
    <1>1. op[c].kind = "add" /\ UNCHANGED <<files, disk>>
        BY DEF AddMalformed, AddSkip, AddItem, AddDone
    <1>2. op[c] \in [kind : {"add"}, batch : Seq(Items), forefront : BOOLEAN] /\ Addable(op[c])
        BY <1>1, ClientType DEF Calls, CountSound, AddSound
    <1>3. CASE AddMalformed(c) \/ AddDone(c)
        <2>1. op'[c].kind \in {"idle", "persist"} /\ UNCHANGED inner
            BY <1>3 DEF AddMalformed, AddDone, Go, TypeOK, Idle
        <2>2. AddSound(c)'
            BY <2>1 DEF AddSound
        <2> QED BY <1>1, <2>1, <2>2, CountPlain DEF Unindexed
    <1>4. ASSUME op[c].batch # << >>
          PROVE  /\ Len(Tail(op[c].batch)) = Len(op[c].batch) - 1 /\ Len(op[c].batch) \in Nat \ {0}
                 /\ \A i \in 1..Len(Tail(op[c].batch)) : Tail(op[c].batch)[i] = op[c].batch[i + 1]
                 /\ Head(op[c].batch) = op[c].batch[1]
        BY <1>2, <1>4
    <1>5. ASSUME op[c].batch # << >>, op[c].forefront
          PROVE  /\ \A i \in 1..Len(Tail(op[c].batch)) : ~Tail(op[c].batch)[i].handledAt
                 /\ ~Head(op[c].batch).handledAt
        BY <1>2, <1>4, <1>5 DEF Addable
    <1>6. CASE AddSkip(c)
        <2>1. op[c].batch # << >> /\ op'[c] = [op[c] EXCEPT !.batch = Tail(@)] /\ UNCHANGED inner
            BY <1>6 DEF AddSkip, Go, TypeOK
        <2>2. op'[c].kind = "add" /\ op'[c].batch = Tail(op[c].batch) /\ op'[c].forefront = op[c].forefront
            BY <1>2, <2>1
        <2>3. AddSound(c)'
            BY <1>5, <2>1, <2>2 DEF AddSound, Addable
        <2> QED BY <1>1, <2>1, <2>2, <2>3, CountPlain DEF Unindexed
    <1>7. CASE AddItem(c)
        <2> DEFINE item == Head(op[c].batch)
        <2>1. op[c].batch # << >> /\ ~AlreadyThere(c, item.key, op[c].forefront)
            BY <1>7 DEF AddItem
        <2>2. op'[c] = [kind |-> "addWrite", key |-> item.key, handledAt |-> item.handledAt,
                        order |-> AddedOrder(item, op[c].forefront, now), seq |-> inner[c].counter,
                        batch |-> Tail(op[c].batch), forefront |-> op[c].forefront]
            BY <1>7 DEF AddItem, Go, TypeOK
        <2>3. /\ inner'[c].requests = inner[c].requests
              /\ inner'[c].metadata = inner[c].metadata
            BY <1>7, ClientType DEF AddItem, Become, TypeOK, InnerStates
        <2>4. AddSound(c)'
            BY <1>5, <2>1, <2>2, <2>3 DEF AddSound, Addable, AlreadyThere, Indexed
        <2> QED BY <1>1, <2>2, <2>3, <2>4, CountPlain DEF Unindexed
    <1> QED BY <1>3, <1>6, <1>7

LEMMA CountWriting ==
    ASSUME TypeOK, TypeOK', CoherentInv, CoherentInv', SoleInv, SoleInv', SoleUse, NEW c \in Clients, CountSound(c),
           AddWrite(c) \/ FetchLock(c) \/ MarkWrite(c) \/ ReclaimWrite(c) \/ ProlongWrite(c)
    PROVE  CountSound(c)'
    <1>1. PICK k \in Keys : op[c].key = k /\ ~Handled(k) /\ Synced(c, k)
        BY SoleWrite
    <1>2. op[c].kind \in {"addWrite", "lock", "mark", "reclaim", "prolong"} /\ UNCHANGED disk
        BY DEF AddWrite, FetchLock, MarkWrite, ReclaimWrite, ProlongWrite
    <1>3. op[c].kind # "addWrite" => Indexed(c, k) /\ ~IndexHandled(c, k)
        BY <1>1, <1>2, SoleClient, AgreesAll DEF CallSound, AgreesOn, Unindexed, Pending
    <1>4. Counted(c)
        BY <1>2 DEF CountSound, Unindexed
    <1>5. CASE AddWrite(c)
        <2>1. op[c] \in [kind : {"addWrite"}, key : Keys, handledAt : BOOLEAN, order : Orders, seq : Nat,
                         batch : Seq(Items), forefront : BOOLEAN]
            BY <1>5, ClientType DEF AddWrite, Calls
        <2>2. /\ Addable(op[c])
              /\ IF op[c].forefront THEN ~op[c].handledAt ELSE ~Indexed(c, k)
            BY <1>1, <2>1 DEF CountSound, AddSound
        <2>3. /\ files'[k].handledAt = op[c].handledAt
              /\ inner'[c].metadata = CountAdded(MovedForward(c, k), Indexed(c, k), op[c].handledAt)
              /\ op'[c] = [kind |-> "add", batch |-> op[c].batch, forefront |-> op[c].forefront]
            BY <1>1, <1>5, AddWriteSyncs
        <2>4. /\ MovedForward(c, k) \in Metadata
              /\ MovedForward(c, k).handled = inner[c].metadata.handled
              /\ MovedForward(c, k).pending = inner[c].metadata.pending
              /\ MovedForward(c, k).total = inner[c].metadata.total
            <3>1. Push(inner[c].metadata.forefront, k) \in [Keys -> Nat]
                BY ClientType, PushType
            <3> QED BY <3>1, ClientType DEF MovedForward, Metadata
        <2>5. /\ inner'[c].metadata.handled =
                     IF ~Indexed(c, k) /\ op[c].handledAt THEN inner[c].metadata.handled + 1
                     ELSE inner[c].metadata.handled
              /\ inner'[c].metadata.pending =
                     IF ~Indexed(c, k) /\ ~op[c].handledAt THEN inner[c].metadata.pending + 1
                     ELSE inner[c].metadata.pending
              /\ inner'[c].metadata.total =
                     IF Indexed(c, k) THEN inner[c].metadata.total ELSE inner[c].metadata.total + 1
            BY <2>3, <2>4 DEF CountAdded, Metadata
        <2>6. AddSound(c)'
            BY <2>2, <2>3 DEF AddSound, Addable
        <2>7. op'[c].kind = "add"
            BY <2>3
        <2> QED BY <1>1, <1>2, <2>2, <2>3, <2>5, <2>6, <2>7, CountWritten DEF Unindexed
    <1>6. CASE FetchLock(c) \/ ProlongWrite(c) \/ ReclaimWrite(c)
        <2>1. Indexed(c, k)
            BY <1>3, <1>6 DEF FetchLock, ProlongWrite, ReclaimWrite
        <2>2. /\ ~files'[k].handledAt /\ op'[c].kind \in {"deliver", "persist"}
              /\ inner'[c].metadata.handled = inner[c].metadata.handled
              /\ inner'[c].metadata.pending = inner[c].metadata.pending
              /\ inner'[c].metadata.total = inner[c].metadata.total
            BY <1>1, <1>6, <2>1, LockSyncs, ReclaimSyncs
        <2>3. AddSound(c)'
            BY <2>2 DEF AddSound
        <2> QED BY <1>1, <1>2, <2>1, <2>2, <2>3, CountWritten DEF Unindexed
    <1>7. CASE MarkWrite(c)
        <2>1. Indexed(c, k) /\ ~IndexHandled(c, k)
            BY <1>3, <1>7 DEF MarkWrite
        <2>2. /\ files'[k].handledAt /\ op'[c].kind = "persist"
              /\ inner'[c].metadata = CountHandled(Unlisted(inner[c].metadata, k))
            BY <1>1, <1>7, MarkSyncs
        <2>3. inner[c].metadata.pending # 0
            <3>1. PendingIn(c) \in SUBSET Keys /\ k \in PendingIn(c)
                BY <2>1 DEF PendingIn
            <3>2. Cardinality(PendingIn(c)) > 0
                BY <3>1, OneMoreOrLess
            <3> QED BY <1>4, <3>2 DEF Counted
        <2>4. /\ Unlisted(inner[c].metadata, k) \in Metadata
              /\ Unlisted(inner[c].metadata, k).handled = inner[c].metadata.handled
              /\ Unlisted(inner[c].metadata, k).pending = inner[c].metadata.pending
              /\ Unlisted(inner[c].metadata, k).total = inner[c].metadata.total
            <3>1. Keep(inner[c].metadata.forefront, Keys \ {k}) \in [Keys -> Nat]
                BY ClientType, KeepType
            <3> QED BY <3>1, ClientType DEF Unlisted, Metadata
        <2>5. /\ inner'[c].metadata.handled = inner[c].metadata.handled + 1
              /\ inner'[c].metadata.pending = inner[c].metadata.pending - 1
              /\ inner'[c].metadata.total = inner[c].metadata.total
            BY <2>2, <2>3, <2>4 DEF CountHandled, Metadata
        <2>6. AddSound(c)'
            BY <2>2 DEF AddSound
        <2> QED BY <1>1, <1>2, <2>1, <2>2, <2>5, <2>6, CountWritten DEF Unindexed
    <1> QED BY <1>5, <1>6, <1>7

LEMMA CountContinue ==
    ASSUME TypeOK, TypeOK', CoherentInv, CoherentInv', SoleInv, SoleInv', SoleUse, NEW c \in Clients, CountSound(c),
           Continue(c)
    PROVE  CountSound(c)'
    <1>1. CASE FetchNothing(c) \/ Deliver(c) \/ Persist(c)
                   \/ \E k \in Keys : FetchVanished(c, k) \/ FetchSkip(c, k) \/ FetchFree(c, k)
        <2>1. op[c].kind \in {"fetch", "deliver", "persist"} /\ files' = files
            BY <1>1 DEF FetchNothing, Deliver, Persist, FetchVanished, FetchSkip, FetchFree, FetchNext
        <2>2. disk' = disk \/ WriteMetadata(c)
            BY <1>1 DEF FetchNothing, Deliver, Persist, FetchVanished, FetchSkip, FetchFree
        <2>3. op'[c].kind \in {"idle", "fetch", "lock"}
            <3>1. CASE FetchNothing(c) \/ Deliver(c) \/ Persist(c) \/ \E k \in Keys : FetchFree(c, k)
                BY <3>1 DEF FetchNothing, Deliver, Persist, FetchFree, Go, TypeOK, Idle
            <3>2. ASSUME NEW k \in Keys, FetchVanished(c, k) \/ FetchSkip(c, k) PROVE op'[c].kind = "fetch"
                <4>1. op[c] \in [kind : {"fetch"}, todo : SUBSET Keys, at : Nat]
                    BY <3>2, ClientType DEF FetchVanished, FetchSkip, FetchNext, Calls
                <4>2. op'[c] = [op[c] EXCEPT !.todo = @ \ {k}]
                    BY <3>2 DEF FetchVanished, FetchSkip, Go, TypeOK
                <4> QED BY <4>1, <4>2
            <3> QED BY <1>1, <3>1, <3>2
        <2>4. inner'[c].metadata = inner[c].metadata
            <3>1. CASE FetchNothing(c) \/ Persist(c) \/ \E k \in Keys : FetchFree(c, k)
                BY <3>1 DEF FetchNothing, Persist, FetchFree
            <3>2. CASE Deliver(c)
                BY <3>2, ClientType DEF Deliver, Become, TypeOK, InnerStates
            <3>3. ASSUME NEW k \in Keys, FetchVanished(c, k) \/ FetchSkip(c, k)
                  PROVE  inner'[c].metadata = inner[c].metadata
                BY <3>3, ClientType DEF FetchVanished, FetchSkip, Become, TypeOK, InnerStates
            <3> QED BY <1>1, <3>1, <3>2, <3>3
        <2>5. AddSound(c)'
            BY <2>3 DEF AddSound
        <2> QED BY <2>1, <2>2, <2>3, <2>4, <2>5, CountPlain DEF Unindexed
    <1>2. ASSUME NEW k \in Keys, PurgeFile(c, k) PROVE CountSound(c)'
        <2>1. op[c] \in [kind : {"purge"}, todo : SUBSET Keys]
            BY <1>2, ClientType DEF PurgeFile, Calls
        <2>2. op'[c] = [op[c] EXCEPT !.todo = @ \ {k}] /\ UNCHANGED disk
            BY <1>2 DEF PurgeFile, Go, TypeOK
        <2>3. op'[c].kind = "purge"
            BY <2>1, <2>2
        <2> QED BY <2>1, <2>2, <2>3, CountOpening DEF Unindexed
    <1>3. ASSUME NEW k \in Keys, PurgeFails(c, k) PROVE CountSound(c)'
        BY <1>3, SoleClient DEF PurgeFails, CallSound
    <1>4. CASE PurgeDone(c)
        <2>1. op[c].kind = "purge" /\ op'[c].kind = "persist" /\ UNCHANGED disk
            BY <1>4 DEF PurgeDone, Go, TypeOK
        <2>2. inner'[c] = Purged(inner[c])
            BY <1>4 DEF PurgeDone, Become, TypeOK
        <2>3. /\ inner'[c].requests = [k \in Keys |-> Absent] /\ inner'[c].metadata = NewMetadata
            BY <2>2 DEF Purged, InnerWith
        <2>4. /\ inner'[c].metadata.handled = 0 /\ inner'[c].metadata.pending = 0 /\ inner'[c].metadata.total = 0
            BY <2>3 DEF NewMetadata
        <2>5. Counted(c)'
            BY <2>3, <2>4, CountedNone
        <2>6. AddSound(c)' /\ disk' # Absent
            BY <2>1, OnDisk DEF AddSound
        <2> QED BY <2>1, <2>4, <2>5, <2>6 DEF CountSound
    <1>5. CASE DropClear(c)
        BY <1>5, SoleClient DEF DropClear
    <1> QED BY <1>1, <1>2, <1>3, <1>4, <1>5, CountBuilding, CountAdding, CountWriting DEF Continue

LEMMA CountFail ==
    ASSUME TypeOK, CoherentInv, SoleInv, SoleInv', SoleUse, NEW c \in Clients, CountSound(c), Fail(c)
    PROVE  CountSound(c)'
    <1>1. CASE Crash(c) \/ OpenFails(c)
        <2>1. op'[c].kind = "closed" /\ UNCHANGED <<files, disk>>
            BY <1>1 DEF Crash, OpenFails, Stop, Go, TypeOK, Closed
        <2>2. AddSound(c)'
            BY <2>1 DEF AddSound
        <2> QED BY <2>1, <2>2 DEF CountSound, Exists, Unindexed
    <1>2. CASE WriteFails(c)
        <2>1. /\ op[c].kind \in {"addWrite", "lock", "deliver", "mark", "reclaim", "prolong", "persist"}
              /\ op'[c].kind = "idle" /\ UNCHANGED <<files, disk, inner>>
            BY <1>2 DEF WriteFails, Go, TypeOK, Idle
        <2>2. AddSound(c)'
            BY <2>1 DEF AddSound
        <2> QED BY <2>1, <2>2, CountPlain DEF Unindexed
    <1>3. CASE RemoveFails(c) \/ \E k \in Keys : FetchReadFails(c, k) \/ RebuildReadFails(c, k)
        BY <1>3 DEF RemoveFails, FetchReadFails, RebuildReadFails, MayFault, SoleUse
    <1> QED BY <1>1, <1>2, <1>3, CountBuilding DEF Fail

-------------------------------------------------------------------------------
(* The theorems *)

LEMMA CoherentKept ==
    ASSUME LegacyKeys = {}, ReclaimStamped \subseteq {FALSE}
    PROVE  Spec => []CoherentInv
    <1>1. Init => CoherentInv
        BY DEF Init, CoherentInv, FilesCoherent, Exists, Writes, Closed
    <1>2. TypeOK /\ CoherentInv /\ [Next]_vars => CoherentInv'
        <2> SUFFICES ASSUME TypeOK, CoherentInv, [Next]_vars PROVE CoherentInv'
            OBVIOUS
        <2>1. CASE Tick \/ UNCHANGED vars
            BY <2>1, CoherentStutter DEF Tick, vars
        <2>2. ASSUME NEW c \in Clients, Start(c) \/ Continue(c) \/ Fail(c) PROVE CoherentInv'
            BY <2>2, CoherentStart, CoherentContinue, CoherentFail
        <2> QED BY <2>1, <2>2 DEF Next
    <1> QED BY <1>1, <1>2, TypeCorrect, PTL DEF Spec

LEMMA SoleUnchanged ==
    ASSUME SoleInv, UNCHANGED vars
    PROVE  SoleInv'
    <1>1. UNCHANGED <<now, files, op, inner, dropping>>
        BY DEF vars
    <1>2. ASSUME NEW c \in Clients PROVE IndexSound(c)'
        <2>1. Unread(c)' = Unread(c)
            BY <1>1 DEF Unread
        <2>2. \A k \in Keys : AgreesOn(c, k) => AgreesOn(c, k)'
            BY <1>1 DEF AgreesOn, Indexed, IndexHandled, Exists, Handled, Pending
        <2> QED BY <1>1, <2>1, <2>2, SoleClient DEF IndexSound, Indexed, Exists
    <1>3. ASSUME NEW c \in Clients PROVE CallSound(c)'
        BY <1>1, SoleClient DEF CallSound, Unlocked, Indexed, IndexHandled, Exists, Handled, Pending
    <1> QED BY <1>1, <1>2, <1>3 DEF SoleInv

LEMMA SoleKept ==
    ASSUME SoleUse
    PROVE  Spec => []SoleInv
    <1>1. Init => SoleInv
        <2> SUFFICES ASSUME Init PROVE SoleInv
            OBVIOUS
        <2>1. now >= 1 /\ dropping = {} /\ \A c \in Clients : op[c].kind = "closed"
            BY DEF Init, Closed
        <2>2. \A c \in Clients : IndexSound(c)
            BY <2>1 DEF IndexSound, Unindexed
        <2>3. \A c \in Clients : CallSound(c)
            BY <2>1 DEF CallSound
        <2> QED BY <2>1, <2>2, <2>3 DEF SoleInv
    <1>2. TypeOK /\ TypeOK' /\ CoherentInv /\ CoherentInv' /\ SoleInv /\ [Next]_vars => SoleInv'
        <2> SUFFICES ASSUME TypeOK, TypeOK', CoherentInv, CoherentInv', SoleInv, [Next]_vars PROVE SoleInv'
            OBVIOUS
        <2>1. CASE Tick \/ UNCHANGED vars
            BY <2>1, SoleTick, SoleUnchanged
        <2>2. ASSUME NEW c \in Clients, Start(c) \/ Continue(c) \/ Fail(c) PROVE SoleInv'
            BY <2>2, SoleStart, SoleContinue, SoleFail
        <2> QED BY <2>1, <2>2 DEF Next
    <1>3. Spec => []CoherentInv
        BY CoherentKept DEF SoleUse
    <1> QED BY <1>1, <1>2, <1>3, TypeCorrect, PTL DEF Spec

\* Between two calls the index knows exactly the files there are and which are handled, for
\* any number of requests and whatever crashed or could not be written before.
THEOREM IndexStaysInAgreement ==
    ASSUME SoleUse
    PROVE  Spec => []IndexAgreesWithFiles
    <1>1. SoleInv => IndexAgreesWithFiles
        <2> SUFFICES ASSUME SoleInv, NEW c \in Clients, Settled(c), NEW k \in Keys
                     PROVE  (Indexed(c, k) <=> Exists(k)) /\ (IndexHandled(c, k) <=> Handled(k))
            BY DEF IndexAgreesWithFiles
        <2> QED BY SoleClient, AgreesAll DEF Settled, Idle, Unindexed, AgreesOn
    <1> QED BY <1>1, SoleKept, PTL

\* A request that could be handed out is a candidate of the next fetch, and after opening as
\* the sole owner every pending one is.
THEOREM NothingFetchableIsMissed ==
    ASSUME SoleUse
    PROVE  Spec => []FetchableIsCandidate
    <1>1. SoleInv => FetchableIsCandidate
        <2> SUFFICES ASSUME SoleInv, NEW c \in Clients
                     PROVE  /\ Settled(c) => \A k \in Keys : Fetchable(k) => k \in Candidates(c, now)
                            /\ SoleOwnerTakesAll(c)
            BY DEF FetchableIsCandidate
        <2>1. ASSUME Settled(c), NEW k \in Keys, Fetchable(k) PROVE k \in Candidates(c, now)
            BY <2>1, SoleClient, AgreesAll
            DEF Settled, Idle, Unindexed, AgreesOn, Fetchable, Pending, Handled, IndexHandled, Candidates
        <2>2. SoleOwnerTakesAll(c)
            BY SoleClient, AgreesAll
            DEF SoleOwnerTakesAll, Unindexed, AgreesOn, CallSound, Unlocked, Pending, Handled, IndexHandled, Candidates
        <2> QED BY <2>1, <2>2
    <1> QED BY <1>1, SoleKept, PTL

\* A handled request is never overwritten by a pending one.
THEOREM HandledStaysHandled ==
    ASSUME SoleUse
    PROVE  Spec => HandledIsFinal
    <1>1. TypeOK /\ TypeOK' /\ CoherentInv /\ CoherentInv' /\ SoleInv /\ [Next]_vars =>
              [\A k \in Keys : Handled(k) => Handled(k)' \/ ~Exists(k)']_vars
        <2> SUFFICES ASSUME TypeOK, TypeOK', CoherentInv, CoherentInv', SoleInv, Next,
                            NEW k \in Keys, Handled(k), Exists(k)'
                     PROVE  Handled(k)'
            OBVIOUS
        <2>1. CASE files' = files
            BY <2>1 DEF Handled, Exists
        <2>2. ASSUME NEW c \in Clients,
                     AddWrite(c) \/ FetchLock(c) \/ MarkWrite(c) \/ ReclaimWrite(c) \/ ProlongWrite(c)
              PROVE  Handled(k)'
            <3>1. op[c].key \in Keys /\ ~Handled(op[c].key) /\ Synced(c, op[c].key)
                BY <2>2, SoleWrite
            <3>2. files'[k] = files[k]
                BY <3>1 DEF Synced
            <3> QED BY <3>2 DEF Handled, Exists
        <2>3. ASSUME NEW c \in Clients, Rewrite(c) PROVE Handled(k)'
            <3>1. op[c].key \in Keys /\ Pending(op[c].key)
                BY <2>3, AfterRewriteType, SoleClient DEF Rewrite, CallSound
            <3>2. files'[k] = files[k]
                BY <2>3, <3>1 DEF Rewrite, WriteRequest, TypeOK, Pending, Handled
            <3> QED BY <3>2 DEF Handled, Exists
        <2>4. ASSUME NEW c \in Clients, NEW j \in Keys, PurgeFile(c, j) PROVE Handled(k)'
            <3>1. files'[k] = files[k]
                BY <2>4 DEF PurgeFile, WriteRequest, TypeOK, Exists
            <3> QED BY <3>1 DEF Handled, Exists
        <2>5. ASSUME NEW c \in Clients, DropDirectory(c) PROVE Handled(k)'
            BY <2>5 DEF DropDirectory, SoleUse
        <2>6. ASSUME NEW c \in Clients, Start(c), ~DropDirectory(c) PROVE files' = files
            BY <2>6 DEF Start, Open, AddBatch, Fetch, Touch, Raise, Purge, GiveUp, Mark, Reclaim, ProlongRefused, Prolong
        <2>7. ASSUME NEW c \in Clients, Continue(c)
              PROVE  \/ files' = files
                     \/ AddWrite(c) \/ FetchLock(c) \/ MarkWrite(c) \/ ReclaimWrite(c) \/ ProlongWrite(c)
                     \/ Rewrite(c) \/ \E j \in Keys : PurgeFile(c, j)
            BY <2>7 DEF Continue, Opening, Create, List, Clear, RebuildDone, Ready, Rebuild, RebuildSkip, AddMalformed,
                        AddSkip, AddItem, AddDone, FetchNothing, Deliver, Persist, PurgeDone, DropClear,
                        FetchVanished, FetchSkip, FetchFree, PurgeFails
        <2>8. ASSUME NEW c \in Clients, Fail(c) PROVE files' = files
            BY <2>8 DEF Fail, Crash, OpenFails, RewriteFails, WriteFails, RemoveFails, FetchReadFails, RebuildReadFails
        <2>9. Tick => files' = files
            BY DEF Tick
        <2> QED BY <2>1, <2>2, <2>3, <2>4, <2>5, <2>6, <2>7, <2>8, <2>9 DEF Next
    <1>2. Spec => []CoherentInv
        BY CoherentKept DEF SoleUse
    <1> QED BY <1>1, <1>2, SoleKept, TypeCorrect, PTL DEF HandledIsFinal, Spec

\* The step with which a fetch settles on a request.
LEMMA LockBegins ==
    ASSUME TypeOK, SoleUse, Next, NEW c \in Clients, op[c].kind = "fetch", op'[c].kind = "lock"
    PROVE  \E k \in Keys : FetchFree(c, k)
    <1>1. PICK d \in Clients : Start(d) \/ Continue(d) \/ Fail(d)
        BY DEF Next, Tick
    <1>2. d = c
        BY <1>1 DEF SoleUse
    <1>3. CASE Start(c)
        <2>1. ~MayStart(c) /\ op[c] # Closed /\ "drop" \notin Ops
            BY DEF MayStart, Idle, Closed, SoleUse
        <2> QED BY <1>3, <2>1 DEF Start, Open, AddBatch, Fetch, Touch, Raise, Purge, DropDirectory, GiveUp,
                                  Mark, Reclaim, ProlongRefused, Prolong
    <1>4. CASE Fail(c)
        <2>1. CASE \E k \in Keys : FetchReadFails(c, k) \/ RebuildReadFails(c, k)
            BY <2>1 DEF FetchReadFails, RebuildReadFails, MayFault, SoleUse
        <2>2. CASE ~(\E k \in Keys : FetchReadFails(c, k) \/ RebuildReadFails(c, k))
            BY <1>4, <2>2 DEF Fail, Crash, OpenFails, RewriteFails, WriteFails, RemoveFails, Stop, Go, Closed, TypeOK
        <2> QED BY <2>1, <2>2
    <1>5. CASE Continue(c)
        <2>1. ASSUME Opening(c) \/ AddMalformed(c) \/ AddSkip(c) \/ AddItem(c) \/ AddWrite(c) \/ AddDone(c)
                     \/ FetchLock(c) \/ Deliver(c) \/ MarkWrite(c) \/ ReclaimWrite(c) \/ ProlongWrite(c)
                     \/ Persist(c) \/ PurgeDone(c) \/ DropClear(c)
                     \/ \E k \in Keys : PurgeFile(c, k) \/ PurgeFails(c, k)
              PROVE  FALSE
            BY <2>1 DEF Opening, Create, List, Clear, Rewrite, RebuildDone, Ready, Rebuild, RebuildSkip, RebuildNext,
                        AddMalformed, AddSkip, AddItem, AddWrite, AddDone, FetchLock, Deliver, MarkWrite,
                        ReclaimWrite, ProlongWrite, Persist, PurgeDone, DropClear, PurgeFile, PurgeFails, Idle
        <2>2. ~FetchNothing(c)
            BY DEF FetchNothing, Go, TypeOK, Idle
        <2>3. ASSUME NEW k \in Keys, FetchVanished(c, k) \/ FetchSkip(c, k) PROVE FALSE
            <3>1. op[c] \in [kind : {"fetch"}, todo : SUBSET Keys, at : Nat]
                BY ClientType DEF Calls
            <3>2. op'[c] = [op[c] EXCEPT !.todo = @ \ {k}]
                BY <2>3 DEF FetchVanished, FetchSkip, Go, TypeOK
            <3> QED BY <3>1, <3>2
        <2> QED BY <1>5, <2>1, <2>2, <2>3 DEF Continue
    <1> QED BY <1>1, <1>2, <1>3, <1>4, <1>5

\* A request of the forefront that is free is locked before any regular one, also when the
\* forefront list did not survive a crash.
THEOREM ForefrontComesFirst ==
    ASSUME SoleUse
    PROVE  Spec => ForefrontFirst
    <1> DEFINE First(c) ==
            op[c].kind = "fetch" /\ op'[c].kind = "lock" =>
                LET k == op'[c].key
                IN  files[k].order > 0 /\ inner[c].metadata.forefront[k] = 0 =>
                      \A j \in Keys : Pending(j) /\ files[j].order < 0 =>
                          IsLockedOrder(files[j].order, op[c].at)
    <1>1. TypeOK /\ CoherentInv /\ SoleInv /\ [Next]_vars => [\A c \in Clients : First(c)]_vars
        <2> SUFFICES ASSUME TypeOK, CoherentInv, SoleInv, Next, NEW c \in Clients,
                            op[c].kind = "fetch", op'[c].kind = "lock",
                            files[op'[c].key].order > 0, inner[c].metadata.forefront[op'[c].key] = 0,
                            NEW j \in Keys, Pending(j), files[j].order < 0
                     PROVE  IsLockedOrder(files[j].order, op[c].at)
            OBVIOUS
        <2>1. PICK k \in Keys : FetchFree(c, k)
            BY LockBegins
        <2>2. op'[c].key = k
            BY <2>1 DEF FetchFree, Go, TypeOK
        <2>3. \A i \in Keys \ op[c].todo : Pending(i) => IsLockedOrder(files[i].order, op[c].at)
            BY SoleClient DEF CallSound
        <2>4. CASE j \in op[c].todo
            <3>1. ~Precedes(c, j, k) /\ k \in op[c].todo
                BY <2>1, <2>4 DEF FetchFree, FetchNext
            <3>2. AgreesOn(c, j) /\ AgreesOn(c, k) /\ Pending(k)
                BY <3>1, SoleClient, AgreesAll DEF CallSound, Unindexed
            <3>3. \A i \in {j, k} : inner[c].requests[i].order \in Int /\ files[i].order \in Int
                BY <3>2, EntryOrder, PendingOrder DEF AgreesOn, IndexHandled, Pending, Handled, Orders
            <3>4. inner[c].requests[j].order < inner[c].requests[k].order
                BY <2>2, <3>2, <3>3 DEF AgreesOn
            <3>5. inner[c].metadata.forefront[j] \in Nat
                BY ClientType
            <3> QED BY <2>2, <3>1, <3>4, <3>5 DEF Precedes
        <2> QED BY <2>3, <2>4
    <1>2. Spec => []CoherentInv
        BY CoherentKept DEF SoleUse
    <1> QED BY <1>1, <1>2, SoleKept, TypeCorrect, PTL DEF ForefrontFirst, Spec

LEMMA CountKept ==
    ASSUME SoleUse, CountedAdds
    PROVE  Spec => []CountInv
    <1>1. Init => CountInv
        <2> SUFFICES ASSUME Init, NEW c \in Clients PROVE CountSound(c)
            BY DEF CountInv
        <2>1. op[c].kind = "closed" /\ \A k \in Keys : ~Exists(k)
            BY DEF Init, Closed, Exists, SoleUse
        <2> QED BY <2>1 DEF CountSound, AddSound, Unindexed
    <1>2. TypeOK /\ TypeOK' /\ CoherentInv /\ CoherentInv' /\ SoleInv /\ SoleInv' /\ CountInv /\ [Next]_vars => CountInv'
        <2> SUFFICES ASSUME TypeOK, TypeOK', CoherentInv, CoherentInv', SoleInv, SoleInv', CountInv, [Next]_vars
                     PROVE  CountInv'
            OBVIOUS
        <2>1. CASE Tick \/ UNCHANGED vars
            <3>1. UNCHANGED <<files, disk, op, inner>>
                BY <2>1 DEF Tick, vars
            <3> QED BY <3>1 DEF CountInv, CountSound, AddSound, Addable, Counted, HandledIn, PendingIn,
                                IndexHandled, Indexed, Exists
        <2>2. ASSUME NEW c \in Clients, Start(c) \/ Continue(c) \/ Fail(c) PROVE CountInv'
            <3>1. CountSound(c)'
                BY <2>2, CountStart, CountContinue, CountFail DEF CountInv
            <3> QED BY <3>1 DEF CountInv, SoleUse
        <2> QED BY <2>1, <2>2 DEF Next
    <1>3. Spec => []CoherentInv
        BY CoherentKept DEF SoleUse
    <1> QED BY <1>1, <1>2, <1>3, SoleKept, TypeCorrect, PTL DEF Spec

\* The counters in the metadata file are those of the request files whenever it is written,
\* whatever crashed, could not be written or ended half way before.
THEOREM PersistedCountsStayExact ==
    ASSUME SoleUse, CountedAdds
    PROVE  Spec => PersistedCountsExact
    <1> DEFINE Exact == disk' # disk /\ disk' # Absent =>
                  /\ disk'.handled = Cardinality({k \in Keys : Handled(k)'})
                  /\ disk'.pending = Cardinality({k \in Keys : Pending(k)'})
                  /\ disk'.total = disk'.handled + disk'.pending
    <1>1. TypeOK /\ SoleInv /\ CountInv /\ [Next]_vars => [Exact]_vars
        <2> SUFFICES ASSUME TypeOK, SoleInv, CountInv, Next, disk' # disk, disk' # Absent
                     PROVE  /\ disk'.handled = Cardinality({k \in Keys : Handled(k)'})
                            /\ disk'.pending = Cardinality({k \in Keys : Pending(k)'})
                            /\ disk'.total = disk'.handled + disk'.pending
            OBVIOUS
        <2>1. PICK c \in Clients : Create(c) \/ Ready(c) \/ Deliver(c) \/ Persist(c)
            <3>1. PICK c \in Clients : Start(c) \/ Continue(c) \/ Fail(c)
                BY DEF Next, Tick
            <3>2. ~Start(c)
                BY DEF Start, Open, AddBatch, Fetch, Touch, Raise, Purge, DropDirectory, GiveUp, Mark, Reclaim,
                       ProlongRefused, Prolong
            <3>3. ~Fail(c)
                BY DEF Fail, Crash, OpenFails, RewriteFails, WriteFails, RemoveFails, FetchReadFails, RebuildReadFails
            <3> QED BY <3>1, <3>2, <3>3
                DEF Continue, Opening, List, Clear, Rewrite, RebuildDone, Rebuild, RebuildSkip, AddMalformed,
                    AddSkip, AddItem, AddWrite, AddDone, FetchNothing, FetchLock, MarkWrite, ReclaimWrite,
                    ProlongWrite, PurgeDone, DropClear, FetchVanished, FetchSkip, FetchFree, PurgeFile, PurgeFails
        <2>2. disk' = inner[c].metadata /\ UNCHANGED files /\ op[c].kind \in {"create", "ready", "deliver", "persist"}
            BY <2>1 DEF Create, Ready, Deliver, Persist, WriteMetadata
        <2>3. {k \in Keys : Handled(k)'} = {k \in Keys : Handled(k)} /\ {k \in Keys : Pending(k)'} = {k \in Keys : Pending(k)}
            BY <2>2 DEF Handled, Pending, Exists
        <2>4. CountSound(c)
            BY DEF CountInv
        <2>5. CASE op[c].kind = "create"
            <3>1. /\ disk'.handled = 0 /\ disk'.pending = 0 /\ disk'.total = 0
                  /\ \A k \in Keys : ~Exists(k)
                BY <2>2, <2>4, <2>5 DEF CountSound, NewMetadata
            <3>2. {k \in Keys : Handled(k)} = {} /\ {k \in Keys : Pending(k)} = {}
                BY <3>1 DEF Handled, Pending
            <3> QED BY <2>3, <3>1, <3>2, FS_EmptySet
        <2>6. CASE op[c].kind # "create"
            <3>1. \A k \in Keys : AgreesOn(c, k)
                BY <2>2, <2>6, SoleClient, AgreesAll DEF Unindexed
            <3>2. Counted(c) /\ inner[c].metadata.total = inner[c].metadata.handled + inner[c].metadata.pending
                BY <2>2, <2>4, <2>6 DEF CountSound, Unindexed
            <3> QED BY <2>2, <2>3, <3>1, <3>2, InAgreement DEF Counted
        <2> QED BY <2>5, <2>6
    <1> QED BY <1>1, SoleKept, CountKept, TypeCorrect, PTL DEF PersistedCountsExact, Spec

=============================================================================
