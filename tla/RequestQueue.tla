----------------------------- MODULE RequestQueue -----------------------------
(***************************************************************************)
(* FileSystemRequestQueueClient (crawlee-storage/src/request_queue.rs): a  *)
(* request queue kept as one JSON file per request in a directory that     *)
(* several client instances, usually of several processes, may share.      *)
(*                                                                         *)
(* A client holds its mutex for a whole call, so its own calls run one     *)
(* after another; the calls of different clients interleave at every       *)
(* file-system operation.  An action is therefore the part of a call       *)
(* between two file-system operations: the operation that ends the part    *)
(* (atomic_write, a temporary file and a rename, takes effect as a whole   *)
(* or not at all) and the changes of in-memory state that follow it.       *)
(***************************************************************************)
EXTENDS OrderNo, Sequences, FiniteSets

CONSTANTS
    Keys,           \* unique keys; k < l if k's file name sorts before l's
    Clients,        \* client instances
    Absent,         \* no such file, no such index entry
    Adds,           \* the calls of add_batch_of_requests the callers make
    Producers,      \* the clients whose callers add requests
    Ops,            \* the other operations the callers use
    AccessModes,    \* values of assume_sole_owner given to open
    LegacyKeys,     \* keys whose file exists at the start, without an orderNo
    ReclaimStamped, \* may reclaimed requests carry the caller's own handledAt?
    Late,           \* "mark", "reclaim": calls made also when one's lock has expired
    Overlap,        \* may calls of different clients overlap in time?
    LockMillis,     \* DEFAULT_LOCK_MILLIS
    Raises,         \* durations given to set_expected_request_processing_time
    Extensions,     \* durations given to prolong_request_lock
    MaxTime,        \* bound: the clock stops here
    MaxSeq,         \* bound: on insertion sequence numbers
    MaxCount,       \* bound: on the handled counter
    MaxFaults,      \* bound: crashes and failed file-system operations
    FaultsUntil,    \* bound: no fault after this time
    FaultKinds      \* "crash", a failed "write", "remove" or "read" of a file

Items == [key : Keys \cup {None}, handledAt : BOOLEAN]  \* None: no uniqueKey
OpNames == {"fetch", "mark", "reclaim", "prolong", "raise", "touch", "purge", "drop"}

ASSUME KeysAssumption == Keys \subseteq Nat /\ IsFiniteSet(Keys)
ASSUME SentinelAssumption == None \notin Keys
ASSUME CallsAssumption ==
    /\ Adds \subseteq [batch : Seq(Items), forefront : BOOLEAN]
    /\ Ops \subseteq OpNames
    /\ Producers \subseteq Clients
    /\ AccessModes \subseteq BOOLEAN
    /\ LegacyKeys \subseteq Keys
    /\ ReclaimStamped \subseteq BOOLEAN
    /\ Late \subseteq {"mark", "reclaim"}
    /\ Overlap \in BOOLEAN
ASSUME DurationsAssumption ==
    /\ LockMillis \in Nat \ {0}
    /\ Raises \subseteq Nat
    /\ Extensions \subseteq Int
ASSUME BoundsAssumption ==
    /\ {MaxTime, MaxSeq, MaxCount, MaxFaults, FaultsUntil} \subseteq Nat
    /\ FaultKinds \subseteq {"crash", "write", "remove", "read"}

VARIABLES
    now,        \* the clock all clients read (unix milliseconds)
    files,      \* the request files
    disk,       \* the metadata file
    op,         \* what each client is doing
    inner,      \* each client's InnerState
    working,    \* the requests each client's callers were handed and still have
    dropping,   \* clients inside drop_storage, between its two halves
    faults      \* faults so far

vars == <<now, files, disk, op, inner, working, dropping, faults>>

Files == [order : Orders, handledAt : BOOLEAN]
Entries == [order : Orders, seq : Nat]

\* forefront[k] is 0 if k is not in forefront_request_ids, and else the rank of
\* k's last occurrence among those of all keys in it: the order in which the
\* list is read, from its end and dropping duplicates, is all the code uses.
Metadata == [forefront : [Keys -> Nat], handled : Nat, pending : Nat, total : Nat]
InnerStates == [metadata : Metadata, requests : [Keys -> Entries \cup {Absent}],
                held : [Keys -> Orders], counter : Nat, lockMillis : Nat]

ASSUME AbsentAssumption == Absent \notin Files \cup Entries \cup Metadata

\* The calls in progress.  "sole" is open's assume_sole_owner.
Calls ==
    [kind : {"closed", "idle"}]
        \cup [kind : {"create", "list"}, sole : BOOLEAN]
        \cup [kind : {"clear"}, sole : BOOLEAN, todo : SUBSET Keys]
        \cup [kind : {"rebuild"}, sole : BOOLEAN, todo : SUBSET Keys, at : Nat]
        \cup [kind : {"rewrite"}, sole : BOOLEAN, todo : SUBSET Keys, at : Nat, key : Keys, order : Int]
        \cup [kind : {"ready"}, sole : BOOLEAN]
        \cup [kind : {"add"}, batch : Seq(Items), forefront : BOOLEAN]
        \cup [kind : {"addWrite"}, key : Keys, handledAt : BOOLEAN, order : Orders, seq : Nat,
               batch : Seq(Items), forefront : BOOLEAN]
        \cup [kind : {"fetch"}, todo : SUBSET Keys, at : Nat]
        \cup [kind : {"lock"}, key : Keys, order : Int, handledAt : BOOLEAN]
        \cup [kind : {"deliver"}, key : Keys, order : Int]
        \cup [kind : {"mark"}, key : Keys]
        \cup [kind : {"reclaim"}, key : Keys, forefront : BOOLEAN, order : Int, handledAt : BOOLEAN]
        \cup [kind : {"prolong"}, key : Keys, order : Int, handledAt : BOOLEAN]
        \cup [kind : {"purge"}, todo : SUBSET Keys]
        \cup [kind : {"persist"}, done : SUBSET Keys]

-------------------------------------------------------------------------------
(* Helpers *)

Closed == [kind |-> "closed"]
Idle == [kind |-> "idle"]

NewMetadata == [forefront |-> [k \in Keys |-> 0], handled |-> 0, pending |-> 0, total |-> 0]

\* The InnerState open_with_clock builds before rebuild_index.
InnerWith(metadata) ==
    [metadata |-> metadata, requests |-> [k \in Keys |-> Absent],
     held |-> [k \in Keys |-> None], counter |-> 0, lockMillis |-> LockMillis]

Exists(k) == files[k] # Absent
Indexed(c, k) == inner[c].requests[k] # Absent
IndexHandled(c, k) == Indexed(c, k) /\ inner[c].requests[k].order = None

\* The lock c took on k has not expired.
Live(c, k) == inner[c].held[k] # None /\ IsLockedOrder(inner[c].held[k], now)

\* The forefront list without the keys outside S: ranks are counted again.
Keep(ff, S) ==
    [k \in Keys |-> IF k \in S THEN Cardinality({j \in S : ff[j] > 0 /\ ff[j] <= ff[k]}) ELSE 0]

\* The forefront list with k pushed at its end.
Push(ff, k) ==
    LET rest == Keep(ff, Keys \ {k})
    IN  [rest EXCEPT ![k] = 1 + Cardinality({j \in Keys : rest[j] > 0})]

\* Mutant of Candidates: a request of this very millisecond is taken for a locked one.
CandidatesStrict(c, t) ==
    {k \in Keys : /\ Indexed(c, k)
                  /\ inner[c].requests[k].order # None
                  /\ -t < inner[c].requests[k].order
                  /\ inner[c].requests[k].order < t}

\* ordered_candidate_keys: which keys are candidates at time t ...
Candidates(c, t) ==
    {k \in Keys : /\ Indexed(c, k)
                  /\ inner[c].requests[k].order # None
                  /\ ~IsLockedOrder(inner[c].requests[k].order, t)}

\* Mutant of Precedes: regular requests in the order of insertion alone.
PrecedesBySeq(c, j, k) ==
    LET ff == inner[c].metadata.forefront
    IN  IF ff[j] > 0 \/ ff[k] > 0
        THEN ff[j] > ff[k]
        ELSE inner[c].requests[j].seq < inner[c].requests[k].seq

\* ... and which of two candidates comes first.
Precedes(c, j, k) ==
    LET ff == inner[c].metadata.forefront
        e == inner[c].requests[j]
        f == inner[c].requests[k]
    IN  IF ff[j] > 0 \/ ff[k] > 0
        THEN ff[j] > ff[k]
        ELSE e.order < f.order \/ (e.order = f.order /\ e.seq < f.seq)

\* The index with a pending entry of k's, if it has one, set to an orderNo.
Resync(c, k, order) ==
    IF Indexed(c, k) THEN [inner[c].requests EXCEPT ![k].order = order] ELSE inner[c].requests

\* A call may start: the client's mutex is free.
MayStart(c) ==
    /\ op[c] = Idle
    /\ Overlap \/ \A d \in Clients \ {c} : op[d].kind \in {"closed", "idle"} /\ d \notin dropping

\* c is open and in the middle of a call.
InCall(c) == op[c].kind \notin {"closed", "create", "list", "clear", "rebuild", "rewrite", "ready"}

Go(c, call) == op' = [op EXCEPT ![c] = call]
Become(c, state) == inner' = [inner EXCEPT ![c] = state]
LetGo(c, ks) == working' = [working EXCEPT ![c] = @ \ ks]
WriteRequest(k, file) == files' = [files EXCEPT ![k] = file]
WriteMetadata(c) == disk' = inner[c].metadata

-------------------------------------------------------------------------------
(* open_with_clock and rebuild_index *)

Open(c) ==
    /\ op[c] = Closed
    /\ Overlap \/ \A d \in Clients \ {c} : op[d].kind \in {"closed", "idle"} /\ d \notin dropping
    /\ \E sole \in AccessModes :
          Go(c, [kind |-> IF disk = Absent THEN "create" ELSE "list", sole |-> sole])
    /\ Become(c, InnerWith(IF disk = Absent THEN NewMetadata ELSE disk))
    /\ UNCHANGED <<now, files, disk, working, dropping, faults>>

Create(c) ==
    /\ op[c].kind = "create"
    /\ WriteMetadata(c)
    /\ Go(c, [kind |-> "list", sole |-> op[c].sole])
    /\ UNCHANGED <<now, files, inner, working, dropping, faults>>

List(c) ==
    /\ op[c].kind = "list"
    /\ Go(c, [kind |-> "clear", sole |-> op[c].sole, todo |-> {k \in Keys : Exists(k)}])
    /\ UNCHANGED <<now, files, disk, inner, working, dropping, faults>>

\* The counts start again; the forefront list waits to be pruned in RebuildDone.
Clear(c) ==
    /\ op[c].kind = "clear"
    /\ Go(c, [kind |-> "rebuild", sole |-> op[c].sole, todo |-> op[c].todo, at |-> now])
    /\ Become(c, InnerWith([NewMetadata EXCEPT !.forefront = inner[c].metadata.forefront]))
    /\ UNCHANGED <<now, files, disk, working, dropping, faults>>

\* One more handled or pending request.
CountRestored(m, order) ==
    [m EXCEPT !.handled = IF order = None THEN @ + 1 ELSE @,
              !.pending = IF order = None THEN @ ELSE @ + 1]

\* The index entry and the counts for one file that was read.
Restore(c, k, order) ==
    Become(c, [inner[c] EXCEPT
        !.requests[k] = [order |-> order, seq |-> inner[c].counter],
        !.counter = @ + 1,
        !.metadata = CountRestored(@, order)])

\* A handled file is one with a handledAt; one without orderNo gets the time.
RestoredOrder(file, at) ==
    IF file.handledAt THEN None ELSE IF file.order = None THEN at ELSE file.order

\* Mutant of MustReclaim: the lock of a forefront request is not seen.
MustReclaimRegular(sole, order, at) == sole /\ order # None /\ order > at

\* The sole owner takes the locks it finds for those of a run that died.
MustReclaim(sole, order, at) == sole /\ order # None /\ IsLockedOrder(order, at)

RebuildNext(c, k) ==
    /\ op[c].kind = "rebuild"
    /\ k \in op[c].todo
    /\ \A j \in op[c].todo : k <= j

Rebuild(c, k) ==
    /\ RebuildNext(c, k)
    /\ Exists(k)
    /\ LET order == RestoredOrder(files[k], op[c].at)
           todo == op[c].todo \ {k}
       IN  IF MustReclaim(op[c].sole, order, op[c].at)
           THEN /\ Go(c, [kind |-> "rewrite", sole |-> op[c].sole, todo |-> todo, at |-> op[c].at,
                          key |-> k, order |-> WithSignOf(order, op[c].at)])
                /\ UNCHANGED inner
           ELSE /\ Go(c, [op[c] EXCEPT !.todo = todo])
                /\ Restore(c, k, order)
    /\ UNCHANGED <<now, files, disk, working, dropping, faults>>

\* A file that is gone or cannot be read is left out of the index.
RebuildSkip(c, k) ==
    /\ RebuildNext(c, k)
    /\ ~Exists(k)
    /\ Go(c, [op[c] EXCEPT !.todo = @ \ {k}])
    /\ UNCHANGED <<now, files, disk, inner, working, dropping, faults>>

AfterRewrite(c) ==
    [kind |-> "rebuild", sole |-> op[c].sole, todo |-> op[c].todo, at |-> op[c].at]

Rewrite(c) ==
    /\ op[c].kind = "rewrite"
    /\ WriteRequest(op[c].key, [order |-> op[c].order, handledAt |-> FALSE])
    /\ Restore(c, op[c].key, op[c].order)
    /\ Go(c, AfterRewrite(c))
    /\ UNCHANGED <<now, disk, working, dropping, faults>>

\* The forefront list keeps the keys in S, and the counts add up.
Pruned(m, S) == [m EXCEPT !.forefront = Keep(@, S), !.total = m.handled + m.pending]

RebuildDone(c) ==
    /\ op[c].kind = "rebuild"
    /\ op[c].todo = {}
    /\ Become(c, [inner[c] EXCEPT
           !.metadata = Pruned(@, {k \in Keys : Indexed(c, k) /\ ~IndexHandled(c, k)})])
    /\ Go(c, [kind |-> "ready", sole |-> op[c].sole])
    /\ UNCHANGED <<now, files, disk, working, dropping, faults>>

Ready(c) ==
    /\ op[c].kind = "ready"
    /\ WriteMetadata(c)
    /\ Go(c, Idle)
    /\ UNCHANGED <<now, files, inner, working, dropping, faults>>

-------------------------------------------------------------------------------
(* add_batch_of_requests *)

AddBatch(c) ==
    /\ c \in Producers
    /\ MayStart(c)
    /\ \E call \in Adds :
          /\ inner[c].counter + Len(call.batch) <= MaxSeq
          /\ Go(c, [kind |-> "add", batch |-> call.batch, forefront |-> call.forefront])
    /\ UNCHANGED <<now, files, disk, inner, working, dropping, faults>>

\* Mutants of AlreadyThere: without the early return for handled, for pending requests.
AlreadyPending(c, k, forefront) == Indexed(c, k) /\ ~IndexHandled(c, k) /\ ~forefront
AlreadyHandled(c, k, forefront) == IndexHandled(c, k)

\* Handled already, or pending already and no move to the forefront is asked for.
AlreadyThere(c, k, forefront) == IndexHandled(c, k) \/ (Indexed(c, k) /\ ~forefront)

\* The queue's orderNo for an item of a batch; the caller's own is overwritten.
AddedOrder(item, forefront, t) ==
    IF item.handledAt THEN None ELSE CalculateOrderNo(forefront, t)

\* An item without uniqueKey ends the call with an error, before the metadata is written.
AddMalformed(c) ==
    /\ op[c].kind = "add"
    /\ op[c].batch # << >>
    /\ Head(op[c].batch).key = None
    /\ Go(c, Idle)
    /\ UNCHANGED <<now, files, disk, inner, working, dropping, faults>>

AddSkip(c) ==
    /\ op[c].kind = "add"
    /\ op[c].batch # << >>
    /\ Head(op[c].batch).key # None
    /\ AlreadyThere(c, Head(op[c].batch).key, op[c].forefront)
    /\ Go(c, [op[c] EXCEPT !.batch = Tail(@)])
    /\ UNCHANGED <<now, files, disk, inner, working, dropping, faults>>

\* The clock is read and a sequence number taken before the file is written.
AddItem(c) ==
    /\ op[c].kind = "add"
    /\ op[c].batch # << >>
    /\ LET item == Head(op[c].batch)
       IN  /\ item.key # None
           /\ ~AlreadyThere(c, item.key, op[c].forefront)
           /\ Go(c, [kind |-> "addWrite", key |-> item.key, handledAt |-> item.handledAt,
                     order |-> AddedOrder(item, op[c].forefront, now), seq |-> inner[c].counter,
                     batch |-> Tail(op[c].batch), forefront |-> op[c].forefront])
    /\ Become(c, [inner[c] EXCEPT !.counter = @ + 1])
    /\ UNCHANGED <<now, files, disk, working, dropping, faults>>

\* Mutant of CountAdded: a move to the forefront is counted too.
CountAlways(m, present, handled) ==
    [m EXCEPT !.total = @ + 1,
              !.handled = IF handled THEN @ + 1 ELSE @,
              !.pending = IF handled THEN @ ELSE @ + 1]

\* The counts change for a new key only: a move to the forefront is not an addition.
CountAdded(m, present, handled) ==
    IF present THEN m
    ELSE [m EXCEPT !.total = @ + 1,
                   !.handled = IF handled THEN @ + 1 ELSE @,
                   !.pending = IF handled THEN @ ELSE @ + 1]

\* A handled request never enters the forefront list.
MovedForward(c, k) ==
    IF op[c].forefront /\ ~op[c].handledAt
    THEN [inner[c].metadata EXCEPT !.forefront = Push(@, k)]
    ELSE inner[c].metadata

AddWrite(c) ==
    /\ op[c].kind = "addWrite"
    /\ LET k == op[c].key
       IN  /\ WriteRequest(k, [order |-> op[c].order, handledAt |-> op[c].handledAt])
           /\ Become(c, [inner[c] EXCEPT
                  !.requests[k] = [order |-> op[c].order, seq |-> op[c].seq],
                  !.metadata = CountAdded(MovedForward(c, k), Indexed(c, k), op[c].handledAt)])
    /\ Go(c, [kind |-> "add", batch |-> op[c].batch, forefront |-> op[c].forefront])
    /\ UNCHANGED <<now, disk, working, dropping, faults>>

AddDone(c) ==
    /\ op[c].kind = "add"
    /\ op[c].batch = << >>
    /\ Go(c, [kind |-> "persist", done |-> {}])
    /\ UNCHANGED <<now, files, disk, inner, working, dropping, faults>>

-------------------------------------------------------------------------------
(* fetch_next_request *)

Fetch(c) ==
    /\ "fetch" \in Ops
    /\ MayStart(c)
    /\ Go(c, [kind |-> "fetch", todo |-> Candidates(c, now), at |-> now])
    /\ UNCHANGED <<now, files, disk, inner, working, dropping, faults>>

\* The candidate whose file is read next.
FetchNext(c, k) ==
    /\ op[c].kind = "fetch"
    /\ k \in op[c].todo
    /\ \A j \in op[c].todo : ~Precedes(c, j, k)

\* The file vanished: the entry leaves the index, the counts stay.
FetchVanished(c, k) ==
    /\ FetchNext(c, k)
    /\ ~Exists(k)
    /\ Become(c, [inner[c] EXCEPT !.requests[k] = Absent])
    /\ Go(c, [op[c] EXCEPT !.todo = @ \ {k}])
    /\ UNCHANGED <<now, files, disk, working, dropping, faults>>

\* Mutants of MustSkip: the lock in the file is not looked at, or only a regular one.
MustSkipHandled(order, t) == order = None
MustSkipRegular(order, t) == order = None \/ (order # None /\ order > t)

\* Locked or handled according to the file: the index learns it from there.
MustSkip(order, t) == order = None \/ (order # None /\ IsLockedOrder(order, t))

FetchSkip(c, k) ==
    /\ FetchNext(c, k)
    /\ Exists(k)
    /\ MustSkip(files[k].order, op[c].at)
    /\ Become(c, [inner[c] EXCEPT !.requests = Resync(c, k, files[k].order)])
    /\ Go(c, [op[c] EXCEPT !.todo = @ \ {k}])
    /\ UNCHANGED <<now, files, disk, working, dropping, faults>>

FetchFree(c, k) ==
    /\ FetchNext(c, k)
    /\ Exists(k)
    /\ ~MustSkip(files[k].order, op[c].at)
    /\ Go(c, [kind |-> "lock", key |-> k, handledAt |-> files[k].handledAt,
              order |-> LockOrder(files[k].order, op[c].at, inner[c].lockMillis)])
    /\ UNCHANGED <<now, files, disk, inner, working, dropping, faults>>

FetchNothing(c) ==
    /\ op[c].kind = "fetch"
    /\ op[c].todo = {}
    /\ Go(c, Idle)
    /\ UNCHANGED <<now, files, disk, inner, working, dropping, faults>>

\* The lock goes into the file with the rest of what was read from it.
FetchLock(c) ==
    /\ op[c].kind = "lock"
    /\ WriteRequest(op[c].key, [order |-> op[c].order, handledAt |-> op[c].handledAt])
    /\ Become(c, [inner[c] EXCEPT !.requests = Resync(c, op[c].key, op[c].order)])
    /\ Go(c, [kind |-> "deliver", key |-> op[c].key, order |-> op[c].order])
    /\ UNCHANGED <<now, disk, working, dropping, faults>>

Deliver(c) ==
    /\ op[c].kind = "deliver"
    /\ WriteMetadata(c)
    /\ Become(c, [inner[c] EXCEPT !.held[op[c].key] = op[c].order])
    /\ working' = [working EXCEPT ![c] = @ \cup {op[c].key}]
    /\ Go(c, Idle)
    /\ UNCHANGED <<now, files, dropping, faults>>

-------------------------------------------------------------------------------
(* mark_request_as_handled, reclaim_request *)

\* Neither a file nor an entry; or handled as far as this client knows.
NothingToDo(c, k) == (~Exists(k) /\ ~Indexed(c, k)) \/ IndexHandled(c, k)

GiveUp(c, k) ==
    /\ MayStart(c)
    /\ k \in working[c]
    /\ NothingToDo(c, k)
    /\ Become(c, [inner[c] EXCEPT !.held[k] = None])
    /\ LetGo(c, {k})
    /\ UNCHANGED <<now, files, disk, op, dropping, faults>>

Mark(c, k) ==
    /\ "mark" \in Ops
    /\ MayStart(c)
    /\ k \in working[c]
    /\ "mark" \in Late \/ Live(c, k)
    /\ ~NothingToDo(c, k)
    /\ inner[c].metadata.handled < MaxCount
    /\ Go(c, [kind |-> "mark", key |-> k])
    /\ UNCHANGED <<now, files, disk, inner, working, dropping, faults>>

\* Mutant of CountHandled: the subtraction does not saturate.
CountHandledUnsaturated(m) == [m EXCEPT !.handled = @ + 1, !.pending = @ - 1]

\* handled + 1, and pending - 1 where pending is not 0 (saturating_sub).
CountHandled(m) ==
    [m EXCEPT !.handled = @ + 1, !.pending = IF @ = 0 THEN 0 ELSE @ - 1]

Seq0(c, k) == IF Indexed(c, k) THEN inner[c].requests[k].seq ELSE 0

\* Mutant of HandledFile: orderNo keeps the lock.
HandledFileLocked(k) ==
    [order |-> IF Exists(k) THEN files[k].order ELSE None, handledAt |-> TRUE]

\* The file of a handled request: handledAt is set and orderNo is null.
HandledFile(k) == [order |-> None, handledAt |-> TRUE]

HandledEntry(c, k) == [order |-> None, seq |-> Seq0(c, k)]

\* k leaves the forefront list, all its occurrences.
Unlisted(m, k) == [m EXCEPT !.forefront = Keep(@, Keys \ {k})]

MarkWrite(c) ==
    /\ op[c].kind = "mark"
    /\ LET k == op[c].key
       IN  /\ WriteRequest(k, HandledFile(k))
           /\ Become(c, [inner[c] EXCEPT
                  !.held[k] = None,
                  !.requests[k] = HandledEntry(c, k),
                  !.metadata = CountHandled(Unlisted(@, k))])
           /\ Go(c, [kind |-> "persist", done |-> {k}])
    /\ UNCHANGED <<now, disk, working, dropping, faults>>

Reclaim(c, k) ==
    /\ "reclaim" \in Ops
    /\ MayStart(c)
    /\ k \in working[c]
    /\ "reclaim" \in Late \/ Live(c, k)
    /\ ~NothingToDo(c, k)
    /\ \E forefront \in BOOLEAN, handledAt \in ReclaimStamped :
          Go(c, [kind |-> "reclaim", key |-> k, forefront |-> forefront, handledAt |-> handledAt,
                 order |-> CalculateOrderNo(forefront, now)])
    /\ UNCHANGED <<now, files, disk, inner, working, dropping, faults>>

\* A new sequence number only for a key that is not indexed.
ReclaimedSeq(c, k) == IF Indexed(c, k) THEN inner[c].requests[k].seq ELSE inner[c].counter

ReclaimWrite(c) ==
    /\ op[c].kind = "reclaim"
    /\ LET k == op[c].key
       IN  /\ WriteRequest(k, [order |-> op[c].order, handledAt |-> op[c].handledAt])
           /\ Become(c, [inner[c] EXCEPT
                  !.held[k] = None,
                  !.requests[k] = [order |-> op[c].order, seq |-> ReclaimedSeq(c, k)],
                  !.counter = IF Indexed(c, k) THEN @ ELSE @ + 1,
                  !.metadata.forefront =
                      IF op[c].forefront /\ @[k] = 0 THEN Push(@, k) ELSE @])
           /\ Go(c, [kind |-> "persist", done |-> {k}])
    /\ UNCHANGED <<now, disk, working, dropping, faults>>

-------------------------------------------------------------------------------
(* prolong_request_lock.  A non-positive extension is an error and an unknown
   request id answers false; neither changes any state. *)

\* The file does not carry the lock this client took, or the lock has expired.
LostLock(c, k) ==
    \/ files[k].order # inner[c].held[k]
    \/ ~IsLockedOrder(inner[c].held[k], now)

ProlongRefused(c, k) ==
    /\ "prolong" \in Ops
    /\ MayStart(c)
    /\ inner[c].held[k] # None
    /\ IF Exists(k)
       THEN /\ LostLock(c, k)
            /\ Become(c, [inner[c] EXCEPT !.held[k] = None,
                                          !.requests = Resync(c, k, files[k].order)])
       ELSE Become(c, [inner[c] EXCEPT !.held[k] = None, !.requests[k] = Absent])
    /\ UNCHANGED <<now, files, disk, op, working, dropping, faults>>

Prolong(c, k) ==
    /\ "prolong" \in Ops
    /\ MayStart(c)
    /\ inner[c].held[k] # None
    /\ Exists(k)
    /\ ~LostLock(c, k)
    /\ \E extension \in {e \in Extensions : e > 0} :
          LET order == ExtendedOrder(inner[c].held[k], extension)
          IN  /\ ~IsLockedOrder(order, MaxTime + LockMillis)
              /\ Go(c, [kind |-> "prolong", key |-> k, order |-> order,
                        handledAt |-> files[k].handledAt])
    /\ UNCHANGED <<now, files, disk, inner, working, dropping, faults>>

ProlongWrite(c) ==
    /\ op[c].kind = "prolong"
    /\ LET k == op[c].key
       IN  /\ WriteRequest(k, [order |-> op[c].order, handledAt |-> op[c].handledAt])
           /\ Become(c, [inner[c] EXCEPT !.held[k] = op[c].order,
                                         !.requests = Resync(c, k, op[c].order)])
           /\ Go(c, [kind |-> "persist", done |-> {}])
    /\ UNCHANGED <<now, disk, working, dropping, faults>>

-------------------------------------------------------------------------------
(* The metadata write that ends a call, and the calls that do little else *)

Persist(c) ==
    /\ op[c].kind = "persist"
    /\ WriteMetadata(c)
    /\ LetGo(c, op[c].done)
    /\ Go(c, Idle)
    /\ UNCHANGED <<now, files, inner, dropping, faults>>

\* get_request and is_empty change nothing but write the metadata.
Touch(c) ==
    /\ "touch" \in Ops
    /\ MayStart(c)
    /\ Go(c, [kind |-> "persist", done |-> {}])
    /\ UNCHANGED <<now, files, disk, inner, working, dropping, faults>>

\* set_expected_request_processing_time never shortens.
Raise(c) ==
    /\ "raise" \in Ops
    /\ MayStart(c)
    /\ \E d \in Raises : /\ d > inner[c].lockMillis
                         /\ Become(c, [inner[c] EXCEPT !.lockMillis = d])
    /\ UNCHANGED <<now, files, disk, op, working, dropping, faults>>

\* purge: the files are listed, then removed one by one.
Purge(c) ==
    /\ "purge" \in Ops
    /\ MayStart(c)
    /\ Go(c, [kind |-> "purge", todo |-> {k \in Keys : Exists(k)}])
    /\ UNCHANGED <<now, files, disk, inner, working, dropping, faults>>

PurgeFile(c, k) ==
    /\ op[c].kind = "purge"
    /\ k \in op[c].todo
    /\ Exists(k)
    /\ WriteRequest(k, Absent)
    /\ Go(c, [op[c] EXCEPT !.todo = @ \ {k}])
    /\ UNCHANGED <<now, disk, inner, working, dropping, faults>>

\* Mutant of PurgeFails: the removal is tried again for ever.
PurgeRetries(c, k) ==
    /\ op[c].kind = "purge"
    /\ k \in op[c].todo
    /\ ~Exists(k)
    /\ UNCHANGED vars

\* A file someone else removed meanwhile ends the call with an error.
PurgeFails(c, k) ==
    /\ op[c].kind = "purge"
    /\ k \in op[c].todo
    /\ ~Exists(k)
    /\ Go(c, Idle)
    /\ UNCHANGED <<now, files, disk, inner, working, dropping, faults>>

\* Mutant of Purged: the index is not cleared.
PurgedKeepingIndex(state) ==
    [InnerWith(NewMetadata) EXCEPT !.lockMillis = state.lockMillis, !.requests = state.requests]

\* The state purge leaves; the lock duration stays.
Purged(state) == [InnerWith(NewMetadata) EXCEPT !.lockMillis = state.lockMillis]

PurgeDone(c) ==
    /\ op[c].kind = "purge"
    /\ op[c].todo = {}
    /\ Become(c, Purged(inner[c]))
    /\ Go(c, [kind |-> "persist", done |-> {}])
    /\ UNCHANGED <<now, files, disk, working, dropping, faults>>

\* drop_storage removes the directory without the mutex, whatever else runs ...
DropDirectory(c) ==
    /\ "drop" \in Ops
    /\ c \notin dropping
    /\ MayStart(c) \/ (Overlap /\ InCall(c))
    /\ files' = [k \in Keys |-> Absent]
    /\ disk' = Absent
    /\ dropping' = dropping \cup {c}
    /\ UNCHANGED <<now, op, inner, working, faults>>

\* ... and then clears the index and the held locks, with it.
DropClear(c) ==
    /\ c \in dropping
    /\ op[c] = Idle
    /\ dropping' = dropping \ {c}
    /\ Become(c, [inner[c] EXCEPT !.requests = [k \in Keys |-> Absent],
                                  !.held = [k \in Keys |-> None]])
    /\ UNCHANGED <<now, files, disk, op, working, faults>>

-------------------------------------------------------------------------------
(* Faults and time *)

MayFault(kind) == kind \in FaultKinds /\ faults < MaxFaults /\ now <= FaultsUntil

\* The process dies, or the caller lets go of the client: its memory is gone.
Stop(c) ==
    /\ Go(c, Closed)
    /\ Become(c, InnerWith(NewMetadata))
    /\ working' = [working EXCEPT ![c] = {}]
    /\ dropping' = dropping \ {c}

Crash(c) ==
    /\ MayFault("crash")
    /\ op[c] # Closed
    /\ Stop(c)
    /\ faults' = faults + 1
    /\ UNCHANGED <<now, files, disk>>

\* open answers an error and no client: there is nothing to keep.
OpenFails(c) ==
    /\ MayFault("write")
    /\ op[c].kind \in {"create", "ready"}
    /\ Stop(c)
    /\ faults' = faults + 1
    /\ UNCHANGED <<now, files, disk>>

\* A stale lock that cannot be cleared is logged, and free in the index all the same.
RewriteFails(c) ==
    /\ MayFault("write")
    /\ op[c].kind = "rewrite"
    /\ Restore(c, op[c].key, op[c].order)
    /\ Go(c, AfterRewrite(c))
    /\ faults' = faults + 1
    /\ UNCHANGED <<now, files, disk, working, dropping>>

\* The call ends with an error where it stands.
WriteFails(c) ==
    /\ MayFault("write")
    /\ op[c].kind \in {"addWrite", "lock", "deliver", "mark", "reclaim", "prolong", "persist"}
    /\ Go(c, Idle)
    /\ faults' = faults + 1
    /\ UNCHANGED <<now, files, disk, inner, working, dropping>>

RemoveFails(c) ==
    /\ MayFault("remove")
    /\ op[c].kind = "purge"
    /\ op[c].todo # {}
    /\ Go(c, Idle)
    /\ faults' = faults + 1
    /\ UNCHANGED <<now, files, disk, inner, working, dropping>>

\* fetch_next_request takes any failure to read a candidate for a vanished file.
FetchReadFails(c, k) ==
    /\ MayFault("read")
    /\ FetchNext(c, k)
    /\ Become(c, [inner[c] EXCEPT !.requests[k] = Absent])
    /\ Go(c, [op[c] EXCEPT !.todo = @ \ {k}])
    /\ faults' = faults + 1
    /\ UNCHANGED <<now, files, disk, working, dropping>>

RebuildReadFails(c, k) ==
    /\ MayFault("read")
    /\ RebuildNext(c, k)
    /\ Go(c, [op[c] EXCEPT !.todo = @ \ {k}])
    /\ faults' = faults + 1
    /\ UNCHANGED <<now, files, disk, inner, working, dropping>>

Tick ==
    /\ now < MaxTime
    /\ now' = now + 1
    /\ UNCHANGED <<files, disk, op, inner, working, dropping, faults>>

-------------------------------------------------------------------------------
(* The specification *)

Init ==
    /\ now = 1
    /\ files = [k \in Keys |-> IF k \in LegacyKeys THEN [order |-> None, handledAt |-> FALSE] ELSE Absent]
    /\ disk = Absent
    /\ op = [c \in Clients |-> Closed]
    /\ inner = [c \in Clients |-> InnerWith(NewMetadata)]
    /\ working = [c \in Clients |-> {}]
    /\ dropping = {}
    /\ faults = 0

\* The calls that callers decide to make ...
Start(c) ==
    \/ Open(c) \/ AddBatch(c) \/ Fetch(c) \/ Touch(c) \/ Raise(c) \/ Purge(c) \/ DropDirectory(c)
    \/ \E k \in Keys : GiveUp(c, k) \/ Mark(c, k) \/ Reclaim(c, k) \/ ProlongRefused(c, k) \/ Prolong(c, k)

\* ... and the steps that carry a call to its end.
Opening(c) ==
    \/ Create(c) \/ List(c) \/ Clear(c) \/ Rewrite(c) \/ RebuildDone(c) \/ Ready(c)
    \/ \E k \in Keys : Rebuild(c, k) \/ RebuildSkip(c, k)

Continue(c) ==
    \/ Opening(c)
    \/ AddMalformed(c) \/ AddSkip(c) \/ AddItem(c) \/ AddWrite(c) \/ AddDone(c)
    \/ FetchNothing(c) \/ FetchLock(c) \/ Deliver(c)
    \/ MarkWrite(c) \/ ReclaimWrite(c) \/ ProlongWrite(c) \/ Persist(c) \/ PurgeDone(c) \/ DropClear(c)
    \/ \E k \in Keys : \/ FetchVanished(c, k) \/ FetchSkip(c, k) \/ FetchFree(c, k)
                       \/ PurgeFile(c, k) \/ PurgeFails(c, k)

Fail(c) ==
    \/ Crash(c) \/ OpenFails(c) \/ RewriteFails(c) \/ WriteFails(c) \/ RemoveFails(c)
    \/ \E k \in Keys : FetchReadFails(c, k) \/ RebuildReadFails(c, k)

Next == Tick \/ \E c \in Clients : Start(c) \/ Continue(c) \/ Fail(c)

Spec == Init /\ [][Next]_vars

\* A call that has begun goes on, a closed client is opened again and time
\* passes.  The mutex is handed on in the order of waiting, so a fetch or a
\* mark that callers keep asking for gets its turn.
Fairness ==
    /\ WF_vars(Tick)
    /\ \A c \in Clients :
          /\ WF_vars(Continue(c))
          /\ WF_vars(Open(c))
          /\ SF_vars(Fetch(c))
          /\ \A k \in Keys : SF_vars(Mark(c, k))

FairSpec == Spec /\ Fairness

\* Only the calls that have begun are sure to go on.
RunningSpec == Spec /\ \A c \in Clients : WF_vars(Continue(c))

-------------------------------------------------------------------------------
(* Properties *)

\* Every variable keeps the shape of the code's data: a client's InnerState, the
\* metadata and request files, the call in progress.
TypeOK ==
    /\ now \in Nat
    /\ files \in [Keys -> Files \cup {Absent}]
    /\ disk \in Metadata \cup {Absent}
    /\ op \in [Clients -> Calls]
    /\ inner \in [Clients -> InnerStates]
    /\ working \in [Clients -> SUBSET Keys]
    /\ dropping \subseteq Clients
    /\ faults \in Nat

Pending(k) == Exists(k) /\ ~files[k].handledAt
Handled(k) == Exists(k) /\ files[k].handledAt

\* k could be handed out now, going by its file.
Fetchable(k) == Pending(k) /\ files[k].order # None /\ ~IsLockedOrder(files[k].order, now)

\* c is open, its mutex is free and no drop_storage is under way.
Settled(c) == op[c] = Idle /\ c \notin dropping

\* After every call of a client alone on its directory, also one that ended in an
\* error or followed a crash, the index knows exactly the files there are and which
\* are handled: dedup in add_batch_of_requests and is_finished rely on it.
IndexAgreesWithFiles ==
    \A c \in Clients : Settled(c) =>
        \A k \in Keys : /\ Indexed(c, k) <=> Exists(k)
                        /\ IndexHandled(c, k) <=> Handled(k)

\* A request whose file is fetchable is a candidate of the next fetch: is_empty and
\* fetch_next_request never overlook it.  A client that has just opened as the sole
\* owner can fetch every pending request at once, whatever locks its last run left.
SoleOwnerTakesAll(c) ==
    op[c].kind = "ready" /\ op[c].sole => \A k \in Keys : Pending(k) => k \in Candidates(c, now)
FetchableIsCandidate ==
    \A c \in Clients :
        /\ Settled(c) => \A k \in Keys : Fetchable(k) => k \in Candidates(c, now)
        /\ SoleOwnerTakesAll(c)

\* Whenever the metadata file is written, its counters are those of the request
\* files at that moment: no crash, failed write or half-done batch makes them drift.
PersistedCountsExact ==
    [][disk' # disk /\ disk' # Absent =>
          /\ disk'.handled = Cardinality({k \in Keys : Handled(k)'})
          /\ disk'.pending = Cardinality({k \in Keys : Pending(k)'})
          /\ disk'.total = disk'.handled + disk'.pending]_vars

\* A handled request never becomes pending again: nothing but its removal
\* touches it.
HandledIsFinal ==
    [][\A k \in Keys : Handled(k) => Handled(k)' \/ ~Exists(k)']_vars

\* No regular request is locked while a request with a forefront orderNo could be
\* had instead, also when the forefront list was lost in a crash.
ForefrontFirst ==
    [][\A c \in Clients :
          op[c].kind = "fetch" /\ op'[c].kind = "lock" =>
              LET k == op'[c].key
              IN  files[k].order > 0 /\ inner[c].metadata.forefront[k] = 0 =>
                    \A j \in Keys : Pending(j) /\ files[j].order < 0 =>
                        IsLockedOrder(files[j].order, op[c].at)]_vars

\* No two clients hold a live lock on the same request.
MutualExclusion ==
    \A c, d \in Clients : \A k \in Keys : c # d => ~(Live(c, k) /\ Live(d, k))

\* As long as a client's lock lives, the file carries that very lock, unless a
\* consumer whose own lock had expired marked the request as handled: others
\* skip the request and prolong_request_lock can rely on what it finds.
LiveLockOnDisk ==
    \A c \in Clients, k \in Keys :
        Live(c, k) /\ op[c] = Idle => Handled(k) \/ (Exists(k) /\ files[k].order = inner[c].held[k])

\* No request is handed out while some client holds a live lock on it.
NoRedelivery ==
    [][\A c \in Clients : op[c].kind = "deliver" /\ inner'[c].held # inner[c].held =>
          \A d \in Clients : ~Live(d, op[c].key)]_vars

\* A request file says pending and handled in one voice: orderNo is null exactly
\* when handledAt is set, whatever calls of other clients came in between.
FilesCoherent ==
    \A k \in Keys : Exists(k) => (files[k].handledAt <=> files[k].order = None)

\* A lock on disk is at most one lock window ahead of the clock, whoever took it:
\* a crashed client stalls a request for no longer.
StallBounded ==
    \A k \in Keys : Pending(k) /\ files[k].order # None =>
        \E window \in Raises \cup {LockMillis} : ~IsLockedOrder(files[k].order, now + window)

\* Every call ends, whatever other clients do to the files it works through.
CallsEnd == \A c \in Clients : op[c] \notin {Idle, Closed} ~> op[c] \in {Idle, Closed}

\* Every pending request is handled in the end, in spite of crashes and of other
\* clients fetching at the same time.
EventuallyHandled == \A k \in Keys : Pending(k) ~> Handled(k)

=============================================================================
