-------------------------------- MODULE Dataset --------------------------------
(***************************************************************************)
(* FileSystemDatasetClient (crawlee-storage/src/dataset.rs): items pushed  *)
(* one after another into numbered files, next to a metadata file whose    *)
(* itemCount says which number comes next after the dataset is reopened.   *)
(*                                                                         *)
(* push_data and purge hold the client's mutex for the whole call.         *)
(* get_data holds it only to list the files and again to write the         *)
(* metadata, so it reads the files while other calls change them, and      *)
(* drop_storage never takes it.                                            *)
(***************************************************************************)
EXTENDS Integers, SequencesExt, FiniteSetsExt

CONSTANTS
    Clients,        \* client instances
    Absent,         \* no such file
    NoLimit,        \* limit: None
    Batches,        \* the arrays given to push_data: an item is TRUE if it is {}
    Readings,       \* the iterations callers make: limit, page size, desc, skip_empty
    Ops,            \* the operations callers use
    MaxItem,        \* bound: on item numbers
    MaxStamp,       \* bound: on the items ever pushed
    MaxFaults,      \* bound: crashes and failed file-system operations
    FaultKinds      \* "crash", a failed "write", "remove" or "read" of a file

ASSUME CallsAssumption ==
    /\ Batches \subseteq Seq(BOOLEAN)
    /\ Ops \subseteq {"push", "purge", "drop", "read"}
    /\ Readings \subseteq [limit : Nat \cup {NoLimit}, size : Nat \ {0}, desc : BOOLEAN, skip : BOOLEAN]
ASSUME BoundsAssumption ==
    /\ {MaxItem, MaxStamp, MaxFaults} \subseteq Nat
    /\ FaultKinds \subseteq {"crash", "write", "remove", "read"}

VARIABLES
    files,      \* the item files, by number
    disk,       \* item_count in the metadata file
    count,      \* item_count in each client's memory
    op,         \* the call that holds each client's mutex
    reader,     \* the iteration each client's callers are in
    stamp,      \* how many items were ever pushed; tells them apart
    acked,      \* the items of calls that ended well, until a purge or a drop begins
    beyond,     \* the files found past item_count when the dataset was opened
    faults      \* faults so far

vars == <<files, disk, count, op, reader, stamp, acked, beyond, faults>>

Numbers == 1 .. MaxItem
Items == [stamp : Nat, empty : BOOLEAN]
ASSUME SentinelAssumption == NoLimit \notin Nat /\ Absent \notin Nat \cup Items

Pushes == [kind : {"push"}, batch : Seq(BOOLEAN), wrote : SUBSET Nat]
Purges == [kind : {"purge"}, todo : SUBSET Numbers]
Calls == [kind : {"closed", "create", "idle", "persist"}] \cup Pushes \cup Purges

\* "list", "read" and "touch" are the parts of get_data.  "how" is the caller's
\* reading, "taken" what it was given so far, "left" what it still wants, "before"
\* the items that were there when it began.
Pages ==
    [kind : {"list", "read", "touch", "done"}, how : Readings, offset : Nat,
     left : Nat \cup {NoLimit}, todo : SUBSET Numbers, read : Seq(Items),
     taken : Seq(Items), before : SUBSET Nat]
Iterations == [kind : {"idle"}] \cup Pages

-------------------------------------------------------------------------------
(* Helpers *)

Closed == [kind |-> "closed"]
Idle == [kind |-> "idle"]

Exists(i) == files[i] # Absent
Present == {i \in Numbers : Exists(i)}
StampsIn(fs) == {fs[i].stamp : i \in {j \in Numbers : fs[j] # Absent}}

MutexFree(c) == op[c] = Idle
IsOpen(c) == op[c].kind \notin {"closed", "create"}

Go(c, call) == op' = [op EXCEPT ![c] = call]
WriteItem(i, item) == files' = [files EXCEPT ![i] = item]
WriteMetadata(c) == disk' = count[c]

-------------------------------------------------------------------------------
(* open_with_clock *)

Open(c) ==
    /\ op[c] = Closed
    /\ Go(c, IF disk = Absent THEN [kind |-> "create"] ELSE Idle)
    /\ count' = [count EXCEPT ![c] = IF disk = Absent THEN 0 ELSE disk]
    /\ beyond' = {i \in Present : i > count'[c]}
    /\ UNCHANGED <<files, disk, reader, stamp, acked, faults>>

Create(c) ==
    /\ op[c].kind = "create"
    /\ WriteMetadata(c)
    /\ Go(c, Idle)
    /\ UNCHANGED <<files, count, reader, stamp, acked, beyond, faults>>

-------------------------------------------------------------------------------
(* push_data *)

Push(c) ==
    /\ "push" \in Ops
    /\ MutexFree(c)
    /\ \E batch \in Batches :
          /\ count[c] + Len(batch) <= MaxItem
          /\ stamp + Len(batch) <= MaxStamp
          /\ Go(c, [kind |-> "push", batch |-> batch, wrote |-> {}])
    /\ UNCHANGED <<files, disk, count, reader, stamp, acked, beyond, faults>>

\* Mutant of CountAfter: item_count moves on only with the last item of a batch.
CountAfterBatch(c) == IF Len(op[c].batch) = 1 THEN count[c] + 1 ELSE count[c]

\* item_count moves on with every item written.
CountAfter(c) == count[c] + 1

PushItem(c) ==
    /\ op[c].kind = "push"
    /\ op[c].batch # << >>
    /\ stamp' = stamp + 1
    /\ WriteItem(count[c] + 1, [stamp |-> stamp', empty |-> Head(op[c].batch)])
    /\ count' = [count EXCEPT ![c] = CountAfter(c)]
    /\ Go(c, [op[c] EXCEPT !.batch = Tail(@), !.wrote = @ \cup {stamp'}])
    /\ beyond' = beyond \ {count[c] + 1}
    /\ UNCHANGED <<disk, reader, acked, faults>>

\* Mutant of PushDone: the metadata is not saved.
PushDoneUnsaved(c) ==
    /\ op[c].kind = "push"
    /\ op[c].batch = << >>
    /\ acked' = acked \cup op[c].wrote
    /\ Go(c, Idle)
    /\ UNCHANGED <<files, disk, count, reader, stamp, beyond, faults>>

PushDone(c) ==
    /\ op[c].kind = "push"
    /\ op[c].batch = << >>
    /\ WriteMetadata(c)
    /\ acked' = acked \cup op[c].wrote
    /\ Go(c, Idle)
    /\ UNCHANGED <<files, count, reader, stamp, beyond, faults>>

-------------------------------------------------------------------------------
(* purge and drop_storage.  Nothing written before they began is owed after, nor *)
(* anything to the iterations they run into.                                     *)

OweNothing ==
    reader' = [c \in Clients |->
                  IF reader[c].kind = "idle" THEN reader[c] ELSE [reader[c] EXCEPT !.before = {0}]]

Purge(c) ==
    /\ "purge" \in Ops
    /\ MutexFree(c)
    /\ Go(c, [kind |-> "purge", todo |-> Present])
    /\ acked' = {}
    /\ OweNothing
    /\ UNCHANGED <<files, disk, count, stamp, beyond, faults>>

PurgeNext(c, i) == op[c].kind = "purge" /\ i \in op[c].todo /\ \A j \in op[c].todo : i <= j

PurgeFile(c, i) ==
    /\ PurgeNext(c, i)
    /\ Exists(i)
    /\ WriteItem(i, Absent)
    /\ Go(c, [op[c] EXCEPT !.todo = @ \ {i}])
    /\ UNCHANGED <<disk, count, reader, stamp, acked, beyond, faults>>

\* A file that is gone ends the call with an error, item_count as it was.
PurgeStops(c, i) ==
    /\ PurgeNext(c, i)
    /\ ~Exists(i)
    /\ Go(c, Idle)
    /\ UNCHANGED <<files, disk, count, reader, stamp, acked, beyond, faults>>

PurgeDone(c) ==
    /\ op[c].kind = "purge"
    /\ op[c].todo = {}
    /\ count' = [count EXCEPT ![c] = 0]
    /\ Go(c, [kind |-> "persist"])
    /\ UNCHANGED <<files, disk, reader, stamp, acked, beyond, faults>>

Persist(c) ==
    /\ op[c].kind = "persist"
    /\ WriteMetadata(c)
    /\ Go(c, Idle)
    /\ UNCHANGED <<files, count, reader, stamp, acked, beyond, faults>>

\* drop_storage runs in the middle of any call; what is pushed after it stays.
DropStorage(c) ==
    /\ "drop" \in Ops
    /\ IsOpen(c)
    /\ files' = [i \in Numbers |-> Absent]
    /\ disk' = Absent
    /\ acked' = {}
    /\ op' = [d \in Clients |-> IF op[d].kind = "push" THEN [op[d] EXCEPT !.wrote = {}] ELSE op[d]]
    /\ OweNothing
    /\ UNCHANGED <<count, stamp, beyond, faults>>

-------------------------------------------------------------------------------
(* get_data, page by page as a caller of iterate_items_page does it *)

StartReading(c) ==
    /\ "read" \in Ops
    /\ IsOpen(c)
    /\ reader[c].kind \in {"idle", "done"}
    /\ \E how \in Readings :
          reader' = [reader EXCEPT ![c] =
              [kind |-> "list", how |-> how, offset |-> 0, left |-> how.limit, todo |-> {},
               read |-> << >>, taken |-> << >>, before |-> StampsIn(files)]]
    /\ UNCHANGED <<files, disk, count, op, stamp, acked, beyond, faults>>

ListFiles(c) ==
    /\ reader[c].kind = "list"
    /\ MutexFree(c)
    /\ reader' = [reader EXCEPT ![c] = [reader[c] EXCEPT !.kind = "read", !.todo = Present, !.read = << >>]]
    /\ UNCHANGED <<files, disk, count, op, stamp, acked, beyond, faults>>

\* The files are read in the order of their numbers.
ReadNext(c, i) == reader[c].kind = "read" /\ i \in reader[c].todo /\ \A j \in reader[c].todo : i <= j

\* A file that vanished is logged and left out.
ReadFile(c, i) ==
    /\ ReadNext(c, i)
    /\ reader' = [reader EXCEPT ![c] =
           [reader[c] EXCEPT
               !.todo = @ \ {i},
               !.read = IF ~Exists(i) \/ (reader[c].how.skip /\ files[i].empty)
                        THEN @ ELSE Append(@, files[i])]]
    /\ UNCHANGED <<files, disk, count, op, stamp, acked, beyond, faults>>

FilesRead(c) ==
    /\ reader[c].kind = "read"
    /\ reader[c].todo = {}
    /\ reader' = [reader EXCEPT ![c] = [reader[c] EXCEPT !.kind = "touch"]]
    /\ UNCHANGED <<files, disk, count, op, stamp, acked, beyond, faults>>

\* Mutant of FetchLimit: a full page although the caller wants less.
FetchLimitFull(r) == r.how.size

\* A page never holds more than the caller still wants.
FetchLimit(r) == IF r.left # NoLimit /\ r.left < r.how.size THEN r.left ELSE r.how.size

Slice(s, offset, limit) ==
    SubSeq(s, Min({offset, Len(s)}) + 1, Min({offset + limit, Len(s)}))

\* Mutant of Page: the items are reversed after the page is cut out of them.
PageReversedLate(r) ==
    LET page == Slice(r.read, r.offset, FetchLimit(r))
    IN  IF r.how.desc THEN Reverse(page) ELSE page

\* All items that were read, reversed for desc, and then cut to the page.
Page(r) == Slice(IF r.how.desc THEN Reverse(r.read) ELSE r.read, r.offset, FetchLimit(r))

\* Mutant of HasMore: the caller's limit is not looked at.
HasMoreUnlimited(r, returned) == r.offset + returned < Len(r.read)

HasMore(r, returned) ==
    /\ r.offset + returned < Len(r.read)
    /\ r.left # NoLimit => returned < r.left

\* The caller's next step: on to the next page, or done.
AfterPage(r) ==
    LET returned == Len(Page(r))
    IN  [r EXCEPT !.kind = IF HasMore(r, returned) THEN "list" ELSE "done",
                  !.offset = @ + returned,
                  !.left = IF @ = NoLimit THEN NoLimit ELSE @ - returned,
                  !.read = << >>,
                  !.taken = @ \o Page(r)]

\* The metadata write at the end of get_data saves item_count too.
TouchMetadata(c) ==
    /\ reader[c].kind = "touch"
    /\ MutexFree(c)
    /\ WriteMetadata(c)
    /\ reader' = [reader EXCEPT ![c] = AfterPage(reader[c])]
    /\ UNCHANGED <<files, count, op, stamp, acked, beyond, faults>>

-------------------------------------------------------------------------------
(* Faults *)

MayFault(kind) == kind \in FaultKinds /\ faults < MaxFaults /\ faults' = faults + 1

\* The process dies, or its caller lets go of the client and opens another.
Crash(c) ==
    /\ MayFault("crash")
    /\ op[c] # Closed
    /\ Go(c, Closed)
    /\ count' = [count EXCEPT ![c] = 0]
    /\ reader' = [reader EXCEPT ![c] = Idle]
    /\ UNCHANGED <<files, disk, stamp, acked, beyond>>

\* The call ends with an error where it stands, open without a client.
WriteFails(c) ==
    /\ MayFault("write")
    /\ op[c].kind \in {"create", "push", "persist"}
    /\ Go(c, IF op[c].kind = "create" THEN Closed ELSE Idle)
    /\ UNCHANGED <<files, disk, count, reader, stamp, acked, beyond>>

\* get_data answers an error although it has read everything.
TouchFails(c) ==
    /\ MayFault("write")
    /\ reader[c].kind = "touch"
    /\ MutexFree(c)
    /\ reader' = [reader EXCEPT ![c] = Idle]
    /\ UNCHANGED <<files, disk, count, op, stamp, acked, beyond>>

RemoveFails(c) ==
    /\ MayFault("remove")
    /\ op[c].kind = "purge"
    /\ op[c].todo # {}
    /\ Go(c, Idle)
    /\ UNCHANGED <<files, disk, count, reader, stamp, acked, beyond>>

\* A file that cannot be read is left out, and the iteration owes nothing any more.
ReadFails(c, i) ==
    /\ MayFault("read")
    /\ ReadNext(c, i)
    /\ reader' = [reader EXCEPT ![c] = [reader[c] EXCEPT !.todo = @ \ {i}, !.before = {0}]]
    /\ UNCHANGED <<files, disk, count, op, stamp, acked, beyond>>

-------------------------------------------------------------------------------
(* The specification *)

Init ==
    /\ files = [i \in Numbers |-> Absent]
    /\ disk = Absent
    /\ count = [c \in Clients |-> 0]
    /\ op = [c \in Clients |-> Closed]
    /\ reader = [c \in Clients |-> Idle]
    /\ stamp = 0
    /\ acked = {}
    /\ beyond = {}
    /\ faults = 0

Start(c) == Open(c) \/ Push(c) \/ Purge(c) \/ DropStorage(c) \/ StartReading(c)

Writing(c) ==
    \/ Create(c) \/ PushItem(c) \/ PushDone(c) \/ PurgeDone(c) \/ Persist(c)
    \/ \E i \in Numbers : PurgeFile(c, i) \/ PurgeStops(c, i)

Reading(c) ==
    \/ ListFiles(c) \/ FilesRead(c) \/ TouchMetadata(c)
    \/ \E i \in Numbers : ReadFile(c, i)

Fail(c) ==
    \/ Crash(c) \/ WriteFails(c) \/ TouchFails(c) \/ RemoveFails(c)
    \/ \E i \in Numbers : ReadFails(c, i)

Next == \E c \in Clients : Start(c) \/ Writing(c) \/ Reading(c) \/ Fail(c)

Spec == Init /\ [][Next]_vars

\* A call that has begun goes on, and the mutex is handed on in the order of waiting.
FairSpec == Spec /\ \A c \in Clients : WF_vars(Writing(c)) /\ SF_vars(Reading(c))

-------------------------------------------------------------------------------
(* Properties *)

\* Every variable keeps the shape of the code's data.
TypeOK ==
    /\ files \in [Numbers -> Items \cup {Absent}]
    /\ disk \in 0 .. MaxItem \cup {Absent}
    /\ count \in [Clients -> 0 .. MaxItem]
    /\ op \in [Clients -> Calls]
    /\ reader \in [Clients -> Iterations]
    /\ stamp \in Nat
    /\ acked \subseteq Nat
    /\ beyond \subseteq Numbers
    /\ faults \in Nat

\* An item whose push_data ended well stays in its file until a purge or a drop
\* begins, whatever crashes, failed calls, half-done purges and reopenings follow.
AcknowledgedKept == acked \subseteq StampsIn(files)

\* The only item files that are ever written over are those a crashed or failed
\* push left past the item_count that was saved: a batch or a purge that fails
\* half way never makes the client reuse a number.
OverwritesOnlyBeyond ==
    [][\A i \in Numbers : Exists(i) /\ files'[i] \notin {files[i], Absent} => i \in beyond]_vars

\* How many numbers of a set are at most i, and its n-th smallest number.
Rank(S, i) == Cardinality({j \in S : j <= i})
Nth(S, n) == CHOOSE i \in S : Rank(S, i) = n

\* The items of some files in the order of their numbers.
ItemsOf(fs, S) == [n \in 1 .. Cardinality(S) |-> fs[Nth(S, n)]]

\* The items of the dataset, for a reader with or without skip_empty.
Shown(skip) == {i \in Present : ~(skip /\ files[i].empty)}
Stored(skip) == ItemsOf(files, Shown(skip))

\* What was there when the iteration began, and what it gave its caller, is still
\* there, and no item was pushed in front of those that a failed purge left.
Undisturbed(r) ==
    /\ r.before \cup {r.taken[n].stamp : n \in DOMAIN r.taken} \subseteq StampsIn(files)
    /\ \A i, j \in Present : i < j => files[i].stamp < files[j].stamp

\* An iteration that goes on while items are pushed and none is removed gives its
\* caller what it asked for: in ascending order exactly the first items of the dataset, none twice; in
\* descending order the last ones if nothing was pushed; in either order every item
\* that was there when it began, unless the limit is reached.
IterationExact ==
    \A c \in Clients : LET r == reader[c] IN
        r.kind = "done" /\ Undisturbed(r) =>
            /\ ~r.how.desc => IsPrefix(r.taken, Stored(r.how.skip))
            /\ r.how.desc /\ r.before = StampsIn(files) => IsPrefix(r.taken, Reverse(Stored(r.how.skip)))
            /\ \/ r.left = 0
               \/ \A n \in DOMAIN Stored(r.how.skip) :
                     LET item == Stored(r.how.skip)[n]
                     IN  item.stamp \in r.before => Contains(r.taken, item)
            /\ r.how.limit = NoLimit \/ Len(r.taken) <= r.how.limit

\* Every iteration comes to an end.
IterationEnds == \A c \in Clients : reader[c].kind \in {"list", "read", "touch"} ~> reader[c].kind \in {"idle", "done"}

\* The items of the calls that ended well, in the order of their files.
AcknowledgedItems == ItemsOf(files, {i \in Present : files[i].stamp \in acked})

Log == INSTANCE ItemLog WITH log <- AcknowledgedItems

\* The numbered files and the saved item_count implement a log: whatever crashes,
\* fails and is reopened, acknowledged items keep their place and new ones follow.
ImplementsItemLog == Log!Spec

=============================================================================
