# A formal model of crawlee-storage

TLA+ modules that model the file-system storage clients of
`src/crawlee-storage` (a Rust crate with bindings for Node.js and Python), the TLC
configurations that check them on small instances, and TLAPS proofs about them.
Paths below are relative to `src/crawlee-storage/src/` unless they say otherwise.

1. [The system](#1-the-system)
2. [The modules](#2-the-modules)
3. [The runs](#3-the-runs)
4. [Fairness](#4-fairness)
5. [The proofs](#5-the-proofs)
6. [Where the code and its comments disagree](#6-where-the-code-and-its-comments-disagree)
7. [What is abstracted and what is left out](#7-what-is-abstracted-and-what-is-left-out)
8. [Plan](#8-plan)

## 1. The system

| Part | Source | State | Operations |
|---|---|---|---|
| Request queue | `request_queue.rs` | one JSON file per request, `__metadata__.json`; in memory an index, the held locks, the forefront list, a copy of the metadata | open with `rebuild_index`, `add_batch_of_requests`, `fetch_next_request`, `mark_request_as_handled`, `reclaim_request`, `prolong_request_lock`, `purge`, `drop_storage` |
| Dataset | `dataset.rs` | numbered item files, `__metadata__.json`; in memory a copy of the metadata with `item_count` | open, `push_data`, `get_data`, `iterate_items_page`, `purge`, `drop_storage` |
| Key-value store | `key_value_store.rs` | value files, each with a sidecar record, `__metadata__.json` | open with adoption, `set_value`, `finalize_streamed_value`, `get_value`, `read_value`, `resolve_value`, `resolve_existing_key`, `record_exists`, `get_public_url`, `delete_value`, `list_keys`, `iterate_keys_page`, `purge`, `drop_storage` |
| Opening storages | `utils.rs`, the `open_with_clock` of each client | the directories and their metadata files; each client's copy of the metadata | find by id, create by name or alias, `validate_subdirectory`, `atomic_write`, the write-back that ends most calls, `drop_storage` |
| Clock | `clock.rs` | the time each client reads; the offset of a `TestClock` | `now`, `now_millis`, `advance` |
| Data types | `models.rs` | none | serialization |
| Bindings | `src/crawlee-storage-node`, `src/crawlee-storage-python` | the `TestClock` of a client; in `lib.js` a `setValueStream` under way | convert arguments and results of the same calls; access mode, test clock, streams; a stub generator |

**How they interact.** A client object owns one directory. All durable state is in
files; a file is replaced by `atomic_write`, a temporary file and a rename, so it is seen
whole or not at all, but nothing ties two files together. Every client has a tokio
mutex. The request queue holds it for a whole call, the dataset for a push, a purge
and the listing of a read, the key-value store only for its own metadata file and for
a purge. `drop_storage` removes the directory before (request queue) or without
(dataset, key-value store) taking the mutex. Several processes may open the same
request queue; they have only the files in common, and coordinate through the signed
`orderNo` in each request file: its magnitude is a time, in the future for a lock; its
sign says regular or forefront; null says handled.

**What is hard about it.**

| Behaviour | Request queue | Dataset | Key-value store |
|---|---|---|---|
| Interleaving | calls of clients of several processes, file by file; `drop_storage` in the middle of a call | reads beside pushes and removals; `drop_storage` in the middle of a push | every call beside every other one; only `purge` excludes some |
| Stale state | each client's index against the files others write | the listing of a page against later removals; two pages against pushes between them | sidecars that `set_value`, `purge` and a sweep read before they act; the cursor of a listing |
| Crash, failed operation | between the request file and the metadata file; in the middle of a batch, a purge or a rebuild | between item files and metadata; in the middle of a batch or a purge | between value and sidecar; while a key is rebound; in the middle of an adoption |
| Time | locks that expire under a slow consumer, late marks and reclaims, a longer lock time; clocks of several machines, and a test's clock that moves back | none | none |
| Names | none | none | keys, encoded names, bound filenames, sidecars and temporary files share one directory, with the files of other programs |
| Progress | a request must be handled in the end | an iteration must end | none beyond its calls |

Opening is hard in a way of its own: nothing locks a directory, so that two clients may
create it at the same time, search it while it is rewritten, and drop it under each other.

**What makes each part correct.**

- *Request queue*: no two clients work on a request at a time; a handled request stays
  handled; a lock outlives no more than one lock window; the index and the counters
  agree with the files; forefront requests come first; every request is handled in
  the end.
- *Dataset*: an acknowledged item is never lost and never written over; an iteration
  gives the items in order, each once, with the limit, direction and `skip_empty` asked
  for, and ends.
- *Key-value store*: a record whose write was acknowledged stays whole; a read returns
  the value and the metadata of one write; a listing misses no key; adoption never
  touches a record there is; all ways to find a record lead to the same file; the
  files together are a map from keys to values, whatever other programs leave in the
  directory.
- *Opening storages*: a name leads to one directory below its base; an id never stands
  for two directories; a search finds what was there all the time; clients of one
  directory agree on whose it is, unless they created it against each other.
- *Clocks*: clocks that disagree cost no more than the time they disagree by.

`PROJECT.json` lists the hazards line by line with the properties that cover each.

## 2. The modules

| Module | Stands for | Lines |
|---|---|---|
| `OrderNo` | the arithmetic of `orderNo` | 39 |
| `RequestQueue` | `FileSystemRequestQueueClient`, file operation by file operation | 877 |
| `MCRequestQueue` | its instances: batches, durations, symmetry | |
| `RequestQueueProofs`, `RequestQueueLockProofs`, `RequestQueueSoleProofs` | its theorems: the shape of the state, the files, the locks, a client on its own | |
| `RequestLocks`, `MCRequestLocks`, `RequestLocksProofs` | the lock protocol of a request queue under several clocks, and the bindings' access modes and test clocks; its instance, its theorems | 300 |
| `Dataset`, `MCDataset`, `DatasetProofs` | `FileSystemDatasetClient`, its instances, its theorems | 423 |
| `ItemLog` | what a dataset promises: a log | 24 |
| `KeyValueStore`, `MCKeyValueStore`, `KeyValueStoreProofs` | `FileSystemKeyValueStoreClient`, file operation by file operation; its instances, its theorems | 607 |
| `KeyValueDirectory` | what each call of a key-value store makes of its directory, over names | 357 |
| `Patterns` | `matches_pattern`, `validate_pattern` | 48 |
| `KeyValueFiles`, `MCKeyValueFiles`, `KeyValueFilesProofs` | long histories of a key-value store, made of `KeyValueDirectory`; their instance, their theorems, also about the operators of `KeyValueDirectory` and `Patterns` | 436 |
| `KeyValueMap` | what a key-value store promises: a map | 40 |
| `StorageOpen`, `MCStorageOpen`, `StorageOpenProofs` | opening, creating, searching and dropping storages; its instance, its theorems | 398 |

`RequestQueue`, `Dataset`, `KeyValueStore` and `StorageOpen` are cut in the same way. A call is a record in a variable
(`op`, `reader`, `task`) whose `kind` says what the call does next; an action is the part
of a call that ends with one file-system operation, with all changes of memory that
follow it. Between two actions anything else may happen that the mutex does not exclude. Faults
are actions of their own: a *crash* clears a client's memory and leaves the files, a
*failed write*, *removal* or *read* does what the code's error path does at that point.
`MCxxx` modules only name values for constants; a cfg never replaces a definition.

`RequestLocks` and `KeyValueFiles` take a whole call for one step instead, and look at what
the finer modules leave out: several clocks, and what names and long histories do.
Both levels are needed: interleaved file operations multiply the states by so much that the
names and the clocks have no room beside them.

Two modules are abstract specifications, instantiated by the detailed ones and checked as
properties: `Dataset` implements `ItemLog` (`ImplementsItemLog`: the log is the acknowledged
items in the order of their files), and `KeyValueFiles` implements `KeyValueMap`
(`ImplementsKeyValueMap`: the map is what `get_value` reads for each key).

### RequestQueue

State: `files` (request files: orderNo and whether handledAt is set), `disk` (metadata
file), and for each client `inner` (the index with orderNo and insertion number, the held
locks, the metadata with the forefront list and the counters, the lock time), `op` (the
call in progress), `working` (requests its callers were handed), `dropping`; `now` is the
clock all clients read.

| Actions | Code |
|---|---|
| `Open`, `Create`, `List`, `Clear`, `Rebuild`, `Rewrite`, `RebuildDone`, `Ready` | `open_with_clock`, `rebuild_index` with both values of `assume_sole_owner` |
| `AddBatch`, `AddMalformed`, `AddSkip`, `AddItem`, `AddWrite`, `AddDone` | `add_batch_of_requests`: dedup by the index, forefront moves, files one by one, a malformed item half way |
| `Fetch`, `FetchVanished`, `FetchSkip`, `FetchFree`, `FetchLock`, `Deliver`, `FetchNothing` | `fetch_next_request`: candidates in order, each file read, locked, metadata saved |
| `Mark`, `Reclaim`, `Prolong`, `ProlongRefused` with `MarkWrite`, `ReclaimWrite`, `ProlongWrite` | the calls on a request in progress, also late ones |
| `Raise`, `Touch` | `set_expected_request_processing_time`; `get_request` and `is_empty`, which save metadata |
| `Purge`, `PurgeFile`, `PurgeFails`, `PurgeDone`, `DropDirectory`, `DropClear`, `Persist` | `purge`, `drop_storage` in its two halves, the metadata write that ends most calls |

`working` and `GiveUp` are the callers: a caller marks or reclaims a request it was
handed, also after its lock expired if `Late` says so, or forgets it.

### Dataset

State: `files` (item files 1 to `MaxItem`, each a stamp and whether the item is `{}`), `disk`
(the saved `item_count`), `count` and `op` per client, `reader` (the iteration a caller is
in, page by page). `acked` and `beyond` are history: the items whose push ended well, and
the item files that were found past the saved count when the dataset was opened.

`Push`/`PushItem`/`PushDone` model `push_data`, `StartReading`/`ListFiles`/`ReadFile`/
`FilesRead`/`TouchMetadata` one `get_data` after the other as `iterate_items_page` chains
them, with its offset, limit and `has_more`; `Purge`/`PurgeFile`/`PurgeStops`/`PurgeDone`,
`DropStorage`, `Open`/`Create`/`Persist` the rest.

### KeyValueStore

State: `values` (which write each value file holds), `sidecars` (whose metadata each states
and the file it binds), `store` (is the metadata file there), `client` (closed, in one of
the stages of opening, open), `task` (the call of each concurrent caller). `kept` is history:
the write each key is owed. A key is owed a write from the moment a `set_value` that had
nothing else on its key or its files beside it ends well, until another change of them,
a purge that does not keep it, or a drop begins.

| Actions | Code |
|---|---|
| `SetValue`, `Unbind`, `WriteValue`, `WriteSidecar`, `SetDone` | `prepare_write` reads the sidecar, the old file of a rebound key goes, value, sidecar, metadata; `finalize_streamed_value` goes the same way |
| `DeleteValue`, `LookForValue`, `RemoveValue`, `LookForSidecar`, `RemoveSidecar`, `DeleteDone` | `delete_value`, looking before removing |
| `ReadValue`, `FindRecord`, `StatValue`, `ReadBytes` | `get_value`, `read_value` |
| `ListKeys`, `ListPage`, `ScanKey`, `PageDone`, `CursorLost` | `iterate_keys_page`, `list_keys`: list, read the sidecars in order, one key more than the page |
| `Purge`, `PurgeValue`, `PurgeSidecar`, `PurgeTemporary`, `PurgeDone`, `DropStorage` | `purge` with the keys to keep, `drop_storage` |
| `Open`, `Create`, `ListForAdoption`, `AdoptForKey`, `NothingToAdopt`, `Ambiguous`, `StartSweep`, `Sweep`, `OpenDone` | opening with `Key` candidates and sweeps |
| `OutsideWrite` | somebody copies a file into the directory (external) |

### RequestLocks

State: `time` of the world, `order` (the orderNo in the file of the one request), `client` (closed,
or the offset of its clock, its lock window, its index entry, its entry in `held_locks`, and
whether its caller has the request). `last` and `overridden` are history: who gave the file
its orderNo, and whose lock was overwritten by something else than a fetch.

| Actions | Code |
|---|---|
| `OpenQueue`, `Close` | open with `requestQueueAccess` and a clock; `MustReclaim` in `rebuild_index` |
| `AdvanceClock` | `advance_test_clock`, `TestClock::advance` |
| `Add`, `FetchSkips`, `Fetch`, `GiveUp`, `Mark`, `Reclaim` | the calls, also late ones, each on its own clock |
| `Prolong`, `ProlongRefused`, `SetExpected` | `prolong_request_lock`, `set_expected_request_processing_time` with the durations the bindings let through |

### KeyValueDirectory and KeyValueFiles

`KeyValueDirectory` has no state. Its operators take a directory, a function from names to
contents, and give a call's answer (`GetValue`, `ResolveValue`, `ResolveExistingKey`, `RecordExists`,
`PublicFile`, `ListKeys`) or the directory after it (`Recorded`, `DeleteValue`, `PurgeFiles`, `AdoptFiles`).
A name is a sequence of letters, a letter being whatever the code looks at as a whole: a
character, the suffix of a sidecar, an escape. Percent-encoding maps letters to letters and
changes their order, as in the code; a decoded name is what a listing sorts by.

`KeyValueFiles` adds the history. State: `dir`, `open`, `stream` (a `setValueStream` under way, chunk by
chunk), `lengths` (of the values ever written). `SetValue`, `Delete`, `Purge`, `DropStorage`, `Read` are the calls,
`StartStream`, `StreamChunk`, `StreamFails`, `Finalize`, `FinalizeRefused`, `FinalizeFails` the stream of `lib.js` with
`finalize_streamed_value`, `OpenStore` the opening with candidates, `Exit` the end of the process.
`OutsideWrite`, `ForeignWrite` and `Spoil` are other programs: they add a value under a name nobody
has, a record whose sidecar states no size, a sidecar that does not parse.

### StorageOpen

State: `dirs`, `meta` and `temps` (the directories, the metadata file and the temporary files in each), `op`
(what each client does, with its copy of the metadata), `lastId`, `contested` (history: directories
created anew while another client had them open).

| Actions | Code |
|---|---|
| `RejectArgs`, `OpenNamed`, `Search`, `Inspect`, `NotFound` | `validate_exclusive_args`, `validate_subdirectory`, `find_storage_by_id` one directory after the other |
| `MetadataExists`, `Load`, `LoadVanished`, `BeginCreate` | looking for the metadata file, reading it, creating it |
| `WriteBack`, `CreateDir`, `WriteTemp`, `Rename`, `WriteLost`, `WriteFails` | `atomic_write`, step by step, of an open or of any later call |
| `DropFiles`, `DropDir`, `Crash` | `drop_storage` (`remove_dir_all` in two steps); the end of a process |

`NormalizeLexically` and `IsSubdirectory` are `normalize_lexically` and the test that follows it, over paths
as sequences of components.

## 3. The runs

A bound is named in the module (`MaxTime`, `MaxStamp`, `MaxFaults`, ...) and only appears in
guards of actions that would pass it. State counts are distinct states.

| Run | Instance | Checks | States |
|---|---|---|---|
| `rq_sole` | 1 client, 2 requests, both access modes; batches with a duplicate, with a request that arrives handled followed by a malformed item, and a forefront move; late calls, purge, prolongation; 1 crash or failed write; 3 time units | `IndexAgreesWithFiles`, `FetchableIsCandidate` (with `SoleOwnerTakesAll`), `PersistedCountsExact`, `HandledIsFinal`, `ForefrontFirst` | 945,109 |
| `rq_serial` | 2 clients whose calls do not overlap, 1 request, 1 producer; late marks, reclaims, prolongation, longer lock time, 1 crash | `MutualExclusion`, `LiveLockOnDisk`, `NoRedelivery` | 751,588 |
| `rq_shared` | 2 clients that interleave file by file, both adding, marking and reclaiming late; 1 crash, failed write or failed read | `FilesCoherent`, `StallBounded` | 960,750 |
| `rq_removal` | the same with purge and drop in the middle of calls, failed removals | `TypeOK`, `CallsEnd` | 145,070 |
| `rq_live` | 2 clients fetch and mark 1 request, 1 crash up to time 2 of 4 | `EventuallyHandled` | 78,651 |
| `rq_clocks` | 2 clients, 1 request; the clock of one is moved between 1 behind and 1 ahead at any time; both access modes, reopening, late calls, lock windows of 1 and 2, prolongation by 0 or 1; 2 time units | `TypeOK`, `OverlapWithinSkew`, `FreeWithinSkew`, `ProlongOnlyOwn` | 823,660 |
| `ds` | 1 client, batches of one and two with ordinary and empty items, 3 item files, purge, drop, 2 faults of every kind; iterations with several limits, pages of 1 or 2, both directions, with and without `skip_empty`, beside all of it | `TypeOK`, `AcknowledgedKept`, `IterationExact`, `OverwritesOnlyBeyond`, `IterationEnds`, `ImplementsItemLog` | 403,169 |
| `kv_store` | 2 callers, the keys INPUT (which may live in `INPUT` or `input.json`) and `data.json`, pages of one key, adoption by key and by sweep, files from outside, 3 values written, 1 fault of any kind, every operation | `TypeOK`, `AcknowledgedKept`, `ReadExact`, `ListingExact` | 1,929,059 |
| `kv_files` | the keys `a`, `b/`, `b` and `b.j`; `a` may live in `a.j`, `b/` in the file `b`; streams to two bindings, one of them refused; a sweep `b*`, `*` given before a key with two declared files; files and sidecars from outside; 3 values ever written, with `SizeLimit` 2 in place of 2^32 | `TypeOK`, `WholeValues`, `SizesAgree`, `ResolutionAgrees`, `PagesComplete`, `PatternsAgree`, `AdoptionSound`, `ImplementsKeyValueMap` | 16,320 |
| `open` | 2 clients, 2 directories, 7 names that lead to one of them or nowhere, an alias, 3 ids, 1 crash or failed write | `TypeOK`, `NamesStayBelow`, `IdsNameOneDirectory`, `ClientsAgreeWithDisk`, `SearchMissesNothing` | 133,723 |
| `rq_double_fetch`, `kv_sweep` | the smallest instances that show the disagreements of section 6 | `MutualExclusion`, `SweepKeepsSidecars` | violated |

What the properties mean, in words, stands above each of them in the module. Why the
bounds are large enough:

- *Requests and clients.* The calls of different requests meet only in the order of
  candidates, the forefront list and the counters, which is what the two requests of
  `rq_sole` are for. A race on one request file needs two clients; nothing in the code
  counts clients.
- *Time.* With `LockMillis = 1`, three units are enough for a request to be locked, expire,
  be locked by another client and be given back late; `rq_live` has four so that a crash is
  followed by a whole lock window. In `rq_clocks` the clocks of two clients are up to one unit
  apart, as long as the shortest lock: apart by more, a lock is over before it is seen.
- *Faults.* One crash is followed by a reopening that finds what it left; `ds` has
  two, since the item files a first failure leaves uncounted meet a second one.
- *Items and pages.* Three items and pages of one and two put the limit within a page,
  at its end and past the last item, with pushes between any two pages.
- *Names.* The four keys of `kv_files` are chosen so that every clash the code speaks of
  happens: an encoded name that sorts differently from its key (`b%2F` and `b.j`), a file of one
  key that matches a rule of a sweep under another, an extension that turns one key into
  another. The names of `open` wind to the same child in three ways and out of the base in
  four.
- *Patterns.* `PatternsAgree` compares all patterns of up to four letters over two letters and both
  wildcards with all names of up to four letters: two stars with a letter behind each.
- *Values.* Three writes rebind a key, write it back and leave one for the other key.
  Pages of one key make every key but the last a cursor.

`rq_serial`, `rq_sole` and `rq_shared` choose between them what is true of which mode of use: with
overlapping calls `MutualExclusion` is false (`rq_double_fetch`), with a second producer or
late reclaims `HandledIsFinal` is, and with a forefront move of a request in progress
`NoRedelivery` is (section 6). `LiveLockOnDisk` allows that a
consumer whose own lock had expired marked the request as handled, which the code permits on
purpose. `OverlapWithinSkew` and `ProlongOnlyOwn` except a lock that was overwritten by a late
reclaim, a forefront move or a sole owner: after that the same expiry may be written a
second time, in the same millisecond, and the two cannot be told apart.

Every property has at least one mutant: an operator beside the definition it replaces, with
a plausible slip (a lock added to the old orderNo, a purge that forgets bindings, a
cursor that includes itself). TLC finds the property violated under each, so none of
them holds by the shape of the model.

Deadlock is checked in all passing runs.

## 4. Fairness

- `RunningSpec` (`rq_removal`): weak fairness of `Continue(c)`. A call that has begun is a
  future the runtime polls until it ends. Nothing is assumed of callers.
- `FairSpec` of the request queue (`rq_live`): also weak fairness of time and of reopening
  a closed client, and strong fairness of `Fetch(c)` and `Mark(c, k)`. A tokio mutex hands
  itself on in the order of waiting, so a call that callers keep asking for gets its turn
  although the mutex is taken again and again. Marking is not certain while a lock
  lives: the other client may take the request first, any number of times that the clock
  allows. Without fetching callers nothing is ever handled, so this much is
  assumed of them. No fairness is assumed of adding, giving up, reclaiming or faults.
- `FairSpec` of the dataset (`ds`): weak fairness of the parts of a push or a purge, strong
  fairness of the parts of an iteration, some of which wait for the same mutex.

`rq_clocks`, `kv_files` and `open` check safety only and assume nothing.

The bounds cut off behaviours, and liveness under a bound is a statement about the bounded
system: `MaxTime` stops the clock after the last lock has had time to expire, and `MaxItem`
stops the producer, without which an iteration may go on for ever, as in the code.

## 5. The proofs

TLAPS proves these for every value of the constants that the modules' `ASSUME`s allow,
thus for any number of clients, requests, items, keys, files and callers, any bounds
and every interleaving with crashes and failed operations.

| Theorem | Module | Says | Assumes besides |
|---|---|---|---|
| `TypeCorrect` | `RequestQueueProofs` | `Spec => []TypeOK` | |
| `FilesStayCoherent` | `RequestQueueProofs` | `Spec => []FilesCoherent` | no file without an orderNo at the start, no caller that reclaims with a handledAt of its own |
| `StallIsBounded` | `RequestQueueProofs` | `Spec => []StallBounded` | no caller prolongs a lock |
| `LocksExclude` | `RequestQueueLockProofs` | `Spec => []MutualExclusion` | `SerialUse` |
| `LiveLocksAreOnDisk` | `RequestQueueLockProofs` | `Spec => []LiveLockOnDisk` | `SerialUse` |
| `NothingRedelivered` | `RequestQueueLockProofs` | `Spec => NoRedelivery` | `SerialUse` |
| `IndexStaysInAgreement` | `RequestQueueSoleProofs` | `Spec => []IndexAgreesWithFiles` | `SoleUse` |
| `NothingFetchableIsMissed` | `RequestQueueSoleProofs` | `Spec => []FetchableIsCandidate` | `SoleUse` |
| `HandledStaysHandled` | `RequestQueueSoleProofs` | `Spec => HandledIsFinal` | `SoleUse` |
| `ForefrontComesFirst` | `RequestQueueSoleProofs` | `Spec => ForefrontFirst` | `SoleUse` |
| `PersistedCountsStayExact` | `RequestQueueSoleProofs` | `Spec => PersistedCountsExact` | `SoleUse`, `CountedAdds` |
| `TypeCorrect` | `RequestLocksProofs` | `Spec => []TypeOK` | |
| `OverlapStaysWithinSkew` | `RequestLocksProofs` | `Spec => []OverlapWithinSkew` | |
| `FreeStaysWithinSkew` | `RequestLocksProofs` | `Spec => []FreeWithinSkew` | |
| `OnlyOwnProlonged` | `RequestLocksProofs` | `Spec => ProlongOnlyOwn` | |
| `TypeCorrect` | `DatasetProofs` | `Spec => []TypeOK` | |
| `AcknowledgedStay` | `DatasetProofs` | `Spec => []AcknowledgedKept` | one client |
| `OnlyBeyondIsOverwritten` | `DatasetProofs` | `Spec => OverwritesOnlyBeyond` | one client |
| `LogImplemented` | `DatasetProofs` | `Spec => ImplementsItemLog` | one client |
| `IterationsAreExact` | `DatasetProofs` | `Spec => []IterationExact` | one client |
| `TypeCorrect` | `KeyValueStoreProofs` | `Spec => []TypeOK` | |
| `AcknowledgedStay` | `KeyValueStoreProofs` | `Spec => []AcknowledgedKept` | `SweepsOwnFiles` |
| `ReadsAreExact` | `KeyValueStoreProofs` | `Spec => []ReadExact` | `SweepsOwnFiles` |
| `ListingsAreExact` | `KeyValueStoreProofs` | `Spec => []ListingExact` | |
| `TypeCorrect` | `KeyValueFilesProofs` | `Spec => []TypeOK` | |
| `ValuesAreWhole` | `KeyValueFilesProofs` | `Spec => []WholeValues` | |
| `SizesCorrect` | `KeyValueFilesProofs` | `Spec => []SizesAgree` | |
| `ResolutionsAgree` | `KeyValueFilesProofs` | `Spec => []ResolutionAgrees` | |
| `MapImplemented` | `KeyValueFilesProofs` | `Spec => ImplementsKeyValueMap` | |
| `PatternsMean` | `KeyValueFilesProofs` | `MatchesPattern` and `Stands` agree on all sequences | |
| `PatternsRight` | `KeyValueFilesProofs` | `Spec => []PatternsAgree` | |
| `OpeningsAreSound` | `KeyValueFilesProofs` | `Spec => AdoptionSound` | |
| `PagesAreComplete` | `KeyValueFilesProofs` | `Spec => []PagesComplete` | |
| `TypeCorrect` | `StorageOpenProofs` | `Spec => []TypeOK` | |
| `IdsStayUnique` | `StorageOpenProofs` | `Spec => []IdsNameOneDirectory` | |
| `ClientsStayAgreed` | `StorageOpenProofs` | `Spec => []ClientsAgreeWithDisk` | |
| `SearchesMissNothing` | `StorageOpenProofs` | `Spec => []SearchMissesNothing` | |
| `NamesBelow` | `StorageOpenProofs` | `Spec => []NamesStayBelow` | |

Each assumption is on how a storage is used, and is there because the property is false
without it:

- `SerialUse`: the calls of different clients do not overlap (`rq_double_fetch`); nobody opens as the
  sole owner beside others, reclaims late or with a handledAt, moves a request to the
  forefront, or removes requests, all of which overwrite or remove a lock somebody holds; one client adds
  requests, since another does not know which it would add a second time; every file has an
  orderNo and can be read.
- `SoleUse`: one client, whose storage is not dropped under its calls; every file has an orderNo, no
  caller stamps what it reclaims (`FilesStayCoherent` needs the same), and files can be read and
  removed (a purge that stops half way leaves an index that knows requests without a file).
- `CountedAdds`: no request that arrives handled is moved to the forefront (section 6).
- `SweepsOwnFiles`: a sweep's rules match only names that `encode_key` leaves as they are (`kv_sweep`).

The constants' own assumptions (`ASSUME` in the modules) are types, sentinels that are not values, and these;
TLC evaluates them on every run:

- `RequestLocks`: time starts after the largest step a clock is moved back by, so that no clock
  reads a time before 1970.
- `StorageOpen`: finitely many clients. A path names the root, if at all, in its first component,
  which is how a path is taken apart; the base ends with a name, as the path of a `storages`
  directory does.
- `KeyValueDirectory` and `KeyValueFiles`: percent-encoding is injective on letters and leaves an extension as
  it is, and no two letters have one rank in the order. What a key is encoded to is a file
  name that is neither a metadata file's nor a temporary file's (section 7), and so are the names other programs
  choose. No file is declared for two keys (`AdoptionAssumption`), and a file name that a caller or another program chooses, that
  is declared for no key and that a sweep's rule matches is what its key would be encoded to
  (`SweepsAssumption`): a sweep adopts a file under its own name, and `kv_sweep` shows what
  becomes of it otherwise.

**Inductive invariants.** None of the properties is inductive by itself:

- *Request queue, types.* `TypeOK` is inductive because the call record carries what the
  part before it found out; the work is one lemma for each action.
- *`FilesCoherent`.* `CoherentInv` adds that the file a call is *about to write* agrees with itself. The
  write may come long after its content was decided, over a file another client changed
  meanwhile; what keeps the property is that whole files are written.
- *`StallBounded`.* `StallInv` adds that the orderNo a call is about to write, and the reading of
  the clock a fetch or a rebuild goes by, lie within a window of *now*. The clock only
  moves forward, so both stay true while the call waits.
- *Locks of a queue.* `LockInv`: one call at a time; what the call in progress decided from the file
  is still so when it comes to write (`SoundCall`: the request a fetch is about to lock is held by
  nobody, one that is reclaimed or prolonged by nobody else); a client knows of no request without
  a file, and the producer of every one that has a file (`SoundIndex`), so that adding never writes
  over a lock; and every live lock is on disk, at every moment and not only between calls.
- *A sole client.* `SoleInv`: what the index has says what the file says (`AgreesOn`), request by
  request while an opening is still rebuilding it, but for a stale lock the sole owner could not
  clear; what a fetch has passed over was locked when it began; what a call is about to write is still pending
  (`CallSound`). A crash or a failed write ends in the state the next opening starts
  from, or in one where index and file agree already. `HandledIsFinal` and `ForefrontFirst` are
  read off it step by step.
- *`PersistedCountsExact`.* `CountInv`: the counters in memory count the *index*, during a rebuild
  the part of it that is there, and an addition still to be written knows whether its request counts
  as new. With the agreement of index and files they count the files.
- *Skew of clocks.* `SkewInv`: a lock that was taken over is shorter than the file's orderNo and had ended
  by the clock of the client that took it over (`Outlasted`); a free request carries a time the
  clock that freed it has read (`FreedInTime`).
- *Dataset, types.* `BatchFits`: what is left of a batch still fits the numbers.
- *Dataset, `AcknowledgedKept`.* `AckedInv`: an acknowledged item lies in a file the
  *saved* count covers, an open client's count is at least that, and what a push in
  progress wrote is covered by the client's count. A reopened client starts from the saved
  count, so that its pushes go past all that was acknowledged.
- *`OverwritesOnlyBeyond`.* `BeyondInv`: the files past an open client's count are those found there
  when it was opened, and a purge in progress knows of every file there is. Since it removes
  them in order and sets the count to zero only after the last, a purge that fails leaves no file past the count.
- *`ImplementsItemLog`.* `LogInv`: no two files hold the same push (`StampsDistinct`), and what a push in
  progress wrote lies behind everything acknowledged (`WroteBehind`), so that the end of a push appends to
  the log. The items of a set of files are ordered by the rank of their numbers
  (`Rank`, `Nth`), for which cardinalities do in place of an induction.
- *`IterationExact`.* `IterInv`: an iteration whose items are all still there, in the order they were pushed,
  has been right so far (`PageSound`): what it has given is a beginning of the items in the order asked for; a
  page in the making has read the files up to some number and listed those up to another (`ReadUpTo`); and
  in descending order, where pushes move every item further from the front, those of the old items
  that the offset has passed are given (`Given`). The premise looks at the files as they are, so
  that the invariant must also say why no step repairs it: files a push may write over or a
  purge removes hold what the iteration relies on (`Covered`), and a stamp is never used twice. `BeyondInv` and
  `StampsDistinct` come in there.
- *Key-value store, types.* No call outlives its client, and the files an opening listed
  are still there while its rules look at them (else an adoption would record a file that is
  gone).
- *Key-value store, `AcknowledgedKept`.* `Undisturbed`: while a key is owed a record no
  change meets it (`Unmet`); a `set_value` still called clean has been alone so far
  (`CleanAlone`) and what it wrote is in place (`CleanStage`); a running purge spares the files
  of what is owed (`PurgeSpares`); and a sweep has read the sidecars of those keys
  (`OpeningKnows`). The last is where the assumption on sweeps comes in.
- *`ReadExact`.* `ReadInv`: a stamp is never used twice (`StampsFresh`), and while a key is still owed the
  write a read began with, the sidecar and the bytes the read has found so far are that
  write's (`ReadSound`); `Undisturbed` says that they are there to be found.
- *`ListingExact`.* `ListInv`: what was listed is in order and ends at the cursor, the page in the making
  goes on from there (`InOrder`); a key that has had a sidecar all along is listed or
  still to be read (`NothingMissed`); and a cursor whose sidecar is still there is found in the next listing
  (`CursorFound`). It needs nothing of what other callers do except what it says of their effects.
- *Opening, types.* `IdsLeft`: every open that may still draw an id finds one left.
- *`IdsNameOneDirectory`.* `IdInv` says it of every place an identity may be in: a metadata file, a temporary
  file, the memory of a client, the write a client is in the middle of (`Refers`).
- *`ClientsAgreeWithDisk`, `SearchMissesNothing`.* `AgreeInv` adds that a search knows of every
  directory that has held its id all along and that it has not looked at yet (`HomesKnown`). The search
  passes a directory by only if it holds another id or none, which the agreement of
  its writers excludes.

- *Opening, `NamesStayBelow`.* `AllChecked`: a call beyond its validation has the directory of an accepted
  name. What is left is about `normalize_lexically` on all sequences of components: the loop keeps exactly the
  components whose bracket is still open at the end, a name opening one and `..` closing the last
  open one, which is what the property says with counts in place of a loop.
- *`KeyValueFiles`, types.* `TypeInv` adds what a sidecar may bind: a valid filename that is none of a temporary file. Only names that last, of values, sidecars and metadata, matter to
  what follows, so that every action is first brought down to one of a few effects on
  them (`Stored`, `Removed`, `Untouched`).
- *`WholeValues`.* `WholeInv` adds that a value under way is as long as it was meant to be but for what is
  left to stream (`WholePipe`). `SizesTold` says of every sidecar what `SizesAgree` says of what
  is read; `ResolutionAgrees` follows from the types.
- *`ImplementsKeyValueMap`.* `Belongs`: every sidecar is that of a key of the store and binds what somebody chose or declared (`KnownRecords`), no
  file is bound by two keys (`FilesOfOne`), nor by one while it is declared for another (`OwnDeclared`), a key that
  is bound to another file has none under its own name unless that file is a declared one (`NoStrays`), and a value that no record
  binds has a name that somebody chose or declared (`LooseChosen`). Then a write or a removal
  meets the files of its own key only.
- *Openings.* The loops over candidates and files are recursive functions. A lemma with the loop's step
  as a function (`LoopExists`, `LoopKeeps`) takes the place of an induction: it works on
  the set of positions up to which the loop is right. An opening is then argued about as a
  set of adoptions that a single turn does not leave. The listing in the order of names exists since a
  name's rank is the number of names before it.
- *`AdoptionSound`.* The positions of a loop are its time: `EveryTurn` says what the directory is after each
  of them. A set of adoptions that no single one leaves (`Lasts`) is left by none of the rest: usable records stay, a failure
  stays, and every file that becomes owned is that of a key that is tracked by then. `Explained(i)` says of every sidecar
  that is new after i sweeps which rule made it; the first sweep with a rule that means a file is the one that
  takes it (`FirstSweep`), since nothing before could have. `SavedSame` then goes from the directory with its
  metadata saved to the one before.
- *`PagesComplete`.* What is shown is a bijection: one candidate for each key to list (`ShownNames`), since no key has both a
  sidecar and a place among the bare files. So candidates sorted by their keys are in the order of the
  sorted keys (`InOrderOfNames`), whatever their files are called, and those behind a cursor are the rest of
  that order (`NamesBehind`). What is left is how a page is cut out of it (`PageAfter`, for every limit, prefix and list of fallbacks).
- *Patterns.* That the scan of `matches_pattern` is defined everywhere is a least fixed point: the places from
  which every set closed under turns backwards is reached. That it is right: of the places at which it is
  wrong there would be a last one, in the order of star, restart and position, and the loop goes on to a later one.
  A later star may take what an earlier one could, since behind the last star come letters only.

**Only model-checked.** Liveness (`EventuallyHandled`, `CallsEnd`, `IterationEnds`) is outside the
prover's reach. Every other property of a passing run has a theorem.

## 6. Where the code and its comments disagree

1. `rq_double_fetch`: the comment at `request_queue.rs:441` says the lock is persisted "so
   other consumers sharing the queue skip it", the one at 84 that multiple consumers can
   coordinate without a lock service. `fetch_next_request` reads the file (460) and writes the lock
   (501) in two operations: two clients that both read first both get the request.
2. `kv_sweep`: "a sweep never overwrites a sidecar" (`key_value_store.rs:78`, 329), but it looks for
   the sidecar under the file's name (330) and writes it under the name's percent-encoding
   (341-343). With a record of the key "data file" in `data%20file`, a file named
   `data file` that a rule matches takes that sidecar over.

Others were met while modelling and proving and are no runs; the properties' and the theorems' conditions
stand where they would break them:

- A request that carries `handledAt` is stored "as handled (not pending) — bumping
  `handledRequestCount`" (`request_queue.rs:2077`), so that re-opening reconstructs the same
  counts (2135). When a request that is pending is added once more, to the forefront and with a
  handledAt, its file becomes a handled one (324-337) and the counters stay (378), until the next
  opening counts anew. `CountedAdds` excludes it, and no run adds such a batch; TLC finds
  `PersistedCountsExact` violated in one that does.
- `reclaim_request` returns `None` "only if the request is unknown or already handled"
  (`request_queue.rs:666`), but decides by its own index (685): a request that another client
  handled meanwhile is written back as pending.
- An orderNo in the future means "locked (in progress) until that moment" (30), but a forefront
  add of a request in progress (303) writes over it, and the request is handed out again.
- `owned_filenames` (`key_value_store.rs:238`) does not read a sidecar whose own file is present, so
  that a file bound by such a record may be adopted a second time, which the documentation
  (79-80) excludes. The comment at 231 argues that this needs a stray file; interrupted
  writes leave some. `KeyValueFiles` leaves them out (`Stray`).
- A name such as `a/../b` is accepted, although the comment at `utils.rs:312` speaks of
  rejecting values that contain `..`; it denotes the child `b`, and `NamesStayBelow` holds.
- A streamed value of 4 GiB or more gets the length modulo 2^32 in its sidecar, since the size is
  a `u32` (`crawlee-storage-node/src/lib.rs:415`); `SizesAgree` excepts it.
- Of two clients that create one storage at the same time, the slower one's metadata replaces
  the other's, which goes on under an id that is nowhere on disk until its next call writes
  it back. No comment excludes it. `ClientsAgreeWithDisk` bounds this to such directories.

## 7. What is abstracted and what is left out

**Data.** Payloads, ids, user data, content types, timestamps of metadata and response
records are left out; an item or a value is a stamp that tells one write from another. In `KeyValueStore` keys
are numbers in the order the code sorts them, and their encoding is an injective map from
keys to names; `KeyValueDirectory` has names and encodings. Integers are unbounded: `orderNo` is an i64 of milliseconds, counters
are usize or i64. The forefront list is kept as the order in which it is read (from
its end, without duplicates), not as its growing text. Files that do not parse are left
out: `atomic_write` leaves none; `KeyValueFiles` has sidecars that others damage. A huge duration that
takes a lock out of the range of an i64 is left out with the width of integers.

**Granularity.** The listing of a directory is one instant, except that a purge of the key-value store may
also take files that arrive after it. `remove_dir_all` is one step. The readings of the
clock within one part of a call are one reading. The two files of a temporary write and
rename are one write, except where a purge removes the temporary file.

**Request queue.** Files that predate orderNo (`LegacyKeys`) and reclaiming with a handledAt of
the caller's own (`ReclaimStamped`) are in the module but not used by the runs. A forefront add of a request that carries handledAt
is in no run (section 6). Not covered: the renumbering of insertions on
reopening. `RequestLocks` has one request that is neither removed nor purged; its clocks never
read a time before 1970, where the sign of an orderNo would be lost; an opening rebuilds the
index in one step.

**Dataset.** Files in the directory that `push_data` did not write. Several clients of one
dataset can be given to the module; no documentation says they may share one, and the
instances have one.

**Key-value store.** Keys whose encoded name is that of a metadata file: `set_value` checks a
filename, not a key (1178). In `KeyValueFiles` callers give no file to two keys, no key that is bound to another
file has one under its own name, and other programs use names nobody has; a listing
with limit 0 and the lazy opening of `getValueStream` are left out. A listing names a
record whose file is gone, as the code does. Filenames with a trailing separator are left out.

**Opening.** Metadata is an id and a name; metadata that does not parse is left out. Symlinks and
names on other file systems are left out, as the code's check is lexical.

**Other parts.** `models.rs` is modelled as far as the clients' behaviour depends on it; serialization and
the records that carry results are not. Of the bindings, what has an effect on state is modelled;
the rest converts values. The stub generator writes type stubs at build time.

## 8. Plan

What is left, in this order:

1. *QueueContract*, a set of pending, leased and handled requests that a sole client's queue
   implements.
2. Instances with request files that predate orderNo, and with strays for `owned_filenames`.
