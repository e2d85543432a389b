----------------------------- MODULE KeyValueStore -----------------------------
(***************************************************************************)
(* FileSystemKeyValueStoreClient (crawlee-storage/src/key_value_store.rs): *)
(* every record is two files, the value and a sidecar with its metadata.   *)
(* The sidecar is named after the key; the value is named after it too,    *)
(* unless the sidecar binds the key to another file.                       *)
(*                                                                         *)
(* The calls of one client run in several tasks.  Its mutex orders only    *)
(* the writes of the store's own metadata, and purge, which holds it from  *)
(* its first removal to its last; everything else interleaves file by      *)
(* file.  Opening a store adopts files that have no sidecar, first those   *)
(* declared for a key, then those a sweep matches.                         *)
(***************************************************************************)
EXTENDS Integers, SequencesExt, FiniteSetsExt

CONSTANTS
    Tasks,          \* the concurrent callers of the client
    Keys,           \* numbers, in the order of the keys
    Names,          \* file names a value can have
    Own,            \* encode_key: the name of a key's own value file
    Absent,         \* no such file, no such key
    None,           \* nothing known, nothing given
    Bindings,       \* the keys and files of set_value calls
    Keeps,          \* the sets of keys that purge is told to keep
    Adoptable,      \* the Key candidates of open: a key and the files it may have
    KeyFor,         \* the key a sweep gives to each file that one of its rules matches
    Outside,        \* the files that somebody else writes into the directory
    PageSize,       \* keys per page of an iteration
    Ops,            \* the operations callers use
    MaxStamp,       \* bound: on the values ever written
    MaxFaults,      \* bound: crashes and failed file-system operations
    FaultKinds      \* "crash", a failed "write" or "remove" of a file

ASSUME NamesAssumption ==
    /\ Keys \subseteq Nat
    /\ Own \in [Keys -> Names]
    /\ \A j, k \in Keys : Own[j] = Own[k] => j = k
    /\ KeyFor \in [DOMAIN KeyFor -> Keys] /\ DOMAIN KeyFor \subseteq Names
ASSUME CallsAssumption ==
    /\ Bindings \subseteq [key : Keys, path : Names]
    /\ Keeps \subseteq SUBSET Keys
    /\ Adoptable \subseteq [key : Keys, files : SUBSET Names]
    /\ Outside \subseteq Names
    /\ PageSize \in Nat \ {0}
    /\ Ops \subseteq {"set", "delete", "read", "list", "purge", "drop"}
ASSUME SentinelAssumption == {Absent, None} \cap Nat = {} /\ Absent \notin [of : Nat, path : Names]
ASSUME BoundsAssumption ==
    /\ {MaxStamp, MaxFaults} \subseteq Nat
    /\ FaultKinds \subseteq {"crash", "write", "remove"}

VARIABLES
    values,     \* the value files: which write each one holds
    sidecars,   \* the sidecars: whose metadata each one states, and the file it binds
    store,      \* is there a metadata file of the store
    client,     \* the client: closed, being opened or open
    task,       \* the call each task is in
    kept,       \* the write whose record each key is owed, if one is
    stamp,      \* how many values were ever written; tells them apart
    faults      \* faults so far

vars == <<values, sidecars, store, client, task, kept, stamp, faults>>

Records == [of : Nat, path : Names]

ChangeKinds ==
    {"unbind", "value", "record", "save", "look", "remove", "lookSidecar", "removeSidecar", "touch"}

\* "unbind" to "save" are the parts of set_value, "look" to "touch" those of
\* delete_value.  "old" is the file the key was bound to; a call is "clean" as
\* long as no other call on its key or its files and no purge runs beside it.
Changes ==
    [kind : ChangeKinds,
     key : Keys, path : Names, old : Names, of : Nat, clean : BOOLEAN]

\* The parts of read_value; "expect" is what the key was owed when it began.
Reads ==
    [kind : {"find", "got"}, key : Keys, expect : Nat \cup {None},
     record : Records \cup {Absent}, bytes : Nat \cup {Absent}]
        \cup [kind : {"stat", "bytes"}, key : Keys, expect : Nat \cup {None},
               record : Records, bytes : Nat \cup {Absent}]

\* An iteration page by page; "lasting" are the keys that have had a sidecar all the
\* time since it began or since it took them.
Lists ==
    [kind : {"list", "scan", "listed", "failed"}, cursor : Keys \cup {None}, todo : SUBSET Keys,
     page : Seq(Keys), seen : BOOLEAN, taken : Seq(Keys), lasting : SUBSET Keys]

Purges == [kind : {"clear"}, keep : SUBSET Keys, spare : SUBSET Names,
           names : SUBSET Names, records : SUBSET Keys]

Calls == [kind : {"idle"}] \cup Changes \cup Reads \cup Lists \cup Purges

Openings ==
    [kind : {"closed", "create", "adopt", "open"}]
        \cup [kind : {"keys", "sweep"}, todo : SUBSET Adoptable, listed : SUBSET Names,
              records : SUBSET Keys, owned : SUBSET Names]

-------------------------------------------------------------------------------
(* Helpers *)

Idle == [kind |-> "idle"]
Closed == [kind |-> "closed"]

HasFile(n) == values[n] # Absent
HasSidecar(k) == sidecars[k] # Absent
FilesThere == {n \in Names : HasFile(n)}
SidecarsThere == {k \in Keys : HasSidecar(k)}

\* A record that can be read: a sidecar, and the file it binds.
Tracked(k) == HasSidecar(k) /\ HasFile(sidecars[k].path)

\* value_path as a call finds it: the bound file, or the key's own.
BoundFile(k) == IF HasSidecar(k) THEN sidecars[k].path ELSE Own[k]

Purging == \E u \in Tasks : task[u].kind = "clear"
MutexFree == ~Purging

Ready(t, operation) ==
    /\ operation \in Ops
    /\ client.kind = "open"
    /\ task[t].kind \in {"idle", "got", "listed", "failed"}

Go(t, call) == task' = [task EXCEPT ![t] = call]

IsChange(call) == call.kind \in ChangeKinds
Meets(call, k, names) == IsChange(call) /\ (call.key = k \/ {call.path, call.old} \cap names # {})

\* A change of k that touches these files begins: no key is owed what they held,
\* and calls on the same key or files are no longer by themselves.
Begin(t, k, names, call) ==
    /\ task' = [u \in Tasks |->
           IF u = t THEN call
           ELSE IF Meets(task[u], k, names) THEN [task[u] EXCEPT !.clean = FALSE]
           ELSE task[u]]
    /\ kept' = [j \in Keys |-> IF j = k \/ BoundFile(j) \in names THEN None ELSE kept[j]]

\* A sidecar is taken away; iterations under way take note of it.
NoteRemoved(call, ks) ==
    IF call.kind \in {"list", "scan", "listed", "failed"} THEN [call EXCEPT !.lasting = @ \ ks] ELSE call
LoseSidecar(t, k, call) ==
    /\ sidecars' = [sidecars EXCEPT ![k] = Absent]
    /\ task' = [u \in Tasks |-> IF u = t THEN call ELSE NoteRemoved(task[u], {k})]

-------------------------------------------------------------------------------
(* set_value and finalize_streamed_value *)

SetValue(t) ==
    /\ Ready(t, "set")
    /\ stamp < MaxStamp
    /\ stamp' = stamp + 1
    /\ \E b \in Bindings :
          LET old == IF HasSidecar(b.key) THEN sidecars[b.key].path ELSE b.path
              names == {b.path, old}
          IN  Begin(t, b.key, names,
                    [kind |-> IF old = b.path THEN "value" ELSE "unbind", key |-> b.key,
                     path |-> b.path, old |-> old, of |-> stamp',
                     clean |-> ~Purging /\ ~\E u \in Tasks : Meets(task[u], b.key, names)])
    /\ UNCHANGED <<values, sidecars, store, client, faults>>

\* The file of a binding that ends is removed; that it cannot be is ignored.
Unbind(t) ==
    /\ task[t].kind = "unbind"
    /\ values' = [values EXCEPT ![task[t].old] = Absent]
    /\ Go(t, [task[t] EXCEPT !.kind = "value"])
    /\ UNCHANGED <<sidecars, store, client, kept, stamp, faults>>

WriteValue(t) ==
    /\ task[t].kind = "value"
    /\ values' = [values EXCEPT ![task[t].path] = task[t].of]
    /\ Go(t, [task[t] EXCEPT !.kind = "record"])
    /\ UNCHANGED <<sidecars, store, client, kept, stamp, faults>>

WriteSidecar(t) ==
    /\ task[t].kind = "record"
    /\ sidecars' = [sidecars EXCEPT ![task[t].key] = [of |-> task[t].of, path |-> task[t].path]]
    /\ Go(t, [task[t] EXCEPT !.kind = "save"])
    /\ UNCHANGED <<values, store, client, kept, stamp, faults>>

\* The call ends well.
SetDone(t) ==
    /\ task[t].kind = "save"
    /\ MutexFree
    /\ store' = TRUE
    /\ kept' = [kept EXCEPT ![task[t].key] = IF task[t].clean THEN task[t].of ELSE None]
    /\ Go(t, Idle)
    /\ UNCHANGED <<values, sidecars, client, stamp, faults>>

-------------------------------------------------------------------------------
(* delete_value.  A file that goes between the look and the removal is an error. *)

DeleteValue(t) ==
    /\ Ready(t, "delete")
    /\ \E k \in Keys :
          Begin(t, k, {BoundFile(k)},
                [kind |-> "look", key |-> k, path |-> BoundFile(k), old |-> BoundFile(k),
                 of |-> 0, clean |-> FALSE])
    /\ UNCHANGED <<values, sidecars, store, client, stamp, faults>>

LookForValue(t) ==
    /\ task[t].kind = "look"
    /\ Go(t, [task[t] EXCEPT !.kind = IF HasFile(task[t].path) THEN "remove" ELSE "lookSidecar"])
    /\ UNCHANGED <<values, sidecars, store, client, kept, stamp, faults>>

RemoveValue(t) ==
    /\ task[t].kind = "remove"
    /\ Go(t, IF HasFile(task[t].path) THEN [task[t] EXCEPT !.kind = "lookSidecar"] ELSE Idle)
    /\ values' = [values EXCEPT ![task[t].path] = Absent]
    /\ UNCHANGED <<sidecars, store, client, kept, stamp, faults>>

LookForSidecar(t) ==
    /\ task[t].kind = "lookSidecar"
    /\ Go(t, [task[t] EXCEPT !.kind = IF HasSidecar(task[t].key) THEN "removeSidecar" ELSE "touch"])
    /\ UNCHANGED <<values, sidecars, store, client, kept, stamp, faults>>

RemoveSidecar(t) ==
    /\ task[t].kind = "removeSidecar"
    /\ LoseSidecar(t, task[t].key,
                   IF HasSidecar(task[t].key) THEN [task[t] EXCEPT !.kind = "touch"] ELSE Idle)
    /\ UNCHANGED <<values, store, client, kept, stamp, faults>>

DeleteDone(t) ==
    /\ task[t].kind = "touch"
    /\ MutexFree
    /\ store' = TRUE
    /\ Go(t, Idle)
    /\ UNCHANGED <<values, sidecars, client, kept, stamp, faults>>

-------------------------------------------------------------------------------
(* get_value and read_value *)

ReadValue(t) ==
    /\ Ready(t, "read")
    /\ MutexFree
    /\ store' = TRUE
    /\ \E k \in Keys :
          Go(t, [kind |-> "find", key |-> k, expect |-> kept[k], record |-> Absent, bytes |-> Absent])
    /\ UNCHANGED <<values, sidecars, client, kept, stamp, faults>>

FindRecord(t) ==
    /\ task[t].kind = "find"
    /\ Go(t, [task[t] EXCEPT !.record = sidecars[task[t].key],
                             !.kind = IF HasSidecar(task[t].key) THEN "stat" ELSE "got"])
    /\ UNCHANGED <<values, sidecars, store, client, kept, stamp, faults>>

StatValue(t) ==
    /\ task[t].kind = "stat"
    /\ Go(t, [task[t] EXCEPT !.kind = IF HasFile(task[t].record.path) THEN "bytes" ELSE "got"])
    /\ UNCHANGED <<values, sidecars, store, client, kept, stamp, faults>>

\* Mutant of ReadBytes: the key's own file is read whatever it is bound to.
ReadBytesOwn(t) ==
    /\ task[t].kind = "bytes"
    /\ Go(t, [task[t] EXCEPT !.bytes = values[Own[task[t].key]], !.kind = "got"])
    /\ UNCHANGED <<values, sidecars, store, client, kept, stamp, faults>>

\* Without the file the call ends with an error; "bytes" stays Absent.
ReadBytes(t) ==
    /\ task[t].kind = "bytes"
    /\ Go(t, [task[t] EXCEPT !.bytes = values[task[t].record.path], !.kind = "got"])
    /\ UNCHANGED <<values, sidecars, store, client, kept, stamp, faults>>

-------------------------------------------------------------------------------
(* list_keys and iterate_keys_page, page by page without a limit *)

ListKeys(t) ==
    /\ Ready(t, "list")
    /\ Go(t, [kind |-> "list", cursor |-> None, todo |-> {}, page |-> << >>, seen |-> FALSE,
              taken |-> << >>, lasting |-> SidecarsThere])
    /\ UNCHANGED <<values, sidecars, store, client, kept, stamp, faults>>

ListPage(t) ==
    /\ task[t].kind = "list"
    /\ Go(t, [task[t] EXCEPT !.kind = "scan", !.todo = SidecarsThere, !.page = << >>, !.seen = FALSE])
    /\ UNCHANGED <<values, sidecars, store, client, kept, stamp, faults>>

\* One key more than a page shows that there are more.
PageFull(call) == Len(call.page) > PageSize

\* Once the page is full only the cursor is still looked for.
Scanned(call) == call.todo = {} \/ (PageFull(call) /\ (call.cursor = None \/ call.seen))

\* Mutant of PastCursor: a page begins with the cursor itself.
FromCursor(call, k) == call.cursor = None \/ k >= call.cursor

PastCursor(call, k) == call.cursor = None \/ k > call.cursor

\* The next sidecar is read; one that vanished is skipped.
ScanKey(t, k) ==
    LET call == task[t]
        shown == HasSidecar(k) /\ PastCursor(call, k) /\ ~PageFull(call)
    IN
    /\ call.kind = "scan"
    /\ ~Scanned(call)
    /\ k \in call.todo /\ \A j \in call.todo : k <= j
    /\ Go(t, [call EXCEPT
           !.todo = @ \ {k},
           !.seen = @ \/ (HasSidecar(k) /\ k = call.cursor),
           !.page = IF shown THEN Append(@, k) ELSE @,
           !.lasting = IF shown THEN @ \cup {k} ELSE @])
    /\ UNCHANGED <<values, sidecars, store, client, kept, stamp, faults>>

\* The caller's next step: on from the last key of the page, or done.
PageDone(t) ==
    LET call == task[t]
        shown == IF PageFull(call) THEN Front(call.page) ELSE call.page
    IN
    /\ call.kind = "scan"
    /\ Scanned(call)
    /\ call.cursor = None \/ call.seen
    /\ Go(t, [call EXCEPT !.kind = IF PageFull(call) THEN "list" ELSE "listed",
                          !.taken = @ \o shown,
                          !.cursor = IF PageFull(call) THEN Last(shown) ELSE @])
    /\ UNCHANGED <<values, sidecars, store, client, kept, stamp, faults>>

\* ExclusiveStartKeyNotFound.
CursorLost(t) ==
    LET call == task[t] IN
    /\ call.kind = "scan"
    /\ Scanned(call)
    /\ call.cursor # None /\ ~call.seen
    /\ Go(t, [call EXCEPT !.kind = "failed"])
    /\ UNCHANGED <<values, sidecars, store, client, kept, stamp, faults>>

-------------------------------------------------------------------------------
(* purge and drop_storage *)

\* Mutant of Spared: the bindings of the kept keys are forgotten.
SparedOwn(keep) == {Own[k] : k \in keep}

\* The value files that purge leaves alone.
Spared(keep) == {BoundFile(k) : k \in keep}

Purge(t) ==
    /\ Ready(t, "purge")
    /\ MutexFree
    /\ \E keep \in Keeps :
          /\ task' = [u \in Tasks |->
                 IF u = t THEN [kind |-> "clear", keep |-> keep, spare |-> Spared(keep),
                                names |-> FilesThere \ Spared(keep), records |-> SidecarsThere \ keep]
                 ELSE IF IsChange(task[u]) THEN [task[u] EXCEPT !.clean = FALSE]
                 ELSE task[u]]
          /\ kept' = [k \in Keys |-> IF k \in keep THEN kept[k] ELSE None]
    /\ UNCHANGED <<values, sidecars, store, client, stamp, faults>>

\* A file that came into the directory after it was listed may be taken too.
PurgeValue(t, n) ==
    /\ task[t].kind = "clear"
    /\ n \notin task[t].spare
    /\ n \in task[t].names \/ HasFile(n)
    /\ values' = [values EXCEPT ![n] = Absent]
    /\ Go(t, [task[t] EXCEPT !.names = @ \ {n}])
    /\ UNCHANGED <<sidecars, store, client, kept, stamp, faults>>

PurgeSidecar(t, k) ==
    /\ task[t].kind = "clear"
    /\ k \notin task[t].keep
    /\ k \in task[t].records \/ HasSidecar(k)
    /\ LoseSidecar(t, k, [task[t] EXCEPT !.records = @ \ {k}])
    /\ UNCHANGED <<values, store, client, kept, stamp, faults>>

\* purge takes the temporary file of a write that is under way: its rename fails.
PurgeTemporary(t, u) ==
    /\ task[t].kind = "clear"
    /\ task[u].kind \in {"value", "record"}
    /\ Go(u, Idle)
    /\ UNCHANGED <<values, sidecars, store, client, kept, stamp, faults>>

PurgeDone(t) ==
    /\ task[t].kind = "clear"
    /\ task[t].names = {} /\ task[t].records = {}
    /\ store' = TRUE
    /\ Go(t, Idle)
    /\ UNCHANGED <<values, sidecars, client, kept, stamp, faults>>

\* Without the mutex; the temporary files of some writes go with the directory.
DropStorage(t) ==
    /\ Ready(t, "drop")
    /\ values' = [n \in Names |-> Absent]
    /\ sidecars' = [k \in Keys |-> Absent]
    /\ store' = FALSE
    /\ kept' = [k \in Keys |-> None]
    /\ \E failed \in SUBSET {u \in Tasks : task[u].kind \in {"value", "record"}} :
          task' = [u \in Tasks |->
              IF u = t \/ u \in failed THEN Idle
              ELSE IF IsChange(task[u]) THEN [task[u] EXCEPT !.clean = FALSE]
              ELSE NoteRemoved(task[u], SidecarsThere)]
    /\ UNCHANGED <<client, stamp, faults>>

-------------------------------------------------------------------------------
(* open_with_clock *)

Become(opening) == client' = opening

Open ==
    /\ client = Closed
    /\ Become([kind |-> IF store THEN "adopt" ELSE "create"])
    /\ UNCHANGED <<values, sidecars, store, task, kept, stamp, faults>>

Create ==
    /\ client.kind = "create"
    /\ store' = TRUE
    /\ Become([kind |-> "adopt"])
    /\ UNCHANGED <<values, sidecars, task, kept, stamp, faults>>

\* What no sweep may take: the own names of all records, the files bound by records
\* whose own name is missing, and every file declared for a key.
OwnedFiles ==
    {Own[k] : k \in SidecarsThere}
        \cup {sidecars[k].path : k \in {j \in SidecarsThere : ~HasFile(Own[j])}}
        \cup UNION {a.files : a \in Adoptable}

ListForAdoption ==
    /\ client.kind = "adopt"
    /\ Become([kind |-> "keys", todo |-> Adoptable, listed |-> FilesThere,
               records |-> SidecarsThere, owned |-> OwnedFiles])
    /\ UNCHANGED <<values, sidecars, store, task, kept, stamp, faults>>

Present(a) == {n \in a.files : HasFile(n)}

\* Mutant of Claims: a declared file is not looked for.
ClaimsUnseen(a, n) == ~Tracked(a.key)

\* The candidate binds its key to the one declared file that is there.
Claims(a, n) == ~Tracked(a.key) /\ Present(a) = {n}

AdoptForKey(a, n) ==
    /\ client.kind = "keys" /\ a \in client.todo
    /\ Claims(a, n)
    /\ sidecars' = [sidecars EXCEPT ![a.key] = [of |-> values[n], path |-> n]]
    /\ Become([client EXCEPT !.todo = @ \ {a}, !.owned = @ \cup {n, Own[a.key]}])
    /\ UNCHANGED <<values, store, task, kept, stamp, faults>>

NothingToAdopt(a) ==
    /\ client.kind = "keys" /\ a \in client.todo
    /\ Tracked(a.key) \/ Present(a) = {}
    /\ Become([client EXCEPT !.todo = @ \ {a}])
    /\ UNCHANGED <<values, sidecars, store, task, kept, stamp, faults>>

\* AmbiguousInput ends the opening.
Ambiguous(a) ==
    /\ client.kind = "keys" /\ a \in client.todo
    /\ ~Tracked(a.key) /\ Cardinality(Present(a)) > 1
    /\ Become(Closed)
    /\ UNCHANGED <<values, sidecars, store, task, kept, stamp, faults>>

StartSweep ==
    /\ client.kind = "keys" /\ client.todo = {}
    /\ Become([client EXCEPT !.kind = "sweep"])
    /\ UNCHANGED <<values, sidecars, store, task, kept, stamp, faults>>

\* A file that matches a rule, that nothing owns and that has no sidecar by its name.
Swept(n) ==
    /\ n \in DOMAIN KeyFor \cap client.listed
    /\ n \notin client.owned
    /\ ~\E k \in client.records : Own[k] = n

Sweep(n) ==
    /\ client.kind = "sweep"
    /\ Swept(n)
    /\ sidecars' = [sidecars EXCEPT ![KeyFor[n]] = [of |-> values[n], path |-> n]]
    /\ Become([client EXCEPT !.owned = @ \cup {n, Own[KeyFor[n]]}])
    /\ UNCHANGED <<values, store, task, kept, stamp, faults>>

OpenDone ==
    /\ client.kind = "sweep"
    /\ ~\E n \in Names : Swept(n)
    /\ Become([kind |-> "open"])
    /\ UNCHANGED <<values, sidecars, store, task, kept, stamp, faults>>

\* Somebody else, a CLI say, puts a file into the directory.
OutsideWrite(n) ==
    /\ n \in Outside
    /\ ~HasFile(n)
    /\ stamp < MaxStamp
    /\ stamp' = stamp + 1
    /\ values' = [values EXCEPT ![n] = stamp']
    /\ UNCHANGED <<sidecars, store, client, task, kept, faults>>

-------------------------------------------------------------------------------
(* Faults *)

MayFault(kind) == kind \in FaultKinds /\ faults < MaxFaults /\ faults' = faults + 1

Crash ==
    /\ MayFault("crash")
    /\ client # Closed
    /\ Become(Closed)
    /\ task' = [t \in Tasks |-> Idle]
    /\ UNCHANGED <<values, sidecars, store, kept, stamp>>

\* The call ends with an error where it stands.
WriteFails(t) ==
    /\ MayFault("write")
    /\ \/ task[t].kind \in {"value", "record"}
       \/ task[t].kind \in {"save", "touch"} /\ MutexFree
       \/ task[t].kind = "clear" /\ task[t].names = {} /\ task[t].records = {}
    /\ Go(t, Idle)
    /\ UNCHANGED <<values, sidecars, store, client, kept, stamp>>

OpenFails ==
    /\ MayFault("write")
    /\ \/ client.kind = "create"
       \/ client.kind = "keys" /\ \E a \in client.todo, n \in Names : Claims(a, n)
       \/ client.kind = "sweep" /\ \E n \in Names : Swept(n)
    /\ Become(Closed)
    /\ UNCHANGED <<values, sidecars, store, task, kept, stamp>>

\* set_value and purge ignore it, delete_value ends with an error.
RemoveFails(t) ==
    /\ MayFault("remove")
    /\ \/ task[t].kind = "unbind" /\ Go(t, [task[t] EXCEPT !.kind = "value"])
       \/ task[t].kind \in {"remove", "removeSidecar"} /\ Go(t, Idle)
       \/ \E n \in Names : task[t].kind = "clear" /\ n \in task[t].names
                           /\ Go(t, [task[t] EXCEPT !.names = @ \ {n}])
       \/ \E k \in Keys : task[t].kind = "clear" /\ k \in task[t].records
                          /\ Go(t, [task[t] EXCEPT !.records = @ \ {k}])
    /\ UNCHANGED <<values, sidecars, store, client, kept, stamp>>

-------------------------------------------------------------------------------
(* The specification *)

Init ==
    /\ values = [n \in Names |-> Absent]
    /\ sidecars = [k \in Keys |-> Absent]
    /\ store = FALSE
    /\ client = Closed
    /\ task = [t \in Tasks |-> Idle]
    /\ kept = [k \in Keys |-> None]
    /\ stamp = 0
    /\ faults = 0

Changing(t) ==
    \/ SetValue(t) \/ Unbind(t) \/ WriteValue(t) \/ WriteSidecar(t) \/ SetDone(t)
    \/ DeleteValue(t) \/ LookForValue(t) \/ RemoveValue(t)
    \/ LookForSidecar(t) \/ RemoveSidecar(t) \/ DeleteDone(t)

Reading(t) ==
    \/ ReadValue(t) \/ FindRecord(t) \/ StatValue(t) \/ ReadBytes(t)
    \/ ListKeys(t) \/ ListPage(t) \/ PageDone(t) \/ CursorLost(t)
    \/ \E k \in Keys : ScanKey(t, k)

Clearing(t) ==
    \/ Purge(t) \/ PurgeDone(t) \/ DropStorage(t)
    \/ \E n \in Names : PurgeValue(t, n)
    \/ \E k \in Keys : PurgeSidecar(t, k)
    \/ \E u \in Tasks : PurgeTemporary(t, u)

Opening ==
    \/ Open \/ Create \/ ListForAdoption \/ StartSweep \/ OpenDone
    \/ \E a \in Adoptable : NothingToAdopt(a) \/ Ambiguous(a) \/ \E n \in a.files : AdoptForKey(a, n)
    \/ \E n \in DOMAIN KeyFor : Sweep(n)

Next ==
    \/ \E t \in Tasks : Changing(t) \/ Reading(t) \/ Clearing(t) \/ WriteFails(t) \/ RemoveFails(t)
    \/ Opening \/ Crash \/ OpenFails
    \/ \E n \in Outside : OutsideWrite(n)

Spec == Init /\ [][Next]_vars

-------------------------------------------------------------------------------
(* Properties *)

\* Every variable keeps the shape of the code's data.
TypeOK ==
    /\ values \in [Names -> Nat \cup {Absent}]
    /\ sidecars \in [Keys -> Records \cup {Absent}]
    /\ store \in BOOLEAN
    /\ client \in Openings
    /\ task \in [Tasks -> Calls]
    /\ kept \in [Keys -> Nat \cup {None}]
    /\ stamp \in Nat
    /\ faults \in Nat

\* A set_value that ended well leaves a record whose two files go together, until
\* another change of the key or of one of its files begins, a purge that is not told
\* to keep the key, or a drop: crashes, reopenings with adoption, changes of other
\* keys and purges that keep it leave both files as they are.
AcknowledgedKept ==
    \A k \in Keys : kept[k] # None =>
        /\ HasSidecar(k)
        /\ sidecars[k].of = kept[k]
        /\ values[sidecars[k].path] = kept[k]

\* A read_value with no such call beside it returns the bytes and the metadata of the
\* last set_value that ended well, although it finds them in three separate steps.
ReadExact ==
    \A t \in Tasks : LET call == task[t] IN
        call.kind = "got" /\ call.expect # None /\ kept[call.key] = call.expect =>
            /\ call.record # Absent
            /\ call.record.of = call.expect
            /\ call.bytes = call.expect

\* An iteration beside any other calls lists keys in order, none twice and every one
\* that has a sidecar from its beginning to its end, and it fails for a lost cursor
\* only if the sidecar of that key was removed.
ListingExact ==
    \A t \in Tasks : LET call == task[t] IN
        /\ call.kind \in {"scan", "listed"} =>
              \A m, n \in DOMAIN call.taken : m < n => call.taken[m] < call.taken[n]
        /\ call.kind = "listed" => call.lasting \subseteq ToSet(call.taken)
        /\ call.kind = "failed" => call.cursor \notin call.lasting

\* A sweep never overwrites a sidecar.
SweepKeepsSidecars ==
    [][client.kind = "sweep" => \A k \in Keys : HasSidecar(k) => sidecars'[k] = sidecars[k]]_vars

=============================================================================
