-------------------------- MODULE KeyValueStoreProofs --------------------------
(***************************************************************************)
(* What holds of KeyValueStore for any number of callers, keys, files and  *)
(* faults: its state keeps its shape, the record of a set_value that ended *)
(* well lasts until something that may change it begins and is what a read *)
(* returns, and a listing by pages gives every key that stays, in order.   *)
(***************************************************************************)
EXTENDS KeyValueStore, SequenceTheorems, TLAPS

-------------------------------------------------------------------------------
(* Type correctness *)

\* No call outlives its client.
NoStrayCall == client.kind # "open" => \A t \in Tasks : task[t] = Idle

\* What an opening lists stays there while the rules look at it.
ListedThere == client.kind \in {"keys", "sweep"} => \A n \in client.listed : HasFile(n)

TypeInv == TypeOK /\ NoStrayCall /\ ListedThere

LEMMA CallType ==
    ASSUME TypeOK, NEW t \in Tasks
    PROVE  /\ task[t] \in Calls
           /\ IsChange(task[t]) => task[t] \in Changes
           /\ task[t].kind \in {"find", "stat", "bytes", "got"} => task[t] \in Reads
           /\ task[t].kind \in {"list", "scan", "listed", "failed"} => task[t] \in Lists
           /\ task[t].kind = "clear" => task[t] \in Purges
    BY DEF TypeOK, Calls, Changes, Reads, Lists, Purges, IsChange, ChangeKinds

LEMMA ChangeExcept ==
    ASSUME NEW call \in Changes, NEW kind \in ChangeKinds
    PROVE  /\ [call EXCEPT !.kind = kind] \in Changes
           /\ [call EXCEPT !.clean = FALSE] \in Changes
    BY DEF Changes

LEMMA ReadExcept ==
    ASSUME NEW call \in Reads
    PROVE  /\ \A r \in Records : call.kind = "find" => [call EXCEPT !.record = r, !.kind = "stat"] \in Reads
           /\ call.kind = "find" => [call EXCEPT !.record = Absent, !.kind = "got"] \in Reads
           /\ \A kind \in {"bytes", "got"} : call.kind = "stat" => [call EXCEPT !.kind = kind] \in Reads
           /\ \A b \in Nat \cup {Absent} : call.kind = "bytes" => [call EXCEPT !.bytes = b, !.kind = "got"] \in Reads
           /\ call.kind = "bytes" => call.record.path \in Names
    BY DEF Reads, Records

LEMMA ListExcept ==
    ASSUME NEW call \in Lists, NEW kind \in {"list", "scan", "listed", "failed"},
           NEW cursor \in Keys \cup {None}, NEW todo \in SUBSET Keys, NEW page \in Seq(Keys),
           NEW seen \in BOOLEAN, NEW taken \in Seq(Keys), NEW lasting \in SUBSET Keys
    PROVE  /\ [call EXCEPT !.kind = kind] \in Lists
           /\ [call EXCEPT !.lasting = lasting] \in Lists
           /\ [call EXCEPT !.kind = kind, !.todo = todo, !.page = page, !.seen = seen] \in Lists
           /\ [call EXCEPT !.todo = todo, !.seen = seen, !.page = page, !.lasting = lasting] \in Lists
           /\ [call EXCEPT !.kind = kind, !.taken = taken, !.cursor = cursor] \in Lists
    BY DEF Lists

\* A full page without the key that shows there are more is not empty.
LEMMA FrontOfPage ==
    ASSUME NEW s \in Seq(Keys), Len(s) > 1
    PROVE  Front(s) \in Seq(Keys) /\ Last(Front(s)) \in Keys
    <1>1. Len(s) \in Nat
        BY LenProperties
    <1>2. SubSeq(s, 1, Len(s) - 1) \in Seq(Keys) /\ Len(SubSeq(s, 1, Len(s) - 1)) = Len(s) - 1
        BY <1>1, SubSeqProperties
    <1>3. Front(s) = SubSeq(s, 1, Len(s) - 1)
        BY DEF Front
    <1>4. Len(Front(s)) = Len(s) - 1 /\ Front(s) \in Seq(Keys)
        BY <1>2, <1>3
    <1>5. Front(s)[Len(Front(s))] \in Keys
        BY <1>1, <1>4, ElementOfSeq
    <1> QED BY <1>4, <1>5 DEF Last

LEMMA PurgeExcept ==
    ASSUME NEW call \in Purges, NEW names \in SUBSET Names, NEW records \in SUBSET Keys
    PROVE  /\ [call EXCEPT !.names = names] \in Purges
           /\ [call EXCEPT !.records = records] \in Purges
    BY DEF Purges

LEMMA KindsOfCalls == Changes \cup Reads \cup Lists \cup Purges \cup {Idle} \subseteq Calls
    BY DEF Calls, Idle

\* The bound file of a key is one of the file names.
LEMMA BoundFileType ==
    ASSUME TypeOK, NamesAssumption, NEW k \in Keys
    PROVE  BoundFile(k) \in Names
    <1>1. CASE HasSidecar(k)
        <2>1. sidecars[k] \in Records
            BY <1>1 DEF TypeOK, HasSidecar
        <2> QED BY <1>1, <2>1 DEF BoundFile, Records
    <1>2. CASE ~HasSidecar(k)
        BY <1>2 DEF BoundFile, NamesAssumption
    <1> QED BY <1>1, <1>2

LEMMA NoteRemovedType ==
    ASSUME NEW call \in Calls, NEW ks \in SUBSET Keys
    PROVE  NoteRemoved(call, ks) \in Calls
    <1>1. CASE call.kind \in {"list", "scan", "listed", "failed"}
        <2>1. call \in Lists
            BY <1>1 DEF Calls, Changes, Reads, Lists, Purges, ChangeKinds
        <2>2. call.lasting \ ks \in SUBSET Keys
            BY <2>1 DEF Lists
        <2>3. [call EXCEPT !.lasting = call.lasting \ ks] \in Lists
            BY <2>1, <2>2 DEF Lists
        <2> QED BY <1>1, <2>3, KindsOfCalls DEF NoteRemoved
    <1>2. CASE call.kind \notin {"list", "scan", "listed", "failed"}
        BY <1>2 DEF NoteRemoved
    <1> QED BY <1>1, <1>2

\* A change that begins, and a sidecar that is taken away, leave calls.
LEMMA BeginType ==
    ASSUME TypeOK, SentinelAssumption, NEW t \in Tasks, NEW k, NEW names, NEW call \in Changes,
           Begin(t, k, names, call)
    PROVE  task' \in [Tasks -> Calls] /\ kept' \in [Keys -> Nat \cup {None}]
    <1>1. ASSUME NEW u \in Tasks
          PROVE  task'[u] \in Calls
        <2>1. CASE u = t
            BY <2>1, KindsOfCalls DEF Begin
        <2>2. CASE u # t /\ Meets(task[u], k, names)
            <3>1. task[u] \in Changes
                BY <2>2, CallType DEF Meets
            <3>2. [task[u] EXCEPT !.clean = FALSE] \in Changes
                BY <3>1 DEF Changes
            <3> QED BY <2>2, <3>2, KindsOfCalls DEF Begin
        <2>3. CASE u # t /\ ~Meets(task[u], k, names)
            BY <2>3 DEF Begin, TypeOK
        <2> QED BY <2>1, <2>2, <2>3
    <1>2. kept' \in [Keys -> Nat \cup {None}]
        BY DEF Begin, TypeOK
    <1>3. task' = [u \in Tasks |-> task'[u]]
        BY DEF Begin
    <1> QED BY <1>1, <1>2, <1>3

LEMMA LoseSidecarType ==
    ASSUME TypeOK, NEW t \in Tasks, NEW k \in Keys, NEW call \in Calls, LoseSidecar(t, k, call)
    PROVE  task' \in [Tasks -> Calls] /\ sidecars' \in [Keys -> Records \cup {Absent}]
    <1>1. \A u \in Tasks : NoteRemoved(task[u], {k}) \in Calls
        BY NoteRemovedType DEF TypeOK
    <1> QED BY <1>1 DEF LoseSidecar, TypeOK

\* Whatever a call does, an open client is not opening.
LEMMA OpenStep ==
    ASSUME client.kind = "open", UNCHANGED client
    PROVE  NoStrayCall' /\ ListedThere'
    BY DEF NoStrayCall, ListedThere

LEMMA Working ==
    ASSUME NoStrayCall, NEW t \in Tasks, task[t].kind # "idle"
    PROVE  client.kind = "open"
    BY DEF NoStrayCall, Idle

\* A call goes on as a call.
LEMMA CallStep ==
    ASSUME TypeInv, client.kind = "open", NEW t \in Tasks, NEW call \in Calls, Go(t, call),
           values' \in [Names -> Nat \cup {Absent}], sidecars' \in [Keys -> Records \cup {Absent}],
           store' \in BOOLEAN, kept' \in [Keys -> Nat \cup {None}], stamp' \in Nat, faults' \in Nat,
           UNCHANGED client
    PROVE  TypeInv'
    <1>1. task' \in [Tasks -> Calls]
        BY DEF Go, TypeInv, TypeOK
    <1> QED BY <1>1, OpenStep DEF TypeInv, TypeOK

\* A change goes on with its next part.
LEMMA ChangeStep ==
    ASSUME TypeInv, NEW t \in Tasks, IsChange(task[t]), NEW kind \in ChangeKinds,
           Go(t, [task[t] EXCEPT !.kind = kind]),
           values' \in [Names -> Nat \cup {Absent}], sidecars' \in [Keys -> Records \cup {Absent}],
           store' \in BOOLEAN, kept' \in [Keys -> Nat \cup {None}], stamp' \in Nat, faults' \in Nat,
           UNCHANGED client
    PROVE  TypeInv'
    <1> DEFINE call == [task[t] EXCEPT !.kind = kind]
    <1>1. call \in Calls
        BY CallType, ChangeExcept, KindsOfCalls DEF TypeInv
    <1>2. client.kind = "open"
        BY Working DEF TypeInv, IsChange, ChangeKinds
    <1> HIDE DEF call
    <1>3. Go(t, call)
        BY DEF call
    <1> QED BY <1>1, <1>2, <1>3, CallStep

\* A call ends.
LEMMA IdleStep ==
    ASSUME TypeInv, NEW t \in Tasks, task[t].kind # "idle", Go(t, Idle),
           values' \in [Names -> Nat \cup {Absent}], sidecars' \in [Keys -> Records \cup {Absent}],
           store' \in BOOLEAN, kept' \in [Keys -> Nat \cup {None}], stamp' \in Nat, faults' \in Nat,
           UNCHANGED client
    PROVE  TypeInv'
    BY CallStep, Working, KindsOfCalls DEF TypeInv

LEMMA ChangingKeepsType ==
    ASSUME TypeInv, NamesAssumption, CallsAssumption, SentinelAssumption, NEW t \in Tasks, Changing(t)
    PROVE  TypeInv'
    <1>1. CASE SetValue(t)
        <2>1. PICK b \in Bindings :
                 LET old == IF HasSidecar(b.key) THEN sidecars[b.key].path ELSE b.path
                     names == {b.path, old}
                 IN  Begin(t, b.key, names,
                           [kind |-> IF old = b.path THEN "value" ELSE "unbind", key |-> b.key,
                            path |-> b.path, old |-> old, of |-> stamp',
                            clean |-> ~Purging /\ ~\E u \in Tasks : Meets(task[u], b.key, names)])
            BY <1>1 DEF SetValue
        <2> DEFINE old == IF HasSidecar(b.key) THEN sidecars[b.key].path ELSE b.path
        <2> DEFINE clean == ~Purging /\ ~\E u \in Tasks : Meets(task[u], b.key, {b.path, old})
        <2> DEFINE call == [kind |-> IF old = b.path THEN "value" ELSE "unbind", key |-> b.key,
                            path |-> b.path, old |-> old, of |-> stamp', clean |-> clean]
        <2>2. b.key \in Keys /\ b.path \in Names
            BY DEF CallsAssumption
        <2>3. old \in Names
            BY <2>2 DEF TypeInv, TypeOK, HasSidecar, Records
        <2>4. stamp' \in Nat
            BY <1>1 DEF SetValue, TypeInv, TypeOK
        <2>5. clean \in BOOLEAN
            OBVIOUS
        <2>6. call \in Changes
            <3> HIDE DEF old, clean
            <3> QED BY <2>2, <2>3, <2>4, <2>5 DEF Changes, ChangeKinds
        <2>7. Begin(t, b.key, {b.path, old}, call)
            BY <2>1
        <2> HIDE DEF call, old, clean
        <2>8. task' \in [Tasks -> Calls] /\ kept' \in [Keys -> Nat \cup {None}]
            BY <2>6, <2>7, BeginType DEF TypeInv
        <2> QED BY <1>1, <2>4, <2>8, OpenStep DEF SetValue, Ready, TypeInv, TypeOK
    <1>2. CASE Unbind(t)
        <2>1. values' \in [Names -> Nat \cup {Absent}]
            BY <1>2 DEF Unbind, TypeInv, TypeOK
        <2> QED BY <1>2, <2>1, ChangeStep DEF Unbind, IsChange, ChangeKinds, TypeInv, TypeOK
    <1>3. CASE WriteValue(t)
        <2>1. task[t].of \in Nat
            BY <1>3, CallType DEF WriteValue, TypeInv, IsChange, ChangeKinds, Changes
        <2>2. values' \in [Names -> Nat \cup {Absent}]
            BY <1>3, <2>1 DEF WriteValue, TypeInv, TypeOK
        <2> QED BY <1>3, <2>2, ChangeStep DEF WriteValue, IsChange, ChangeKinds, TypeInv, TypeOK
    <1>4. CASE WriteSidecar(t)
        <2>1. [of |-> task[t].of, path |-> task[t].path] \in Records
            BY <1>4, CallType DEF WriteSidecar, TypeInv, IsChange, ChangeKinds, Changes, Records
        <2>2. sidecars' \in [Keys -> Records \cup {Absent}]
            BY <1>4, <2>1 DEF WriteSidecar, TypeInv, TypeOK
        <2> QED BY <1>4, <2>2, ChangeStep DEF WriteSidecar, IsChange, ChangeKinds, TypeInv, TypeOK
    <1>5. CASE SetDone(t)
        <2>1. task[t].of \in Nat
            BY <1>5, CallType DEF SetDone, TypeInv, IsChange, ChangeKinds, Changes
        <2>2. kept' \in [Keys -> Nat \cup {None}]
            BY <1>5, <2>1 DEF SetDone, TypeInv, TypeOK
        <2> QED BY <1>5, <2>2, IdleStep DEF SetDone, TypeInv, TypeOK
    <1>6. CASE DeleteValue(t)
        <2>1. PICK k \in Keys :
                 Begin(t, k, {BoundFile(k)},
                       [kind |-> "look", key |-> k, path |-> BoundFile(k), old |-> BoundFile(k),
                        of |-> 0, clean |-> FALSE])
            BY <1>6 DEF DeleteValue
        <2>2. BoundFile(k) \in Names
            BY BoundFileType DEF TypeInv
        <2>3. [kind |-> "look", key |-> k, path |-> BoundFile(k), old |-> BoundFile(k),
               of |-> 0, clean |-> FALSE] \in Changes
            BY <2>2 DEF Changes, ChangeKinds
        <2>4. task' \in [Tasks -> Calls] /\ kept' \in [Keys -> Nat \cup {None}]
            BY <2>1, <2>3, BeginType DEF TypeInv
        <2> QED BY <1>6, <2>4, OpenStep DEF DeleteValue, Ready, TypeInv, TypeOK
    <1>7. CASE LookForValue(t)
        <2> DEFINE kind == IF HasFile(task[t].path) THEN "remove" ELSE "lookSidecar"
        <2>1. kind \in ChangeKinds
            BY DEF ChangeKinds
        <2>2. Go(t, [task[t] EXCEPT !.kind = kind])
            BY <1>7 DEF LookForValue
        <2> HIDE DEF kind
        <2> QED BY <1>7, <2>1, <2>2, ChangeStep DEF LookForValue, IsChange, ChangeKinds, TypeInv, TypeOK
    <1>8. CASE RemoveValue(t)
        <2>1. values' \in [Names -> Nat \cup {Absent}]
            BY <1>8 DEF RemoveValue, TypeInv, TypeOK
        <2>2. CASE HasFile(task[t].path)
            BY <1>8, <2>1, <2>2, ChangeStep DEF RemoveValue, IsChange, ChangeKinds, TypeInv, TypeOK
        <2>3. CASE ~HasFile(task[t].path)
            BY <1>8, <2>1, <2>3, IdleStep DEF RemoveValue, TypeInv, TypeOK
        <2> QED BY <2>2, <2>3
    <1>9. CASE LookForSidecar(t)
        <2> DEFINE kind == IF HasSidecar(task[t].key) THEN "removeSidecar" ELSE "touch"
        <2>1. kind \in ChangeKinds
            BY DEF ChangeKinds
        <2>2. Go(t, [task[t] EXCEPT !.kind = kind])
            BY <1>9 DEF LookForSidecar
        <2> HIDE DEF kind
        <2> QED BY <1>9, <2>1, <2>2, ChangeStep DEF LookForSidecar, IsChange, ChangeKinds, TypeInv, TypeOK
    <1>10. CASE RemoveSidecar(t)
        <2> DEFINE call == IF HasSidecar(task[t].key) THEN [task[t] EXCEPT !.kind = "touch"] ELSE Idle
        <2>1. task[t] \in Changes
            BY <1>10, CallType DEF RemoveSidecar, TypeInv, IsChange, ChangeKinds
        <2>2. task[t].key \in Keys
            BY <2>1 DEF Changes
        <2>3. call \in Calls
            BY <2>1, ChangeExcept, KindsOfCalls DEF ChangeKinds
        <2>4. LoseSidecar(t, task[t].key, call)
            BY <1>10 DEF RemoveSidecar
        <2> HIDE DEF call
        <2>5. task' \in [Tasks -> Calls] /\ sidecars' \in [Keys -> Records \cup {Absent}]
            BY <2>2, <2>3, <2>4, LoseSidecarType DEF TypeInv
        <2>6. client.kind = "open"
            BY <1>10, Working DEF RemoveSidecar, TypeInv
        <2> QED BY <1>10, <2>5, <2>6, OpenStep DEF RemoveSidecar, TypeInv, TypeOK
    <1>11. CASE DeleteDone(t)
        BY <1>11, IdleStep DEF DeleteDone, TypeInv, TypeOK
    <1> QED BY <1>1, <1>2, <1>3, <1>4, <1>5, <1>6, <1>7, <1>8, <1>9, <1>10, <1>11 DEF Changing

\* A read or a listing, which leaves everything but the store's metadata alone.
LEMMA ReadStep ==
    ASSUME TypeInv, client.kind = "open", NEW t \in Tasks, NEW call \in Reads \cup Lists, Go(t, call),
           store' \in BOOLEAN, UNCHANGED <<values, sidecars, client, kept, stamp, faults>>
    PROVE  TypeInv'
    <1>1. call \in Calls
        BY KindsOfCalls
    <1> QED BY <1>1, CallStep DEF TypeInv, TypeOK

LEMMA ReadingKeepsType ==
    ASSUME TypeInv, NamesAssumption, CallsAssumption, SentinelAssumption, NEW t \in Tasks, Reading(t)
    PROVE  TypeInv'
    <1>1. CASE ReadValue(t)
        <2>1. PICK k \in Keys :
                 Go(t, [kind |-> "find", key |-> k, expect |-> kept[k], record |-> Absent, bytes |-> Absent])
            BY <1>1 DEF ReadValue
        <2>2. kept[k] \in Nat \cup {None}
            BY DEF TypeInv, TypeOK
        <2>3. [kind |-> "find", key |-> k, expect |-> kept[k], record |-> Absent, bytes |-> Absent] \in Reads
            BY <2>2 DEF Reads
        <2> QED BY <1>1, <2>1, <2>3, ReadStep DEF ReadValue, Ready
    <1>2. CASE FindRecord(t)
        <2>1. task[t] \in Reads
            BY <1>2, CallType DEF FindRecord, TypeInv
        <2>2. client.kind = "open"
            BY <1>2, Working DEF FindRecord, TypeInv
        <2>3. CASE HasSidecar(task[t].key)
            <3>1. task[t].key \in Keys
                BY <2>1 DEF Reads
            <3>2. sidecars[task[t].key] \in Records
                BY <2>3, <3>1 DEF HasSidecar, TypeInv, TypeOK
            <3>3. [task[t] EXCEPT !.record = sidecars[task[t].key], !.kind = "stat"] \in Reads
                BY <1>2, <2>1, <3>2, ReadExcept DEF FindRecord
            <3> QED BY <1>2, <2>2, <2>3, <3>3, ReadStep DEF FindRecord, TypeInv, TypeOK
        <2>4. CASE ~HasSidecar(task[t].key)
            <3>1. [task[t] EXCEPT !.record = Absent, !.kind = "got"] \in Reads
                BY <1>2, <2>1, ReadExcept DEF FindRecord
            <3>2. Go(t, [task[t] EXCEPT !.record = Absent, !.kind = "got"])
                BY <1>2, <2>4 DEF FindRecord, HasSidecar
            <3> QED BY <1>2, <2>2, <3>1, <3>2, ReadStep DEF FindRecord, TypeInv, TypeOK
        <2> QED BY <2>3, <2>4
    <1>3. CASE StatValue(t)
        <2> DEFINE kind == IF HasFile(task[t].record.path) THEN "bytes" ELSE "got"
        <2>1. task[t] \in Reads
            BY <1>3, CallType DEF StatValue, TypeInv
        <2>2. kind \in {"bytes", "got"}
            OBVIOUS
        <2>3. Go(t, [task[t] EXCEPT !.kind = kind])
            BY <1>3 DEF StatValue
        <2> HIDE DEF kind
        <2>4. [task[t] EXCEPT !.kind = kind] \in Reads
            BY <1>3, <2>1, <2>2, ReadExcept DEF StatValue
        <2>5. client.kind = "open"
            BY <1>3, Working DEF StatValue, TypeInv
        <2> QED BY <1>3, <2>3, <2>4, <2>5, ReadStep DEF StatValue, TypeInv, TypeOK
    <1>4. CASE ReadBytes(t)
        <2>1. task[t] \in Reads
            BY <1>4, CallType DEF ReadBytes, TypeInv
        <2>2. values[task[t].record.path] \in Nat \cup {Absent}
            <3>1. task[t].record.path \in Names
                BY <1>4, <2>1, ReadExcept DEF ReadBytes
            <3> QED BY <3>1 DEF TypeInv, TypeOK
        <2>3. [task[t] EXCEPT !.bytes = values[task[t].record.path], !.kind = "got"] \in Reads
            BY <1>4, <2>1, <2>2, ReadExcept DEF ReadBytes
        <2>4. client.kind = "open"
            BY <1>4, Working DEF ReadBytes, TypeInv
        <2> QED BY <1>4, <2>3, <2>4, ReadStep DEF ReadBytes, TypeInv, TypeOK
    <1>5. CASE ListKeys(t)
        <2>1. [kind |-> "list", cursor |-> None, todo |-> {}, page |-> << >>, seen |-> FALSE,
               taken |-> << >>, lasting |-> SidecarsThere] \in Lists
            BY DEF Lists, SidecarsThere
        <2> QED BY <1>5, <2>1, ReadStep DEF ListKeys, Ready, TypeInv, TypeOK
    <1>6. CASE ListPage(t)
        <2>1. task[t] \in Lists
            BY <1>6, CallType DEF ListPage, TypeInv
        <2>2. SidecarsThere \in SUBSET Keys /\ << >> \in Seq(Keys)
            BY DEF SidecarsThere
        <2>3. [task[t] EXCEPT !.kind = "scan", !.todo = SidecarsThere, !.page = << >>, !.seen = FALSE] \in Lists
            BY <2>1, <2>2 DEF Lists
        <2>4. client.kind = "open"
            BY <1>6, Working DEF ListPage, TypeInv
        <2> QED BY <1>6, <2>3, <2>4, ReadStep DEF ListPage, TypeInv, TypeOK
    <1>7. CASE PageDone(t)
        <2> DEFINE call == task[t]
        <2> DEFINE shown == IF PageFull(call) THEN Front(call.page) ELSE call.page
        <2> DEFINE kind == IF PageFull(call) THEN "list" ELSE "listed"
        <2> DEFINE cursor == IF PageFull(call) THEN Last(shown) ELSE call.cursor
        <2>1. call \in Lists
            BY <1>7, CallType DEF PageDone, TypeInv
        <2>2. call.page \in Seq(Keys) /\ call.taken \in Seq(Keys) /\ call.cursor \in Keys \cup {None}
            BY <2>1 DEF Lists
        <2>3. PageFull(call) => Front(call.page) \in Seq(Keys) /\ Last(Front(call.page)) \in Keys
            <3>1. PageFull(call) => Len(call.page) > 1
                BY <2>2, LenProperties DEF PageFull, CallsAssumption
            <3> QED BY <3>1, <2>2, FrontOfPage
        <2>4. shown \in Seq(Keys)
            BY <2>2, <2>3
        <2>5. cursor \in Keys \cup {None}
            BY <2>2, <2>3
        <2>6. kind \in {"list", "scan", "listed", "failed"}
            OBVIOUS
        <2>7. Go(t, [call EXCEPT !.kind = kind, !.taken = call.taken \o shown, !.cursor = cursor])
            BY <1>7 DEF PageDone
        <2> HIDE DEF call, shown, kind, cursor
        <2>8. call.taken \o shown \in Seq(Keys)
            BY <2>2, <2>4, ConcatProperties
        <2>9. [call EXCEPT !.kind = kind, !.taken = call.taken \o shown, !.cursor = cursor] \in Lists
            BY <2>1, <2>5, <2>6, <2>8 DEF Lists
        <2>10. client.kind = "open"
            BY <1>7, Working DEF PageDone, TypeInv
        <2> QED BY <1>7, <2>7, <2>9, <2>10, ReadStep DEF PageDone, TypeInv, TypeOK
    <1>8. CASE CursorLost(t)
        <2>1. task[t] \in Lists
            BY <1>8, CallType DEF CursorLost, TypeInv
        <2>2. [task[t] EXCEPT !.kind = "failed"] \in Lists
            BY <2>1 DEF Lists
        <2>3. client.kind = "open"
            BY <1>8, Working DEF CursorLost, TypeInv
        <2> QED BY <1>8, <2>2, <2>3, ReadStep DEF CursorLost, TypeInv, TypeOK
    <1>9. ASSUME NEW k \in Keys, ScanKey(t, k)
          PROVE  TypeInv'
        <2> DEFINE call == task[t]
        <2> DEFINE shown == HasSidecar(k) /\ PastCursor(call, k) /\ ~PageFull(call)
        <2> DEFINE todo == call.todo \ {k}
        <2> DEFINE seen == call.seen \/ (HasSidecar(k) /\ k = call.cursor)
        <2> DEFINE page == IF shown THEN Append(call.page, k) ELSE call.page
        <2> DEFINE lasting == IF shown THEN call.lasting \cup {k} ELSE call.lasting
        <2>1. call \in Lists
            BY <1>9, CallType DEF ScanKey, TypeInv
        <2>2. todo \in SUBSET Keys /\ seen \in BOOLEAN
            BY <2>1 DEF Lists
        <2>3. page \in Seq(Keys)
            BY <2>1, AppendProperties DEF Lists
        <2>4. lasting \in SUBSET Keys
            BY <2>1 DEF Lists
        <2>5. Go(t, [call EXCEPT !.todo = todo, !.seen = seen, !.page = page, !.lasting = lasting])
            BY <1>9 DEF ScanKey
        <2> HIDE DEF call, todo, seen, page, lasting
        <2>6. [call EXCEPT !.todo = todo, !.seen = seen, !.page = page, !.lasting = lasting] \in Lists
            BY <2>1, <2>2, <2>3, <2>4 DEF Lists
        <2>7. client.kind = "open"
            BY <1>9, Working DEF ScanKey, TypeInv
        <2> QED BY <1>9, <2>5, <2>6, <2>7, ReadStep DEF ScanKey, TypeInv, TypeOK
    <1> QED BY <1>1, <1>2, <1>3, <1>4, <1>5, <1>6, <1>7, <1>8, <1>9 DEF Reading

\* A purge and a drop tell the other calls.
LEMMA TellType ==
    ASSUME TypeOK, NEW u \in Tasks
    PROVE  IsChange(task[u]) => [task[u] EXCEPT !.clean = FALSE] \in Calls
    <1>1. IsChange(task[u]) => task[u] \in Changes
        BY CallType
    <1>2. IsChange(task[u]) => [task[u] EXCEPT !.clean = FALSE] \in Changes
        BY <1>1 DEF Changes
    <1> QED BY <1>2, KindsOfCalls

LEMMA ClearingKeepsType ==
    ASSUME TypeInv, NamesAssumption, CallsAssumption, SentinelAssumption, NEW t \in Tasks, Clearing(t)
    PROVE  TypeInv'
    <1>1. CASE Purge(t)
        <2>1. PICK keep \in Keeps :
                 /\ task' = [u \in Tasks |->
                        IF u = t THEN [kind |-> "clear", keep |-> keep, spare |-> Spared(keep),
                                       names |-> FilesThere \ Spared(keep), records |-> SidecarsThere \ keep]
                        ELSE IF IsChange(task[u]) THEN [task[u] EXCEPT !.clean = FALSE]
                        ELSE task[u]]
                 /\ kept' = [k \in Keys |-> IF k \in keep THEN kept[k] ELSE None]
            BY <1>1 DEF Purge
        <2>2. keep \in SUBSET Keys
            BY DEF CallsAssumption
        <2>3. Spared(keep) \in SUBSET Names
            BY <2>2, BoundFileType DEF Spared, TypeInv
        <2>4. [kind |-> "clear", keep |-> keep, spare |-> Spared(keep),
               names |-> FilesThere \ Spared(keep), records |-> SidecarsThere \ keep] \in Purges
            <3>1. FilesThere \ Spared(keep) \in SUBSET Names /\ SidecarsThere \ keep \in SUBSET Keys
                BY DEF FilesThere, SidecarsThere
            <3> QED BY <2>2, <2>3, <3>1 DEF Purges
        <2>5. \A u \in Tasks : IsChange(task[u]) => [task[u] EXCEPT !.clean = FALSE] \in Calls
            BY TellType DEF TypeInv
        <2>6. task' \in [Tasks -> Calls]
            BY <2>1, <2>4, <2>5, KindsOfCalls DEF TypeInv, TypeOK
        <2>7. kept' \in [Keys -> Nat \cup {None}]
            BY <2>1 DEF TypeInv, TypeOK
        <2> QED BY <1>1, <2>6, <2>7, OpenStep DEF Purge, Ready, TypeInv, TypeOK
    <1>2. CASE PurgeDone(t)
        BY <1>2, IdleStep DEF PurgeDone, TypeInv, TypeOK
    <1>3. CASE DropStorage(t)
        <2>1. PICK failed \in SUBSET {u \in Tasks : task[u].kind \in {"value", "record"}} :
                 task' = [u \in Tasks |->
                     IF u = t \/ u \in failed THEN Idle
                     ELSE IF IsChange(task[u]) THEN [task[u] EXCEPT !.clean = FALSE]
                     ELSE NoteRemoved(task[u], SidecarsThere)]
            BY <1>3 DEF DropStorage
        <2>2. \A u \in Tasks : IsChange(task[u]) => [task[u] EXCEPT !.clean = FALSE] \in Calls
            BY TellType DEF TypeInv
        <2>3. \A u \in Tasks : NoteRemoved(task[u], SidecarsThere) \in Calls
            BY NoteRemovedType DEF SidecarsThere, TypeInv, TypeOK
        <2>4. task' \in [Tasks -> Calls]
            BY <2>1, <2>2, <2>3, KindsOfCalls
        <2> QED BY <1>3, <2>4, OpenStep DEF DropStorage, Ready, TypeInv, TypeOK
    <1>4. ASSUME NEW n \in Names, PurgeValue(t, n)
          PROVE  TypeInv'
        <2>1. task[t] \in Purges
            BY <1>4, CallType DEF PurgeValue, TypeInv
        <2>2. task[t].names \ {n} \in SUBSET Names
            BY <2>1 DEF Purges
        <2>3. [task[t] EXCEPT !.names = task[t].names \ {n}] \in Calls
            BY <2>1, <2>2, KindsOfCalls DEF Purges
        <2>4. Go(t, [task[t] EXCEPT !.names = task[t].names \ {n}])
            BY <1>4 DEF PurgeValue
        <2>5. values' \in [Names -> Nat \cup {Absent}]
            BY <1>4 DEF PurgeValue, TypeInv, TypeOK
        <2>6. client.kind = "open"
            BY <1>4, Working DEF PurgeValue, TypeInv
        <2> QED BY <1>4, <2>3, <2>4, <2>5, <2>6, CallStep DEF PurgeValue, TypeInv, TypeOK
    <1>5. ASSUME NEW k \in Keys, PurgeSidecar(t, k)
          PROVE  TypeInv'
        <2>1. task[t] \in Purges
            BY <1>5, CallType DEF PurgeSidecar, TypeInv
        <2>2. task[t].records \ {k} \in SUBSET Keys
            BY <2>1 DEF Purges
        <2>3. [task[t] EXCEPT !.records = task[t].records \ {k}] \in Calls
            BY <2>1, <2>2, KindsOfCalls DEF Purges
        <2>4. LoseSidecar(t, k, [task[t] EXCEPT !.records = task[t].records \ {k}])
            BY <1>5 DEF PurgeSidecar
        <2>5. task' \in [Tasks -> Calls] /\ sidecars' \in [Keys -> Records \cup {Absent}]
            BY <2>3, <2>4, LoseSidecarType DEF TypeInv
        <2>6. client.kind = "open"
            BY <1>5, Working DEF PurgeSidecar, TypeInv
        <2> QED BY <1>5, <2>5, <2>6, OpenStep DEF PurgeSidecar, TypeInv, TypeOK
    <1>6. ASSUME NEW u \in Tasks, PurgeTemporary(t, u)
          PROVE  TypeInv'
        BY <1>6, IdleStep DEF PurgeTemporary, TypeInv, TypeOK
    <1> QED BY <1>1, <1>2, <1>3, <1>4, <1>5, <1>6 DEF Clearing

\* A step of an opening: no call is under way.
LEMMA OpeningStep ==
    ASSUME TypeInv, client.kind # "open", client' \in Openings,
           client'.kind \in {"keys", "sweep"} => \A n \in client'.listed : HasFile(n),
           sidecars' \in [Keys -> Records \cup {Absent}], store' \in BOOLEAN, faults' \in Nat,
           UNCHANGED <<values, task, kept, stamp>>
    PROVE  TypeInv'
    BY DEF TypeInv, TypeOK, NoStrayCall, ListedThere, HasFile

Adoptions == {call \in Openings : call.kind \in {"keys", "sweep"}}

LEMMA AdoptionExcept ==
    ASSUME NEW a \in Adoptions, NEW todo \in SUBSET Adoptable, NEW owned \in SUBSET Names
    PROVE  /\ [a EXCEPT !.kind = "sweep"] \in Adoptions
           /\ [a EXCEPT !.todo = todo] \in Adoptions
           /\ [a EXCEPT !.owned = owned] \in Adoptions
           /\ [a EXCEPT !.todo = todo, !.owned = owned] \in Adoptions
           /\ [a EXCEPT !.kind = "sweep"].listed = a.listed
           /\ [a EXCEPT !.todo = todo].listed = a.listed
           /\ [a EXCEPT !.owned = owned].listed = a.listed
           /\ [a EXCEPT !.todo = todo, !.owned = owned].listed = a.listed
           /\ a.todo \in SUBSET Adoptable /\ a.owned \in SUBSET Names /\ a.listed \in SUBSET Names
    BY DEF Adoptions, Openings

LEMMA KindsOfOpenings ==
    [kind |-> "closed"] \in Openings /\ [kind |-> "create"] \in Openings
        /\ [kind |-> "adopt"] \in Openings /\ [kind |-> "open"] \in Openings /\ Adoptions \subseteq Openings
    BY DEF Openings, Adoptions

LEMMA OwnedFilesType ==
    ASSUME TypeOK, NamesAssumption, CallsAssumption
    PROVE  OwnedFiles \in SUBSET Names
    <1>1. \A k \in SidecarsThere : Own[k] \in Names
        BY DEF SidecarsThere, NamesAssumption
    <1>2. \A k \in SidecarsThere : sidecars[k].path \in Names
        BY DEF SidecarsThere, HasSidecar, TypeOK, Records
    <1>3. \A a \in Adoptable : a.files \in SUBSET Names
        BY DEF CallsAssumption
    <1> QED BY <1>1, <1>2, <1>3 DEF OwnedFiles

LEMMA OpeningKeepsType ==
    ASSUME TypeInv, NamesAssumption, CallsAssumption, SentinelAssumption, Opening
    PROVE  TypeInv'
    <1>0. client.kind \in {"keys", "sweep"} => client \in Adoptions
        BY DEF Adoptions, TypeInv, TypeOK
    <1>1. CASE Open
        <2>1. [kind |-> IF store THEN "adopt" ELSE "create"] \in Openings
            BY DEF Openings
        <2> QED BY <1>1, <2>1, OpeningStep DEF Open, Become, Closed, TypeInv, TypeOK
    <1>2. CASE Create
        BY <1>2, OpeningStep, KindsOfOpenings DEF Create, Become, TypeInv, TypeOK
    <1>3. CASE ListForAdoption
        <2>1. [kind |-> "keys", todo |-> Adoptable, listed |-> FilesThere,
               records |-> SidecarsThere, owned |-> OwnedFiles] \in Openings
            BY OwnedFilesType DEF Openings, FilesThere, SidecarsThere, TypeInv
        <2>2. \A n \in FilesThere : HasFile(n)
            BY DEF FilesThere
        <2> QED BY <1>3, <2>1, <2>2, OpeningStep DEF ListForAdoption, Become, TypeInv, TypeOK
    <1>4. CASE StartSweep
        <2>1. [client EXCEPT !.kind = "sweep"] \in Adoptions
              /\ [client EXCEPT !.kind = "sweep"].listed = client.listed
            BY <1>0, <1>4, AdoptionExcept DEF StartSweep
        <2> QED BY <1>4, <2>1, OpeningStep, KindsOfOpenings
                DEF StartSweep, Become, ListedThere, TypeInv, TypeOK
    <1>5. CASE OpenDone
        BY <1>5, OpeningStep, KindsOfOpenings DEF OpenDone, Become, TypeInv, TypeOK
    <1>6. ASSUME NEW a \in Adoptable, NothingToAdopt(a)
          PROVE  TypeInv'
        <2> DEFINE todo == client.todo \ {a}
        <2>1. client \in Adoptions
            BY <1>0, <1>6 DEF NothingToAdopt
        <2>2. todo \in SUBSET Adoptable
            BY <2>1, AdoptionExcept
        <2>3. client' = [client EXCEPT !.todo = todo]
            BY <1>6 DEF NothingToAdopt, Become
        <2> HIDE DEF todo
        <2>4. client' \in Adoptions /\ client'.listed = client.listed
            BY <2>1, <2>2, <2>3, AdoptionExcept
        <2> QED BY <1>6, <2>4, OpeningStep, KindsOfOpenings
                DEF NothingToAdopt, ListedThere, TypeInv, TypeOK
    <1>7. ASSUME NEW a \in Adoptable, Ambiguous(a)
          PROVE  TypeInv'
        BY <1>7, OpeningStep, KindsOfOpenings DEF Ambiguous, Become, Closed, TypeInv, TypeOK
    <1>8. ASSUME NEW a \in Adoptable, NEW n \in a.files, AdoptForKey(a, n)
          PROVE  TypeInv'
        <2> DEFINE todo == client.todo \ {a}
        <2> DEFINE owned == client.owned \cup {n, Own[a.key]}
        <2>1. client \in Adoptions
            BY <1>0, <1>8 DEF AdoptForKey
        <2>2. a.key \in Keys /\ n \in Names /\ Own[a.key] \in Names
            BY DEF CallsAssumption, NamesAssumption
        <2>3. todo \in SUBSET Adoptable /\ owned \in SUBSET Names
            BY <2>1, <2>2, AdoptionExcept
        <2>4. client' = [client EXCEPT !.todo = todo, !.owned = owned]
            BY <1>8 DEF AdoptForKey, Become
        <2> HIDE DEF todo, owned
        <2>5. client' \in Adoptions /\ client'.listed = client.listed
            <3>1. /\ [client EXCEPT !.todo = todo, !.owned = owned] \in Adoptions
                  /\ [client EXCEPT !.todo = todo, !.owned = owned].listed = client.listed
                BY <2>1, <2>3 DEF Adoptions, Openings
            <3> QED BY <2>4, <3>1
        <2>6. values[n] \in Nat
            BY <1>8, <2>2 DEF AdoptForKey, Claims, Present, HasFile, TypeInv, TypeOK
        <2>7. sidecars' \in [Keys -> Records \cup {Absent}]
            BY <1>8, <2>2, <2>6 DEF AdoptForKey, Records, TypeInv, TypeOK
        <2> QED BY <1>8, <2>5, <2>7, OpeningStep, KindsOfOpenings
                DEF AdoptForKey, ListedThere, TypeInv, TypeOK
    <1>9. ASSUME NEW n \in DOMAIN KeyFor, Sweep(n)
          PROVE  TypeInv'
        <2> DEFINE owned == client.owned \cup {n, Own[KeyFor[n]]}
        <2>1. client \in Adoptions
            BY <1>0, <1>9 DEF Sweep
        <2>2. KeyFor[n] \in Keys /\ n \in Names /\ Own[KeyFor[n]] \in Names
            BY DEF NamesAssumption
        <2>3. owned \in SUBSET Names
            BY <2>1, <2>2, AdoptionExcept
        <2>4. client' = [client EXCEPT !.owned = owned]
            BY <1>9 DEF Sweep, Become
        <2> HIDE DEF owned
        <2>5. client' \in Adoptions /\ client'.listed = client.listed
            BY <2>1, <2>3, <2>4, AdoptionExcept
        <2>6. values[n] \in Nat
            BY <1>9, <2>2 DEF Sweep, Swept, ListedThere, HasFile, TypeInv, TypeOK
        <2>7. sidecars' \in [Keys -> Records \cup {Absent}]
            BY <1>9, <2>2, <2>6 DEF Sweep, Records, TypeInv, TypeOK
        <2> QED BY <1>9, <2>5, <2>7, OpeningStep, KindsOfOpenings DEF Sweep, ListedThere, TypeInv, TypeOK
    <1> QED BY <1>1, <1>2, <1>3, <1>4, <1>5, <1>6, <1>7, <1>8, <1>9 DEF Opening

LEMMA FaultCounted ==
    ASSUME TypeOK, BoundsAssumption, NEW kind, MayFault(kind)
    PROVE  faults' \in Nat
    BY DEF MayFault, TypeOK

LEMMA TaskFaultKeepsType ==
    ASSUME TypeInv, BoundsAssumption, NEW t \in Tasks, WriteFails(t) \/ RemoveFails(t)
    PROVE  TypeInv'
    <1>1. CASE WriteFails(t)
        BY <1>1, FaultCounted, IdleStep DEF WriteFails, TypeInv, TypeOK
    <1>2. CASE RemoveFails(t)
        <2>1. faults' \in Nat
            BY <1>2, FaultCounted DEF RemoveFails, TypeInv
        <2>2. CASE task[t].kind = "unbind" /\ Go(t, [task[t] EXCEPT !.kind = "value"])
            BY <1>2, <2>1, <2>2, ChangeStep DEF RemoveFails, IsChange, ChangeKinds, TypeInv, TypeOK
        <2>3. CASE task[t].kind \in {"remove", "removeSidecar"} /\ Go(t, Idle)
            BY <1>2, <2>1, <2>3, IdleStep DEF RemoveFails, TypeInv, TypeOK
        <2>4. ASSUME NEW n \in Names, task[t].kind = "clear",
                     Go(t, [task[t] EXCEPT !.names = task[t].names \ {n}])
              PROVE  TypeInv'
            <3>1. task[t] \in Purges
                BY <2>4, CallType DEF TypeInv
            <3>2. [task[t] EXCEPT !.names = task[t].names \ {n}] \in Calls
                BY <3>1, KindsOfCalls DEF Purges
            <3>3. client.kind = "open"
                BY <2>4, Working DEF TypeInv
            <3> QED BY <1>2, <2>1, <2>4, <3>2, <3>3, CallStep DEF RemoveFails, TypeInv, TypeOK
        <2>5. ASSUME NEW k \in Keys, task[t].kind = "clear",
                     Go(t, [task[t] EXCEPT !.records = task[t].records \ {k}])
              PROVE  TypeInv'
            <3>1. task[t] \in Purges
                BY <2>5, CallType DEF TypeInv
            <3>2. [task[t] EXCEPT !.records = task[t].records \ {k}] \in Calls
                BY <3>1, KindsOfCalls DEF Purges
            <3>3. client.kind = "open"
                BY <2>5, Working DEF TypeInv
            <3> QED BY <1>2, <2>1, <2>5, <3>2, <3>3, CallStep DEF RemoveFails, TypeInv, TypeOK
        <2> QED BY <1>2, <2>2, <2>3, <2>4, <2>5 DEF RemoveFails
    <1> QED BY <1>1, <1>2

LEMMA StoreFaultKeepsType ==
    ASSUME TypeInv, NamesAssumption, CallsAssumption, SentinelAssumption, BoundsAssumption,
           Crash \/ OpenFails \/ \E n \in Outside : OutsideWrite(n)
    PROVE  TypeInv'
    <1>1. CASE Crash
        <2>1. faults' \in Nat
            BY <1>1, FaultCounted DEF Crash, TypeInv
        <2>2. task' \in [Tasks -> Calls] /\ client' \in Openings
            BY <1>1, KindsOfCalls, KindsOfOpenings DEF Crash, Become, Closed
        <2> QED BY <1>1, <2>1, <2>2 DEF Crash, Become, Closed, TypeInv, TypeOK, NoStrayCall, ListedThere
    <1>2. CASE OpenFails
        <2>1. faults' \in Nat
            BY <1>2, FaultCounted DEF OpenFails, TypeInv
        <2>2. client.kind # "open"
            BY <1>2 DEF OpenFails
        <2> QED BY <1>2, <2>1, <2>2, OpeningStep, KindsOfOpenings DEF OpenFails, Become, Closed, TypeInv, TypeOK
    <1>3. ASSUME NEW n \in Outside, OutsideWrite(n)
          PROVE  TypeInv'
        <2>1. stamp' \in Nat /\ n \in Names
            BY <1>3 DEF OutsideWrite, CallsAssumption, TypeInv, TypeOK
        <2>2. values' \in [Names -> Nat \cup {Absent}]
            BY <1>3, <2>1 DEF OutsideWrite, TypeInv, TypeOK
        <2>3. \A m \in Names : HasFile(m) => values'[m] # Absent
            BY <1>3, <2>1 DEF OutsideWrite, HasFile, SentinelAssumption, TypeInv, TypeOK
        <2>4. client.kind \in {"keys", "sweep"} => client.listed \in SUBSET Names
            BY DEF TypeInv, TypeOK, Openings
        <2> QED BY <1>3, <2>1, <2>2, <2>3, <2>4
                DEF OutsideWrite, TypeInv, TypeOK, NoStrayCall, ListedThere, HasFile
    <1> QED BY <1>1, <1>2, <1>3

LEMMA InitTyped ==
    ASSUME SentinelAssumption, Init
    PROVE  TypeInv
    BY KindsOfCalls, KindsOfOpenings DEF Init, TypeInv, TypeOK, NoStrayCall, ListedThere, Closed, Idle

LEMMA StepKeepsType ==
    ASSUME TypeInv, NamesAssumption, CallsAssumption, SentinelAssumption, BoundsAssumption, [Next]_vars
    PROVE  TypeInv'
    <1>1. CASE UNCHANGED vars
        BY <1>1 DEF vars, TypeInv, TypeOK, NoStrayCall, ListedThere, HasFile
    <1>2. CASE Next
        <2>1. ASSUME NEW t \in Tasks, Changing(t) \/ Reading(t) \/ Clearing(t) \/ WriteFails(t) \/ RemoveFails(t)
              PROVE  TypeInv'
            BY <2>1, ChangingKeepsType, ReadingKeepsType, ClearingKeepsType, TaskFaultKeepsType
        <2> QED BY <1>2, <2>1, OpeningKeepsType, StoreFaultKeepsType DEF Next
    <1> QED BY <1>1, <1>2

LEMMA ShapeKept == Spec => []TypeInv
    <1>1. Init => TypeInv
        BY InitTyped, SentinelAssumption
    <1>2. TypeInv /\ [Next]_vars => TypeInv'
        BY StepKeepsType, NamesAssumption, CallsAssumption, SentinelAssumption, BoundsAssumption
    <1> QED BY <1>1, <1>2, PTL DEF Spec

\* Every variable keeps its shape: no interleaving of calls, no crash and no failed
\* operation leads to a state the code's types do not describe, and no rule of an
\* opening records a file that is not there.
THEOREM TypeCorrect == Spec => []TypeOK
    <1>1. TypeInv => TypeOK
        BY DEF TypeInv
    <1> QED BY <1>1, ShapeKept, PTL

-------------------------------------------------------------------------------
(* Acknowledged records are kept *)

\* While a key is owed a record, no change of it or of its file is under way.
Unmet ==
    \A k \in Keys, u \in Tasks : kept[k] # None => ~Meets(task[u], k, {sidecars[k].path})

\* A change that is clean has no purge and no change of its key or its files beside it.
CleanAlone ==
    \A t \in Tasks : IsChange(task[t]) /\ task[t].clean =>
        /\ ~Purging
        /\ \A u \in Tasks \ {t} : ~Meets(task[u], task[t].key, {task[t].path, task[t].old})

\* It is a set_value, and what it has written so far is there.
CleanStage ==
    \A t \in Tasks : LET call == task[t] IN IsChange(call) /\ call.clean =>
        /\ call.kind \in {"unbind", "value", "record", "save"}
        /\ call.kind \in {"record", "save"} => values[call.path] = call.of
        /\ call.kind = "save" => sidecars[call.key] = [of |-> call.of, path |-> call.path]

\* While purge runs, only keys that it keeps are owed a record, and it spares their files.
PurgeSpares ==
    \A t \in Tasks : task[t].kind = "clear" =>
        \A k \in Keys : kept[k] # None => k \in task[t].keep /\ sidecars[k].path \in task[t].spare

\* A sweep has seen the sidecars of the keys that are owed a record.
OpeningKnows ==
    client.kind \in {"keys", "sweep"} => \A k \in Keys : kept[k] # None => k \in client.records

Undisturbed == AcknowledgedKept /\ Unmet /\ CleanAlone /\ CleanStage /\ PurgeSpares /\ OpeningKnows

KeptInv == TypeInv /\ Undisturbed

\* A call is the same change, or the same purge, as before: only its part, or that it
\* is clean no longer, may differ.
SameOrLess(old, new) ==
    /\ IsChange(new) => /\ IsChange(old)
                        /\ new.key = old.key /\ new.path = old.path /\ new.old = old.old
                        /\ new.clean => old.clean
    /\ new.kind = "clear" => old.kind = "clear" /\ new.keep = old.keep /\ new.spare = old.spare

\* A step that begins no change and no purge, and leaves alone the files of the keys
\* that are still owed a record.
LEMMA NothingBegins ==
    ASSUME KeptInv, \A u \in Tasks : SameOrLess(task[u], task'[u]),
           \A k \in Keys : kept'[k] # None =>
               /\ kept'[k] = kept[k]
               /\ sidecars'[k] = sidecars[k]
               /\ values'[sidecars[k].path] = values[sidecars[k].path]
    PROVE  AcknowledgedKept' /\ Unmet' /\ CleanAlone' /\ PurgeSpares'
    <1>1. AcknowledgedKept'
        BY DEF KeptInv, Undisturbed, AcknowledgedKept, HasSidecar
    <1>2. ASSUME NEW u \in Tasks, NEW k, NEW names, Meets(task'[u], k, names)
          PROVE  Meets(task[u], k, names)
        BY <1>2 DEF SameOrLess, Meets
    <1>3. Unmet'
        <2> SUFFICES ASSUME NEW k \in Keys, NEW u \in Tasks, kept'[k] # None,
                            Meets(task'[u], k, {sidecars'[k].path})
                     PROVE  FALSE
            BY DEF Unmet, Meets, IsChange
        <2>1. Meets(task[u], k, {sidecars[k].path}) /\ kept[k] # None
            BY <1>2
        <2> QED BY <2>1 DEF KeptInv, Undisturbed, Unmet
    <1>4. CleanAlone'
        <2> SUFFICES ASSUME NEW t \in Tasks, IsChange(task'[t]), task'[t].clean
                     PROVE  /\ ~\E u \in Tasks : task'[u].kind = "clear"
                            /\ \A u \in Tasks \ {t} : ~Meets(task'[u], task'[t].key, {task'[t].path, task'[t].old})
            BY DEF CleanAlone, Purging, IsChange, Meets
        <2>1. /\ IsChange(task[t]) /\ task[t].clean
              /\ task'[t].key = task[t].key /\ task'[t].path = task[t].path /\ task'[t].old = task[t].old
            BY DEF SameOrLess
        <2>2. ~Purging /\ \A u \in Tasks \ {t} : ~Meets(task[u], task[t].key, {task[t].path, task[t].old})
            BY <2>1 DEF KeptInv, Undisturbed, CleanAlone
        <2>3. ~\E u \in Tasks : task'[u].kind = "clear"
            BY <2>2 DEF SameOrLess, Purging
        <2> QED BY <1>2, <2>1, <2>2, <2>3
    <1>5. PurgeSpares'
        BY DEF KeptInv, Undisturbed, PurgeSpares, SameOrLess
    <1> QED BY <1>1, <1>3, <1>4, <1>5

\* The last files a change touches are its own: a clean change elsewhere keeps its own.
LEMMA StagesStay ==
    ASSUME KeptInv, NEW t \in Tasks, IsChange(task[t]),
           \A n \in Names : n \notin {task[t].path, task[t].old} => values'[n] = values[n],
           \A k \in Keys : k # task[t].key => sidecars'[k] = sidecars[k],
           \A u \in Tasks \ {t} : IsChange(task'[u]) => task'[u] = task[u]
    PROVE  \A u \in Tasks \ {t} : IsChange(task'[u]) /\ task'[u].clean =>
               /\ task'[u].kind \in {"unbind", "value", "record", "save"}
               /\ task'[u].kind \in {"record", "save"} => values'[task'[u].path] = task'[u].of
               /\ task'[u].kind = "save" =>
                      sidecars'[task'[u].key] = [of |-> task'[u].of, path |-> task'[u].path]
    <1> SUFFICES ASSUME NEW u \in Tasks \ {t}, IsChange(task'[u]), task'[u].clean
                 PROVE  /\ task'[u].kind \in {"unbind", "value", "record", "save"}
                        /\ task'[u].kind \in {"record", "save"} => values'[task'[u].path] = task'[u].of
                        /\ task'[u].kind = "save" =>
                               sidecars'[task'[u].key] = [of |-> task'[u].of, path |-> task'[u].path]
        OBVIOUS
    <1>1. task'[u] = task[u] /\ IsChange(task[u]) /\ task[u].clean
        OBVIOUS
    <1>2. task[u].key \in Keys /\ task[u].path \in Names
        BY <1>1, CallType DEF KeptInv, Undisturbed, TypeInv, Changes
    <1>3. ~Meets(task[t], task[u].key, {task[u].path, task[u].old})
        BY <1>1 DEF KeptInv, Undisturbed, CleanAlone
    <1>4. task[u].key # task[t].key /\ task[u].path \notin {task[t].path, task[t].old}
        BY <1>3 DEF Meets
    <1>5. values'[task[u].path] = values[task[u].path] /\ sidecars'[task[u].key] = sidecars[task[u].key]
        BY <1>2, <1>4
    <1> QED BY <1>1, <1>5 DEF KeptInv, Undisturbed, CleanStage

\* A change goes on, or ends, having touched its own files alone.
LEMMA ChangeGoesOn ==
    ASSUME KeptInv, NEW t \in Tasks, IsChange(task[t]),
           \A n \in Names : n \notin {task[t].path, task[t].old} => values'[n] = values[n],
           \A k \in Keys : k # task[t].key => sidecars'[k] = sidecars[k],
           \A u \in Tasks \ {t} : /\ IsChange(task'[u]) => task'[u] = task[u]
                                  /\ task'[u].kind = "clear" => task'[u] = task[u],
           SameOrLess(task[t], task'[t]),
           IsChange(task'[t]) /\ task'[t].clean =>
               /\ task'[t].kind \in {"unbind", "value", "record", "save"}
               /\ task'[t].kind \in {"record", "save"} => values'[task'[t].path] = task'[t].of
               /\ task'[t].kind = "save" =>
                      sidecars'[task'[t].key] = [of |-> task'[t].of, path |-> task'[t].path],
           UNCHANGED <<client, kept>>
    PROVE  Undisturbed'
    <1>1. \A u \in Tasks : SameOrLess(task[u], task'[u])
        BY DEF SameOrLess, IsChange
    <1>2. ASSUME NEW k \in Keys, kept[k] # None
          PROVE  /\ sidecars'[k] = sidecars[k]
                 /\ values'[sidecars[k].path] = values[sidecars[k].path]
        <2>1. ~Meets(task[t], k, {sidecars[k].path})
            BY <1>2 DEF KeptInv, Undisturbed, Unmet
        <2>2. k # task[t].key /\ sidecars[k].path \notin {task[t].path, task[t].old}
            BY <2>1 DEF Meets
        <2>3. sidecars[k].path \in Names
            BY <1>2 DEF KeptInv, Undisturbed, TypeInv, TypeOK, AcknowledgedKept, HasSidecar, Records
        <2> QED BY <2>2, <2>3
    <1>3. AcknowledgedKept' /\ Unmet' /\ CleanAlone' /\ PurgeSpares'
        BY <1>1, <1>2, NothingBegins
    <1>4. CleanStage'
        BY StagesStay DEF CleanStage, IsChange
    <1>5. OpeningKnows'
        BY DEF KeptInv, Undisturbed, OpeningKnows
    <1> QED BY <1>3, <1>4, <1>5 DEF Undisturbed

\* A call that changes no file goes on as something that is no change and no purge.
LEMMA QuietStep ==
    ASSUME KeptInv, NEW t \in Tasks, NEW call, Go(t, call), call.kind \notin ChangeKinds \cup {"clear"},
           UNCHANGED <<values, sidecars, client, kept>>
    PROVE  Undisturbed'
    <1>1. task'[t] = call /\ \A u \in Tasks \ {t} : task'[u] = task[u]
        BY DEF Go, KeptInv, Undisturbed, TypeInv, TypeOK
    <1>2. \A u \in Tasks : SameOrLess(task[u], task'[u])
        BY <1>1 DEF SameOrLess, IsChange
    <1>3. AcknowledgedKept' /\ Unmet' /\ CleanAlone' /\ PurgeSpares'
        BY <1>2, NothingBegins
    <1>4. CleanStage'
        BY <1>1 DEF CleanStage, IsChange, KeptInv, Undisturbed
    <1>5. OpeningKnows'
        BY DEF KeptInv, Undisturbed, OpeningKnows
    <1> QED BY <1>3, <1>4, <1>5 DEF Undisturbed

\* A change begins: the calls it meets are clean no longer, and no key is owed what it touches.
LEMMA ChangeBegins ==
    ASSUME KeptInv, SentinelAssumption, NEW t \in Tasks, task[t].kind \notin ChangeKinds \cup {"clear"},
           client.kind = "open", NEW call \in Changes, Begin(t, call.key, {call.path, call.old}, call),
           call.kind \notin {"record", "save"},
           call.clean => /\ call.kind \in {"unbind", "value"}
                         /\ ~Purging
                         /\ ~\E u \in Tasks : Meets(task[u], call.key, {call.path, call.old}),
           UNCHANGED <<values, sidecars, client>>
    PROVE  Undisturbed'
    <1> DEFINE names == {call.path, call.old}
    <1>1. /\ task'[t] = call
          /\ \A u \in Tasks \ {t} : task'[u] = IF Meets(task[u], call.key, names)
                                               THEN [task[u] EXCEPT !.clean = FALSE] ELSE task[u]
        BY DEF Begin
    <1>2. \A k \in Keys : kept'[k] = IF k = call.key \/ BoundFile(k) \in names THEN None ELSE kept[k]
        BY DEF Begin
    <1>3. ASSUME NEW u \in Tasks \ {t}
          PROVE  /\ IsChange(task'[u]) => task[u] \in Changes
                 /\ task'[u].kind = task[u].kind
                 /\ IsChange(task'[u]) => /\ task'[u].key = task[u].key /\ task'[u].path = task[u].path
                                          /\ task'[u].old = task[u].old /\ task'[u].of = task[u].of
                 /\ IsChange(task'[u]) /\ task'[u].clean =>
                        task'[u] = task[u] /\ ~Meets(task[u], call.key, names)
                 /\ ~IsChange(task'[u]) => task'[u] = task[u]
        <2>1. IsChange(task[u]) => task[u] \in Changes
            BY CallType DEF KeptInv, TypeInv
        <2>2. CASE Meets(task[u], call.key, names)
            <3>1. task[u] \in Changes /\ task'[u] = [task[u] EXCEPT !.clean = FALSE]
                BY <1>1, <2>1, <2>2 DEF Meets
            <3>2. IsChange(task[u])
                BY <2>2 DEF Meets
            <3> HIDE DEF names
            <3>3. /\ task'[u].kind = task[u].kind /\ task'[u].key = task[u].key /\ task'[u].path = task[u].path
                  /\ task'[u].old = task[u].old /\ task'[u].of = task[u].of /\ task'[u].clean = FALSE
                BY <3>1 DEF Changes
            <3> QED BY <3>1, <3>2, <3>3 DEF IsChange
        <2>3. CASE ~Meets(task[u], call.key, names)
            BY <1>1, <2>1, <2>3
        <2> QED BY <2>2, <2>3
    <1>4. ASSUME NEW k \in Keys, kept'[k] # None
          PROVE  /\ kept[k] # None /\ kept'[k] = kept[k] /\ k # call.key
                 /\ sidecars[k].path \notin names /\ HasSidecar(k)
        BY <1>2, <1>4 DEF KeptInv, Undisturbed, AcknowledgedKept, BoundFile
    <1>5. IsChange(call)
        BY DEF IsChange, Changes
    <1>6. AcknowledgedKept'
        BY <1>4 DEF KeptInv, Undisturbed, AcknowledgedKept, HasSidecar
    <1>7. Unmet'
        <2> SUFFICES ASSUME NEW k \in Keys, NEW u \in Tasks, kept'[k] # None
                     PROVE  ~Meets(task'[u], k, {sidecars[k].path})
            BY DEF Unmet, Meets, IsChange
        <2>1. ~Meets(task[u], k, {sidecars[k].path})
            BY <1>4 DEF KeptInv, Undisturbed, Unmet
        <2>2. CASE u = t
            BY <1>1, <1>4, <2>2 DEF Meets
        <2>3. CASE u # t
            <3> HIDE DEF names
            <3> QED BY <1>3, <2>1, <2>3 DEF Meets, IsChange
        <2> QED BY <2>2, <2>3
    <1>8. ~Purging => ~\E u \in Tasks : task'[u].kind = "clear"
        BY <1>1, <1>3, <1>5 DEF Purging, IsChange, ChangeKinds
    <1>9. CleanAlone'
        <2> SUFFICES ASSUME NEW u \in Tasks, IsChange(task'[u]), task'[u].clean
                     PROVE  /\ ~\E v \in Tasks : task'[v].kind = "clear"
                            /\ \A v \in Tasks \ {u} : ~Meets(task'[v], task'[u].key, {task'[u].path, task'[u].old})
            BY DEF CleanAlone, Purging, IsChange, Meets
        <2>1. CASE u = t
            <3>1. ASSUME NEW v \in Tasks \ {t}
                  PROVE  ~Meets(task'[v], call.key, names)
                BY <1>1, <1>3, <2>1 DEF Meets, IsChange
            <3> QED BY <1>1, <1>8, <2>1, <3>1
        <2>2. CASE u # t
            <3>1. task'[u] = task[u] /\ ~Meets(task[u], call.key, names)
                BY <1>3, <2>2
            <3>2. IsChange(task[u]) /\ task[u].clean
                BY <3>1
            <3>3. ~Purging /\ \A v \in Tasks \ {u} : ~Meets(task[v], task[u].key, {task[u].path, task[u].old})
                BY <3>2 DEF KeptInv, Undisturbed, CleanAlone
            <3>4. ~Meets(call, task[u].key, {task[u].path, task[u].old})
                BY <3>1, <3>2 DEF Meets
            <3>5. ASSUME NEW v \in Tasks \ {u}
                  PROVE  ~Meets(task'[v], task[u].key, {task[u].path, task[u].old})
                <4>1. CASE v = t
                    BY <1>1, <3>4, <4>1
                <4>2. CASE v # t
                    <5> HIDE DEF names
                    <5> QED BY <1>3, <3>3, <4>2 DEF Meets, IsChange
                <4> QED BY <4>1, <4>2
            <3> QED BY <1>8, <3>1, <3>3, <3>5
        <2> QED BY <2>1, <2>2
    <1>10. CleanStage'
        <2> SUFFICES ASSUME NEW u \in Tasks, IsChange(task'[u]), task'[u].clean
                     PROVE  /\ task'[u].kind \in {"unbind", "value", "record", "save"}
                            /\ task'[u].kind \in {"record", "save"} => values[task'[u].path] = task'[u].of
                            /\ task'[u].kind = "save" =>
                                   sidecars[task'[u].key] = [of |-> task'[u].of, path |-> task'[u].path]
            BY DEF CleanStage, IsChange
        <2>1. CASE u = t
            BY <1>1, <2>1
        <2>2. CASE u # t
            BY <1>3, <2>2 DEF KeptInv, Undisturbed, CleanStage
        <2> QED BY <2>1, <2>2
    <1>11. PurgeSpares'
        <2>1. ASSUME NEW u \in Tasks, task'[u].kind = "clear"
              PROVE  task'[u] = task[u]
            BY <1>1, <1>3, <1>5, <2>1 DEF IsChange, ChangeKinds
        <2> QED BY <1>4, <2>1 DEF KeptInv, Undisturbed, PurgeSpares
    <1>12. OpeningKnows'
        BY DEF OpeningKnows
    <1> QED BY <1>6, <1>7, <1>9, <1>10, <1>11, <1>12 DEF Undisturbed

\* What ChangeGoesOn asks, for a change that becomes its next part.
LEMMA NextPart ==
    ASSUME TypeInv, NEW t \in Tasks, IsChange(task[t]), NEW kind \in ChangeKinds,
           Go(t, [task[t] EXCEPT !.kind = kind])
    PROVE  /\ \A u \in Tasks \ {t} : task'[u] = task[u]
           /\ SameOrLess(task[t], task'[t])
           /\ task[t] \in Changes /\ task'[t] \in Changes
           /\ task'[t].kind = kind /\ task'[t].clean = task[t].clean
           /\ task'[t].key = task[t].key /\ task'[t].path = task[t].path /\ task'[t].of = task[t].of
    <1>1. task[t] \in Changes
        BY CallType DEF TypeInv
    <1>2. task'[t] = [task[t] EXCEPT !.kind = kind] /\ \A u \in Tasks \ {t} : task'[u] = task[u]
        BY DEF Go, TypeInv, TypeOK
    <1>3. kind # "clear"
        BY DEF ChangeKinds
    <1> QED BY <1>1, <1>2, <1>3 DEF SameOrLess, IsChange, Changes

\* A change that is not clean has nothing more to show.
LEMMA DeleteUnclean ==
    ASSUME KeptInv, NEW t \in Tasks, task[t].kind \in {"look", "remove", "lookSidecar", "removeSidecar", "touch"}
    PROVE  ~(IsChange(task[t]) /\ task[t].clean)
    BY DEF KeptInv, Undisturbed, CleanStage

\* Only a listing takes note of a sidecar that is gone, and it remains a listing.
LEMMA NoteOnlyLists ==
    ASSUME NEW call \in Calls, NEW ks
    PROVE  /\ IsChange(NoteRemoved(call, ks)) => NoteRemoved(call, ks) = call
           /\ NoteRemoved(call, ks).kind = "clear" => NoteRemoved(call, ks) = call
           /\ NoteRemoved(call, ks).kind = call.kind
    <1>1. CASE call.kind \in {"list", "scan", "listed", "failed"}
        <2>1. call \in Lists
            BY <1>1 DEF Calls, Changes, Reads, Lists, Purges, ChangeKinds
        <2>2. NoteRemoved(call, ks).kind = call.kind
            BY <1>1, <2>1 DEF NoteRemoved, Lists
        <2> QED BY <1>1, <2>2 DEF IsChange, ChangeKinds
    <1>2. CASE call.kind \notin {"list", "scan", "listed", "failed"}
        BY <1>2 DEF NoteRemoved
    <1> QED BY <1>1, <1>2

\* A set_value that ends well and was clean all along has written both files of its key.
LEMMA SetDoneKeepsRecords ==
    ASSUME KeptInv, SentinelAssumption, NEW t \in Tasks, SetDone(t)
    PROVE  Undisturbed'
    <1> DEFINE call == task[t]
    <1>1. IsChange(call) /\ call \in Changes
        BY CallType DEF SetDone, IsChange, ChangeKinds, KeptInv, TypeInv
    <1>2. task'[t] = Idle /\ \A u \in Tasks \ {t} : task'[u] = task[u]
        BY DEF SetDone, Go, KeptInv, TypeInv, TypeOK
    <1>3. \A u \in Tasks : SameOrLess(task[u], task'[u]) /\ (IsChange(task'[u]) => u # t /\ task'[u] = task[u])
        BY <1>2 DEF SameOrLess, IsChange, ChangeKinds, Idle
    <1>4. UNCHANGED <<values, sidecars, client>> /\ ~Purging
        BY DEF SetDone, MutexFree
    <1>5. \A k \in Keys : kept'[k] = IF k = call.key THEN (IF call.clean THEN call.of ELSE None) ELSE kept[k]
        BY <1>1 DEF SetDone, KeptInv, TypeInv, TypeOK
    <1>6. call.clean => /\ values[call.path] = call.of
                        /\ sidecars[call.key] = [of |-> call.of, path |-> call.path]
                        /\ \A u \in Tasks \ {t} : ~Meets(task[u], call.key, {call.path, call.old})
        BY <1>1 DEF SetDone, KeptInv, Undisturbed, CleanStage, CleanAlone
    <1>7. CleanStage' /\ PurgeSpares' /\ OpeningKnows'
        <2>1. CleanStage'
            BY <1>3, <1>4 DEF CleanStage, KeptInv, Undisturbed, IsChange
        <2>2. PurgeSpares'
            BY <1>2, <1>4 DEF PurgeSpares, Purging, Idle
        <2>3. OpeningKnows'
            BY <1>4, Working DEF OpeningKnows, SetDone, KeptInv, TypeInv
        <2> QED BY <2>1, <2>2, <2>3
    <1>8. CleanAlone'
        <2> SUFFICES ASSUME NEW u \in Tasks, IsChange(task'[u]), task'[u].clean
                     PROVE  /\ ~\E v \in Tasks : task'[v].kind = "clear"
                            /\ \A v \in Tasks \ {u} : ~Meets(task'[v], task'[u].key, {task'[u].path, task'[u].old})
            BY DEF CleanAlone, Purging, IsChange, Meets
        <2>1. task'[u] = task[u]
            BY <1>3
        <2>2. \A v \in Tasks \ {u} : ~Meets(task[v], task[u].key, {task[u].path, task[u].old})
            BY <2>1 DEF KeptInv, Undisturbed, CleanAlone
        <2>3. \A v \in Tasks \ {u} : ~Meets(task'[v], task[u].key, {task[u].path, task[u].old})
            BY <1>3, <2>2 DEF Meets
        <2>4. ~\E v \in Tasks : task'[v].kind = "clear"
            BY <1>2, <1>4 DEF Purging, Idle
        <2> QED BY <2>1, <2>3, <2>4
    <1>9. AcknowledgedKept'
        <2> SUFFICES ASSUME NEW k \in Keys, kept'[k] # None
                     PROVE  sidecars[k] # Absent /\ sidecars[k].of = kept'[k] /\ values[sidecars[k].path] = kept'[k]
            BY <1>4 DEF AcknowledgedKept, HasSidecar
        <2>1. CASE k = call.key
            <3>1. sidecars[k] = [of |-> call.of, path |-> call.path] /\ kept'[k] = call.of
                  /\ values[call.path] = call.of
                BY <1>5, <1>6, <2>1
            <3>2. HasSidecar(k)
                BY <1>1, <3>1 DEF HasSidecar, SentinelAssumption, Changes
            <3> QED BY <3>1, <3>2 DEF HasSidecar
        <2>2. CASE k # call.key
            BY <1>5, <2>2 DEF KeptInv, Undisturbed, AcknowledgedKept, HasSidecar
        <2> QED BY <2>1, <2>2
    <1>10. Unmet'
        <2> SUFFICES ASSUME NEW k \in Keys, NEW u \in Tasks, kept'[k] # None,
                            Meets(task'[u], k, {sidecars[k].path})
                     PROVE  FALSE
            BY <1>4 DEF Unmet, Meets, IsChange
        <2>1. u # t /\ task'[u] = task[u] /\ Meets(task[u], k, {sidecars[k].path})
            BY <1>3 DEF Meets
        <2>2. CASE k = call.key
            BY <1>5, <1>6, <2>1, <2>2 DEF Meets
        <2>3. CASE k # call.key
            BY <1>5, <2>1, <2>3 DEF KeptInv, Undisturbed, Unmet
        <2> QED BY <2>2, <2>3
    <1> QED BY <1>7, <1>8, <1>9, <1>10 DEF Undisturbed

LEMMA ChangingKeepsRecords ==
    ASSUME KeptInv, NamesAssumption, CallsAssumption, SentinelAssumption, NEW t \in Tasks, Changing(t)
    PROVE  Undisturbed'
    <1> USE DEF ChangeKinds
    <1>1. CASE SetValue(t)
        <2>1. PICK b \in Bindings :
                 LET old == IF HasSidecar(b.key) THEN sidecars[b.key].path ELSE b.path
                     names == {b.path, old}
                 IN  Begin(t, b.key, names,
                           [kind |-> IF old = b.path THEN "value" ELSE "unbind", key |-> b.key,
                            path |-> b.path, old |-> old, of |-> stamp',
                            clean |-> ~Purging /\ ~\E u \in Tasks : Meets(task[u], b.key, names)])
            BY <1>1 DEF SetValue
        <2> DEFINE old == IF HasSidecar(b.key) THEN sidecars[b.key].path ELSE b.path
        <2> DEFINE clean == ~Purging /\ ~\E u \in Tasks : Meets(task[u], b.key, {b.path, old})
        <2> DEFINE call == [kind |-> IF old = b.path THEN "value" ELSE "unbind", key |-> b.key,
                            path |-> b.path, old |-> old, of |-> stamp', clean |-> clean]
        <2>2. b.key \in Keys /\ b.path \in Names
            BY DEF CallsAssumption
        <2>3. old \in Names
            BY <2>2 DEF KeptInv, TypeInv, TypeOK, HasSidecar, Records
        <2>4. stamp' \in Nat
            BY <1>1 DEF SetValue, KeptInv, TypeInv, TypeOK
        <2>5. clean \in BOOLEAN
            OBVIOUS
        <2>6. call \in Changes
            <3> HIDE DEF old, clean
            <3> QED BY <2>2, <2>3, <2>4, <2>5 DEF Changes
        <2>7. Begin(t, b.key, {b.path, old}, call)
            BY <2>1
        <2>8. /\ call.key = b.key /\ call.path = b.path /\ call.old = old
              /\ call.kind \in {"unbind", "value"} /\ call.clean = clean
            OBVIOUS
        <2>9. call.clean => ~Purging /\ ~\E u \in Tasks : Meets(task[u], b.key, {b.path, old})
            OBVIOUS
        <2> HIDE DEF call, old, clean
        <2>10. task[t].kind \notin ChangeKinds \cup {"clear"} /\ client.kind = "open"
            BY <1>1 DEF SetValue, Ready
        <2>11. UNCHANGED <<values, sidecars, client>>
            BY <1>1 DEF SetValue
        <2> QED BY <2>6, <2>7, <2>8, <2>9, <2>10, <2>11, ChangeBegins
    <1>2. CASE Unbind(t)
        <2>1. IsChange(task[t])
            BY <1>2 DEF Unbind, IsChange
        <2>2. Go(t, [task[t] EXCEPT !.kind = "value"])
            BY <1>2 DEF Unbind
        <2>3. \A n \in Names : n \notin {task[t].path, task[t].old} => values'[n] = values[n]
            BY <1>2 DEF Unbind, KeptInv, TypeInv, TypeOK
        <2> QED BY <1>2, <2>1, <2>2, <2>3, NextPart, ChangeGoesOn DEF Unbind, KeptInv
    <1>3. CASE WriteValue(t)
        <2>1. IsChange(task[t])
            BY <1>3 DEF WriteValue, IsChange
        <2>2. Go(t, [task[t] EXCEPT !.kind = "record"])
            BY <1>3 DEF WriteValue
        <2>3. task[t].path \in Names
            BY <2>1, <2>2, NextPart DEF KeptInv, Changes
        <2>4. /\ \A n \in Names : n \notin {task[t].path, task[t].old} => values'[n] = values[n]
              /\ values'[task[t].path] = task[t].of
            BY <1>3, <2>3 DEF WriteValue, KeptInv, TypeInv, TypeOK
        <2>5. /\ \A u \in Tasks \ {t} : task'[u] = task[u]
              /\ SameOrLess(task[t], task'[t])
              /\ task'[t].kind = "record" /\ task'[t].path = task[t].path /\ task'[t].of = task[t].of
            BY <2>1, <2>2, NextPart DEF KeptInv
        <2>6. UNCHANGED <<sidecars, client, kept>>
            BY <1>3 DEF WriteValue
        <2>7. values'[task'[t].path] = task'[t].of
            BY <2>4, <2>5
        <2> QED BY <2>1, <2>4, <2>5, <2>6, <2>7, ChangeGoesOn
    <1>4. CASE WriteSidecar(t)
        <2>1. IsChange(task[t])
            BY <1>4 DEF WriteSidecar, IsChange
        <2>2. Go(t, [task[t] EXCEPT !.kind = "save"])
            BY <1>4 DEF WriteSidecar
        <2>3. task[t].key \in Keys
            BY <2>1, <2>2, NextPart DEF KeptInv, Changes
        <2>4. /\ \A k \in Keys : k # task[t].key => sidecars'[k] = sidecars[k]
              /\ sidecars'[task[t].key] = [of |-> task[t].of, path |-> task[t].path]
            BY <1>4, <2>3 DEF WriteSidecar, KeptInv, TypeInv, TypeOK
        <2>5. task[t].clean => values[task[t].path] = task[t].of
            BY <1>4, <2>1 DEF WriteSidecar, KeptInv, Undisturbed, CleanStage
        <2>6. /\ \A u \in Tasks \ {t} : task'[u] = task[u]
              /\ SameOrLess(task[t], task'[t])
              /\ task'[t].kind = "save" /\ task'[t].clean = task[t].clean
              /\ task'[t].key = task[t].key /\ task'[t].path = task[t].path /\ task'[t].of = task[t].of
            BY <2>1, <2>2, NextPart DEF KeptInv
        <2>7. UNCHANGED <<values, client, kept>>
            BY <1>4 DEF WriteSidecar
        <2>8. /\ task'[t].clean => values'[task'[t].path] = task'[t].of
              /\ sidecars'[task'[t].key] = [of |-> task'[t].of, path |-> task'[t].path]
            BY <2>4, <2>5, <2>6, <2>7
        <2> QED BY <2>1, <2>4, <2>6, <2>7, <2>8, ChangeGoesOn
    <1>5. CASE SetDone(t)
        BY <1>5, SetDoneKeepsRecords
    <1>6. CASE DeleteValue(t)
        <2>1. PICK k \in Keys :
                 Begin(t, k, {BoundFile(k)},
                       [kind |-> "look", key |-> k, path |-> BoundFile(k), old |-> BoundFile(k),
                        of |-> 0, clean |-> FALSE])
            BY <1>6 DEF DeleteValue
        <2> DEFINE call == [kind |-> "look", key |-> k, path |-> BoundFile(k), old |-> BoundFile(k),
                            of |-> 0, clean |-> FALSE]
        <2>2. BoundFile(k) \in Names
            BY BoundFileType DEF KeptInv, TypeInv
        <2>3. call \in Changes
            BY <2>2 DEF Changes
        <2>4. Begin(t, call.key, {call.path, call.old}, call)
            BY <2>1
        <2>5. call.kind = "look" /\ call.clean = FALSE
            OBVIOUS
        <2> HIDE DEF call
        <2> QED BY <1>6, <2>3, <2>4, <2>5, ChangeBegins DEF DeleteValue, Ready
    <1>7. CASE LookForValue(t)
        <2> DEFINE kind == IF HasFile(task[t].path) THEN "remove" ELSE "lookSidecar"
        <2>1. IsChange(task[t]) /\ ~task[t].clean
            BY <1>7, DeleteUnclean DEF LookForValue, IsChange
        <2>2. kind \in ChangeKinds
            OBVIOUS
        <2>3. Go(t, [task[t] EXCEPT !.kind = kind])
            BY <1>7 DEF LookForValue
        <2> HIDE DEF kind
        <2> QED BY <1>7, <2>1, <2>2, <2>3, NextPart, ChangeGoesOn DEF LookForValue, KeptInv
    <1>8. CASE RemoveValue(t)
        <2>1. IsChange(task[t]) /\ ~task[t].clean
            BY <1>8, DeleteUnclean DEF RemoveValue, IsChange
        <2>2. \A n \in Names : n \notin {task[t].path, task[t].old} => values'[n] = values[n]
            BY <1>8 DEF RemoveValue, KeptInv, TypeInv, TypeOK
        <2>3. CASE HasFile(task[t].path)
            <3>1. Go(t, [task[t] EXCEPT !.kind = "lookSidecar"])
                BY <1>8, <2>3 DEF RemoveValue
            <3>2. /\ \A u \in Tasks \ {t} : task'[u] = task[u]
                  /\ SameOrLess(task[t], task'[t]) /\ task'[t].clean = task[t].clean
                BY <2>1, <3>1, NextPart DEF KeptInv
            <3> QED BY <1>8, <2>1, <2>2, <3>2, ChangeGoesOn DEF RemoveValue
        <2>4. CASE ~HasFile(task[t].path)
            <3>1. task'[t] = Idle /\ \A u \in Tasks \ {t} : task'[u] = task[u]
                BY <1>8, <2>4 DEF RemoveValue, Go, KeptInv, TypeInv, TypeOK
            <3>2. ~IsChange(task'[t]) /\ SameOrLess(task[t], task'[t])
                BY <3>1 DEF IsChange, SameOrLess, Idle
            <3> QED BY <1>8, <2>1, <2>2, <3>1, <3>2, ChangeGoesOn DEF RemoveValue
        <2> QED BY <2>3, <2>4
    <1>9. CASE LookForSidecar(t)
        <2> DEFINE kind == IF HasSidecar(task[t].key) THEN "removeSidecar" ELSE "touch"
        <2>1. IsChange(task[t]) /\ ~task[t].clean
            BY <1>9, DeleteUnclean DEF LookForSidecar, IsChange
        <2>2. kind \in ChangeKinds
            OBVIOUS
        <2>3. Go(t, [task[t] EXCEPT !.kind = kind])
            BY <1>9 DEF LookForSidecar
        <2> HIDE DEF kind
        <2> QED BY <1>9, <2>1, <2>2, <2>3, NextPart, ChangeGoesOn DEF LookForSidecar, KeptInv
    <1>10. CASE RemoveSidecar(t)
        <2> DEFINE call == IF HasSidecar(task[t].key) THEN [task[t] EXCEPT !.kind = "touch"] ELSE Idle
        <2>1. IsChange(task[t]) /\ ~task[t].clean
            BY <1>10, DeleteUnclean DEF RemoveSidecar, IsChange
        <2>2. task[t] \in Changes
            BY <2>1, CallType DEF KeptInv, TypeInv
        <2>3. SameOrLess(task[t], call) /\ (IsChange(call) => ~call.clean)
            BY <2>1, <2>2 DEF SameOrLess, IsChange, Idle, Changes
        <2>4. LoseSidecar(t, task[t].key, call)
            BY <1>10 DEF RemoveSidecar
        <2> HIDE DEF call
        <2>5. /\ task'[t] = call
              /\ \A u \in Tasks \ {t} : task'[u] = NoteRemoved(task[u], {task[t].key})
              /\ \A k \in Keys : k # task[t].key => sidecars'[k] = sidecars[k]
            BY <2>4 DEF LoseSidecar, KeptInv, TypeInv, TypeOK
        <2>6. \A u \in Tasks \ {t} : /\ IsChange(task'[u]) => task'[u] = task[u]
                                     /\ task'[u].kind = "clear" => task'[u] = task[u]
            BY <2>5, NoteOnlyLists DEF KeptInv, TypeInv, TypeOK
        <2> QED BY <1>10, <2>1, <2>3, <2>5, <2>6, ChangeGoesOn DEF RemoveSidecar
    <1>11. CASE DeleteDone(t)
        BY <1>11, QuietStep DEF DeleteDone, Idle
    <1> QED BY <1>1, <1>2, <1>3, <1>4, <1>5, <1>6, <1>7, <1>8, <1>9, <1>10, <1>11 DEF Changing

\* Reading and listing: whatever comes of the call is a read or a listing.
\* A listing goes on as a listing.
LEMMA ListingGoesOn ==
    ASSUME TypeOK, NEW t \in Tasks,
           ListPage(t) \/ PageDone(t) \/ CursorLost(t) \/ \E k \in Keys : ScanKey(t, k)
    PROVE  \E call : Go(t, call) /\ call.kind \in {"list", "scan", "listed", "failed"}
    <1> DEFINE Continues == \E call : Go(t, call) /\ call.kind \in {"list", "scan", "listed", "failed"}
    <1>0. ASSUME NEW l \in Lists
          PROVE  /\ \A k : [l EXCEPT !.kind = k].kind = k
                 /\ \A k, a, b, c : [l EXCEPT !.kind = k, !.todo = a, !.page = b, !.seen = c].kind = k
                 /\ \A a, b, c, d : [l EXCEPT !.todo = a, !.seen = b, !.page = c, !.lasting = d].kind = l.kind
                 /\ \A k, a, b : [l EXCEPT !.kind = k, !.taken = a, !.cursor = b].kind = k
        BY DEF Lists
    <1>1. task[t] \in Lists
        BY CallType DEF ListPage, PageDone, CursorLost, ScanKey
    <1>2. CASE ListPage(t)
        <2> DEFINE call == [task[t] EXCEPT !.kind = "scan", !.todo = SidecarsThere, !.page = << >>, !.seen = FALSE]
        <2>1. call.kind = "scan"
            BY <1>0, <1>1, <1>2 DEF ListPage
        <2>2. Go(t, call)
            BY <1>2 DEF ListPage
        <2> HIDE DEF call
        <2> QED BY <2>1, <2>2
    <1>3. CASE PageDone(t)
        <2> DEFINE shown == IF PageFull(task[t]) THEN Front(task[t].page) ELSE task[t].page
        <2> DEFINE kind == IF PageFull(task[t]) THEN "list" ELSE "listed"
        <2> DEFINE call == [task[t] EXCEPT !.kind = kind, !.taken = task[t].taken \o shown,
                                           !.cursor = IF PageFull(task[t]) THEN Last(shown) ELSE task[t].cursor]
        <2>1. call.kind = kind
            <3> HIDE DEF shown, kind
            <3> QED BY <1>0, <1>1, <1>3 DEF PageDone
        <2>2. Go(t, call)
            BY <1>3 DEF PageDone
        <2> HIDE DEF call
        <2> QED BY <2>1, <2>2
    <1>4. CASE CursorLost(t)
        <2> DEFINE call == [task[t] EXCEPT !.kind = "failed"]
        <2>1. call.kind = "failed"
            BY <1>0, <1>1, <1>4 DEF CursorLost
        <2>2. Go(t, call)
            BY <1>4 DEF CursorLost
        <2> HIDE DEF call
        <2> QED BY <2>1, <2>2
    <1>5. ASSUME NEW k \in Keys, ScanKey(t, k)
          PROVE  Continues
        <2> DEFINE shown == HasSidecar(k) /\ PastCursor(task[t], k) /\ ~PageFull(task[t])
        <2> DEFINE call == [task[t] EXCEPT
                                !.todo = task[t].todo \ {k},
                                !.seen = task[t].seen \/ (HasSidecar(k) /\ k = task[t].cursor),
                                !.page = IF shown THEN Append(task[t].page, k) ELSE task[t].page,
                                !.lasting = IF shown THEN task[t].lasting \cup {k} ELSE task[t].lasting]
        <2>1. call.kind = "scan"
            <3> HIDE DEF shown
            <3>1. task[t].kind = "scan"
                BY <1>5 DEF ScanKey
            <3> QED BY <1>0, <1>1, <3>1
        <2>2. Go(t, call)
            BY <1>5 DEF ScanKey
        <2> HIDE DEF call
        <2> QED BY <2>1, <2>2
    <1> QED BY <1>2, <1>3, <1>4, <1>5

LEMMA ReadingKeepsRecords ==
    ASSUME KeptInv, NamesAssumption, CallsAssumption, SentinelAssumption, NEW t \in Tasks, Reading(t)
    PROVE  Undisturbed'
    <1>1. UNCHANGED <<values, sidecars, client, kept>>
        BY DEF Reading, ReadValue, FindRecord, StatValue, ReadBytes, ListKeys, ListPage, PageDone, CursorLost, ScanKey
    <1>2. ASSUME NEW call, Go(t, call), call.kind \notin ChangeKinds \cup {"clear"}
          PROVE  Undisturbed'
        BY <1>1, <1>2, QuietStep
    <1>3. ASSUME NEW r \in Reads
          PROVE  /\ \A b, k : [r EXCEPT !.bytes = b, !.kind = k].kind = k
                 /\ \A c, k : [r EXCEPT !.record = c, !.kind = k].kind = k
                 /\ \A k : [r EXCEPT !.kind = k].kind = k
        BY DEF Reads
    <1>4. task[t].kind \in {"find", "stat", "bytes", "got"} => task[t] \in Reads
        BY CallType DEF KeptInv, TypeInv
    <1> USE DEF ChangeKinds
    <1>5. CASE ReadValue(t)
        BY <1>2, <1>5 DEF ReadValue
    <1>6. CASE FindRecord(t)
        <2> DEFINE kind == IF HasSidecar(task[t].key) THEN "stat" ELSE "got"
        <2> DEFINE call == [task[t] EXCEPT !.record = sidecars[task[t].key], !.kind = kind]
        <2>1. call.kind = kind
            BY <1>3, <1>4, <1>6 DEF FindRecord
        <2>2. Go(t, call)
            BY <1>6 DEF FindRecord
        <2> HIDE DEF call
        <2> QED BY <1>2, <2>1, <2>2
    <1>7. CASE StatValue(t)
        <2> DEFINE kind == IF HasFile(task[t].record.path) THEN "bytes" ELSE "got"
        <2> DEFINE call == [task[t] EXCEPT !.kind = kind]
        <2>1. call.kind = kind
            BY <1>3, <1>4, <1>7 DEF StatValue
        <2>2. Go(t, call)
            BY <1>7 DEF StatValue
        <2> HIDE DEF call
        <2> QED BY <1>2, <2>1, <2>2
    <1>8. CASE ReadBytes(t)
        <2> DEFINE call == [task[t] EXCEPT !.bytes = values[task[t].record.path], !.kind = "got"]
        <2>1. call.kind = "got"
            BY <1>3, <1>4, <1>8 DEF ReadBytes
        <2>2. Go(t, call)
            BY <1>8 DEF ReadBytes
        <2> HIDE DEF call
        <2> QED BY <1>2, <2>1, <2>2
    <1>9. CASE ListKeys(t)
        BY <1>2, <1>9 DEF ListKeys
    <1>10. CASE ListPage(t) \/ PageDone(t) \/ CursorLost(t) \/ \E k \in Keys : ScanKey(t, k)
        BY <1>2, <1>10, ListingGoesOn DEF KeptInv, TypeInv
    <1> QED BY <1>5, <1>6, <1>7, <1>8, <1>9, <1>10 DEF Reading

\* A call that is clean no longer is the same call.
LEMMA UncleanSame ==
    ASSUME TypeOK, NEW u \in Tasks, IsChange(task[u])
    PROVE  /\ SameOrLess(task[u], [task[u] EXCEPT !.clean = FALSE])
           /\ [task[u] EXCEPT !.clean = FALSE].clean = FALSE
           /\ [task[u] EXCEPT !.clean = FALSE].kind # "clear"
    <1>1. task[u] \in Changes
        BY CallType
    <1>2. [task[u] EXCEPT !.clean = FALSE].kind = task[u].kind
        BY <1>1 DEF Changes
    <1> QED BY <1>1, <1>2 DEF SameOrLess, IsChange, ChangeKinds, Changes

\* While purge runs no change is clean.
LEMMA PurgeTakesOn ==
    ASSUME KeptInv, NEW t \in Tasks, task[t].kind = "clear",
           \A u \in Tasks : SameOrLess(task[u], task'[u]),
           \A k \in Keys : kept[k] # None => /\ sidecars'[k] = sidecars[k]
                                             /\ values'[sidecars[k].path] = values[sidecars[k].path],
           UNCHANGED <<client, kept>>
    PROVE  Undisturbed'
    <1>1. AcknowledgedKept' /\ Unmet' /\ CleanAlone' /\ PurgeSpares'
        BY NothingBegins
    <1>2. \A u \in Tasks : ~(IsChange(task[u]) /\ task[u].clean)
        BY DEF KeptInv, Undisturbed, CleanAlone, Purging
    <1>3. CleanStage'
        BY <1>2 DEF CleanStage, SameOrLess, IsChange
    <1>4. OpeningKnows'
        BY DEF OpeningKnows, KeptInv, Undisturbed
    <1> QED BY <1>1, <1>3, <1>4 DEF Undisturbed

LEMMA ClearingKeepsRecords ==
    ASSUME KeptInv, NamesAssumption, CallsAssumption, SentinelAssumption, NEW t \in Tasks, Clearing(t)
    PROVE  Undisturbed'
    <1>1. CASE Purge(t)
        <2>1. PICK keep \in Keeps :
                 /\ task' = [u \in Tasks |->
                        IF u = t THEN [kind |-> "clear", keep |-> keep, spare |-> Spared(keep),
                                       names |-> FilesThere \ Spared(keep), records |-> SidecarsThere \ keep]
                        ELSE IF IsChange(task[u]) THEN [task[u] EXCEPT !.clean = FALSE]
                        ELSE task[u]]
                 /\ kept' = [k \in Keys |-> IF k \in keep THEN kept[k] ELSE None]
            BY <1>1 DEF Purge
        <2>2. UNCHANGED <<values, sidecars, client>> /\ client.kind = "open" /\ ~Purging
            BY <1>1 DEF Purge, Ready, MutexFree
        <2>3. /\ task'[t].kind = "clear" /\ task'[t].keep = keep /\ task'[t].spare = Spared(keep)
              /\ \A u \in Tasks \ {t} : task'[u] = IF IsChange(task[u]) THEN [task[u] EXCEPT !.clean = FALSE]
                                                   ELSE task[u]
            BY <2>1
        <2>4. ASSUME NEW u \in Tasks \ {t}
              PROVE  /\ SameOrLess(task[u], task'[u])
                     /\ IsChange(task'[u]) => ~task'[u].clean
                     /\ task'[u].kind # "clear"
            <3>1. CASE IsChange(task[u])
                <4>1. task'[u] = [task[u] EXCEPT !.clean = FALSE]
                    BY <2>3, <3>1
                <4> QED BY <3>1, <4>1, UncleanSame DEF KeptInv, TypeInv
            <3>2. CASE ~IsChange(task[u])
                BY <2>2, <2>3, <3>2 DEF SameOrLess, Purging
            <3> QED BY <3>1, <3>2
        <2>5. \A u \in Tasks : IsChange(task'[u]) => u # t /\ ~task'[u].clean
            BY <2>3, <2>4 DEF IsChange, ChangeKinds
        <2>6. CleanAlone' /\ CleanStage'
            BY <2>5 DEF CleanAlone, CleanStage, IsChange
        <2>7. \A k \in Keys : kept'[k] # None => k \in keep /\ kept'[k] = kept[k]
            BY <2>1
        <2>8. AcknowledgedKept'
            BY <2>2, <2>7 DEF KeptInv, Undisturbed, AcknowledgedKept, HasSidecar
        <2>9. Unmet'
            <3> SUFFICES ASSUME NEW k \in Keys, NEW u \in Tasks, kept'[k] # None,
                                Meets(task'[u], k, {sidecars[k].path})
                         PROVE  FALSE
                BY <2>2 DEF Unmet, Meets, IsChange
            <3>1. u # t
                BY <2>3 DEF Meets, IsChange, ChangeKinds
            <3>2. Meets(task[u], k, {sidecars[k].path})
                BY <2>4, <3>1 DEF Meets, SameOrLess
            <3> QED BY <2>7, <3>2 DEF KeptInv, Undisturbed, Unmet
        <2>10. PurgeSpares'
            <3>1. \A k \in Keys : kept'[k] # None => sidecars[k].path \in Spared(keep)
                BY <2>7 DEF KeptInv, Undisturbed, AcknowledgedKept, Spared, BoundFile
            <3> QED BY <2>2, <2>3, <2>4, <2>7, <3>1 DEF PurgeSpares
        <2>11. OpeningKnows'
            BY <2>2 DEF OpeningKnows
        <2> QED BY <2>6, <2>8, <2>9, <2>10, <2>11 DEF Undisturbed
    <1>2. CASE PurgeDone(t)
        BY <1>2, QuietStep DEF PurgeDone, Idle, ChangeKinds
    <1>3. CASE DropStorage(t)
        <2>1. PICK failed \in SUBSET {u \in Tasks : task[u].kind \in {"value", "record"}} :
                 task' = [u \in Tasks |->
                     IF u = t \/ u \in failed THEN Idle
                     ELSE IF IsChange(task[u]) THEN [task[u] EXCEPT !.clean = FALSE]
                     ELSE NoteRemoved(task[u], SidecarsThere)]
            BY <1>3 DEF DropStorage
        <2>2. ASSUME NEW u \in Tasks
              PROVE  SameOrLess(task[u], task'[u]) /\ (IsChange(task'[u]) => ~task'[u].clean)
            <3>1. CASE u = t \/ u \in failed
                BY <2>1, <3>1 DEF SameOrLess, IsChange, ChangeKinds, Idle
            <3>2. CASE ~(u = t \/ u \in failed) /\ IsChange(task[u])
                BY <2>1, <3>2, UncleanSame DEF KeptInv, TypeInv
            <3>3. CASE ~(u = t \/ u \in failed) /\ ~IsChange(task[u])
                <4>1. task'[u] = NoteRemoved(task[u], SidecarsThere)
                    BY <2>1, <3>3
                <4>2. task[u] \in Calls
                    BY DEF KeptInv, TypeInv, TypeOK
                <4>3. /\ IsChange(task'[u]) => task'[u] = task[u]
                      /\ task'[u].kind = "clear" => task'[u] = task[u]
                    BY <4>1, <4>2, NoteOnlyLists
                <4> QED BY <3>3, <4>3 DEF SameOrLess
            <3> QED BY <3>1, <3>2, <3>3
        <2>3. \A k \in Keys : kept'[k] = None
            BY <1>3 DEF DropStorage
        <2>4. AcknowledgedKept' /\ Unmet' /\ CleanAlone' /\ PurgeSpares'
            BY <2>2, <2>3, NothingBegins
        <2>5. CleanStage'
            BY <2>2 DEF CleanStage, IsChange
        <2>6. OpeningKnows'
            BY <2>3 DEF OpeningKnows
        <2> QED BY <2>4, <2>5, <2>6 DEF Undisturbed
    <1>4. ASSUME NEW n \in Names, PurgeValue(t, n)
          PROVE  Undisturbed'
        <2>1. task[t] \in Purges /\ task[t].kind = "clear"
            BY <1>4, CallType DEF PurgeValue, KeptInv, TypeInv
        <2>2. task'[t] = [task[t] EXCEPT !.names = task[t].names \ {n}] /\ \A u \in Tasks \ {t} : task'[u] = task[u]
            BY <1>4 DEF PurgeValue, Go, KeptInv, TypeInv, TypeOK
        <2>3. \A u \in Tasks : SameOrLess(task[u], task'[u])
            BY <2>1, <2>2 DEF SameOrLess, IsChange, ChangeKinds, Purges
        <2>4. ASSUME NEW k \in Keys, kept[k] # None
              PROVE  values'[sidecars[k].path] = values[sidecars[k].path]
            <3>1. sidecars[k].path \in Names /\ sidecars[k].path # n
                BY <1>4, <2>1, <2>4 DEF PurgeValue, KeptInv, Undisturbed, PurgeSpares,
                        AcknowledgedKept, HasSidecar, TypeInv, TypeOK, Records
            <3> QED BY <1>4, <3>1 DEF PurgeValue, KeptInv, TypeInv, TypeOK
        <2> QED BY <1>4, <2>1, <2>3, <2>4, PurgeTakesOn DEF PurgeValue
    <1>5. ASSUME NEW k \in Keys, PurgeSidecar(t, k)
          PROVE  Undisturbed'
        <2>1. task[t] \in Purges /\ task[t].kind = "clear"
            BY <1>5, CallType DEF PurgeSidecar, KeptInv, TypeInv
        <2>2. /\ task'[t] = [task[t] EXCEPT !.records = task[t].records \ {k}]
              /\ \A u \in Tasks \ {t} : task'[u] = NoteRemoved(task[u], {k})
              /\ \A j \in Keys \ {k} : sidecars'[j] = sidecars[j]
            BY <1>5 DEF PurgeSidecar, LoseSidecar, KeptInv, TypeInv, TypeOK
        <2>3. SameOrLess(task[t], task'[t])
            BY <2>1, <2>2 DEF SameOrLess, IsChange, ChangeKinds, Purges
        <2>4. \A u \in Tasks \ {t} : SameOrLess(task[u], task'[u])
            BY <2>2, NoteOnlyLists DEF SameOrLess, KeptInv, TypeInv, TypeOK
        <2>5. kept[k] = None
            BY <1>5, <2>1 DEF PurgeSidecar, KeptInv, Undisturbed, PurgeSpares
        <2> QED BY <1>5, <2>1, <2>2, <2>3, <2>4, <2>5, PurgeTakesOn DEF PurgeSidecar
    <1>6. ASSUME NEW u \in Tasks, PurgeTemporary(t, u)
          PROVE  Undisturbed'
        BY <1>6, QuietStep DEF PurgeTemporary, Idle, ChangeKinds
    <1> QED BY <1>1, <1>2, <1>3, <1>4, <1>5, <1>6 DEF Clearing

\* A step of an opening has no call beside it and makes no promise.
LEMMA OpeningAlone ==
    ASSUME Opening
    PROVE  client.kind # "open" /\ UNCHANGED <<task, kept, stamp>>
    <1>1. CASE Open \/ Create \/ ListForAdoption \/ StartSweep \/ OpenDone
        BY <1>1 DEF Open, Create, ListForAdoption, StartSweep, OpenDone, Closed
    <1>2. ASSUME NEW a \in Adoptable, NothingToAdopt(a) \/ Ambiguous(a)
          PROVE  client.kind # "open" /\ UNCHANGED <<task, kept, stamp>>
        BY <1>2 DEF NothingToAdopt, Ambiguous
    <1>3. ASSUME NEW a \in Adoptable, NEW n \in a.files, AdoptForKey(a, n)
          PROVE  client.kind # "open" /\ UNCHANGED <<task, kept, stamp>>
        BY <1>3 DEF AdoptForKey
    <1>4. ASSUME NEW n \in DOMAIN KeyFor, Sweep(n)
          PROVE  client.kind # "open" /\ UNCHANGED <<task, kept, stamp>>
        BY <1>4 DEF Sweep
    <1> QED BY <1>1, <1>2, <1>3, <1>4 DEF Opening

\* A sweep gives each file the key whose own file it is: a name that encode_key would
\* change is matched by no rule.
SweepsOwnFiles == \A n \in DOMAIN KeyFor : Own[KeyFor[n]] = n

\* A step of an opening, which has no call beside it.
LEMMA OpeningQuiet ==
    ASSUME KeptInv, client.kind # "open",
           \A k \in Keys : kept[k] # None => sidecars'[k] = sidecars[k],
           client'.kind \in {"keys", "sweep"} => \A k \in Keys : kept[k] # None => k \in client'.records,
           UNCHANGED <<values, task, kept>>
    PROVE  Undisturbed'
    <1>1. \A u \in Tasks : task[u] = Idle
        BY DEF KeptInv, TypeInv, NoStrayCall
    <1>2. \A u \in Tasks : ~IsChange(task[u]) /\ SameOrLess(task[u], task[u])
        BY <1>1 DEF IsChange, ChangeKinds, SameOrLess, Idle
    <1>3. AcknowledgedKept' /\ Unmet' /\ CleanAlone' /\ PurgeSpares'
        BY <1>2, NothingBegins
    <1>4. CleanStage'
        BY <1>2 DEF CleanStage, IsChange
    <1>5. OpeningKnows'
        BY DEF OpeningKnows
    <1> QED BY <1>3, <1>4, <1>5 DEF Undisturbed

LEMMA OpeningKeepsRecords ==
    ASSUME KeptInv, SweepsOwnFiles, NamesAssumption, CallsAssumption, SentinelAssumption, Opening
    PROVE  Undisturbed'
    <1>1. client.kind \in {"keys", "sweep"} =>
              /\ client \in Adoptions
              /\ \A k \in Keys : kept[k] # None => k \in client.records
        BY DEF Adoptions, KeptInv, Undisturbed, OpeningKnows, TypeInv, TypeOK
    <1>2. ASSUME NEW a \in Adoptions
          PROVE  /\ [a EXCEPT !.kind = "sweep"].records = a.records
                 /\ \A x : [a EXCEPT !.todo = x].records = a.records
                 /\ \A y : [a EXCEPT !.owned = y].records = a.records
                 /\ \A x, y : [a EXCEPT !.todo = x, !.owned = y].records = a.records
        BY DEF Adoptions, Openings
    <1>3. CASE Open
        BY <1>3, OpeningQuiet DEF Open, Become, Closed
    <1>4. CASE Create
        BY <1>4, OpeningQuiet DEF Create, Become
    <1>5. CASE ListForAdoption
        <2>1. \A k \in Keys : kept[k] # None => k \in SidecarsThere
            BY DEF KeptInv, Undisturbed, AcknowledgedKept, SidecarsThere
        <2> QED BY <1>5, <2>1, OpeningQuiet DEF ListForAdoption, Become
    <1>6. CASE StartSweep
        <2>1. client'.records = client.records /\ client.kind = "keys"
            BY <1>1, <1>2, <1>6 DEF StartSweep, Become
        <2> QED BY <1>1, <1>6, <2>1, OpeningQuiet DEF StartSweep
    <1>7. CASE OpenDone
        BY <1>7, OpeningQuiet DEF OpenDone, Become
    <1>8. ASSUME NEW a \in Adoptable, NothingToAdopt(a)
          PROVE  Undisturbed'
        <2>1. client'.records = client.records /\ client.kind = "keys"
            BY <1>1, <1>2, <1>8 DEF NothingToAdopt, Become
        <2> QED BY <1>1, <1>8, <2>1, OpeningQuiet DEF NothingToAdopt
    <1>9. ASSUME NEW a \in Adoptable, Ambiguous(a)
          PROVE  Undisturbed'
        BY <1>9, OpeningQuiet DEF Ambiguous, Become, Closed
    <1>10. ASSUME NEW a \in Adoptable, NEW n \in a.files, AdoptForKey(a, n)
           PROVE  Undisturbed'
        <2>1. client.kind = "keys" /\ client'.records = client.records
            <3>1. client.kind = "keys"
                BY <1>10 DEF AdoptForKey
            <3>2. client' = [client EXCEPT !.todo = client.todo \ {a}, !.owned = client.owned \cup {n, Own[a.key]}]
                BY <1>10 DEF AdoptForKey, Become
            <3> QED BY <1>1, <1>2, <3>1, <3>2
        <2>2. ASSUME NEW k \in Keys, kept[k] # None
              PROVE  k # a.key
            <3>1. HasSidecar(k) /\ values[sidecars[k].path] \in Nat
                BY <2>2 DEF KeptInv, Undisturbed, AcknowledgedKept, TypeInv, TypeOK
            <3>2. Tracked(k)
                BY <3>1 DEF Tracked, HasFile, SentinelAssumption
            <3> QED BY <1>10, <3>2 DEF AdoptForKey, Claims
        <2>3. \A k \in Keys : kept[k] # None => sidecars'[k] = sidecars[k]
            BY <1>10, <2>2 DEF AdoptForKey, KeptInv, TypeInv, TypeOK
        <2> QED BY <1>1, <1>10, <2>1, <2>3, OpeningQuiet DEF AdoptForKey
    <1>11. ASSUME NEW n \in DOMAIN KeyFor, Sweep(n)
           PROVE  Undisturbed'
        <2>1. client.kind = "sweep" /\ client'.records = client.records
            <3>1. client.kind = "sweep"
                BY <1>11 DEF Sweep
            <3>2. client' = [client EXCEPT !.owned = client.owned \cup {n, Own[KeyFor[n]]}]
                BY <1>11 DEF Sweep, Become
            <3> QED BY <1>1, <1>2, <3>1, <3>2
        <2>2. ASSUME NEW k \in Keys, kept[k] # None
              PROVE  k # KeyFor[n]
            <3>1. k \in client.records
                BY <1>1, <2>1, <2>2
            <3> QED BY <1>11, <3>1 DEF Sweep, Swept, SweepsOwnFiles
        <2>3. \A k \in Keys : kept[k] # None => sidecars'[k] = sidecars[k]
            BY <1>11, <2>2 DEF Sweep, KeptInv, TypeInv, TypeOK
        <2> QED BY <1>1, <1>11, <2>1, <2>3, OpeningQuiet DEF Sweep
    <1> QED BY <1>3, <1>4, <1>5, <1>6, <1>7, <1>8, <1>9, <1>10, <1>11 DEF Opening

LEMMA TaskFaultKeepsRecords ==
    ASSUME KeptInv, NEW t \in Tasks, WriteFails(t) \/ RemoveFails(t)
    PROVE  Undisturbed'
    <1> USE DEF ChangeKinds
    <1>1. CASE WriteFails(t)
        BY <1>1, QuietStep DEF WriteFails, Idle
    <1>2. CASE RemoveFails(t)
        <2>1. UNCHANGED <<values, sidecars, client, kept>>
            BY <1>2 DEF RemoveFails
        <2>2. CASE task[t].kind = "unbind" /\ Go(t, [task[t] EXCEPT !.kind = "value"])
            <3>1. IsChange(task[t])
                BY <2>2 DEF IsChange
            <3>2. /\ \A u \in Tasks \ {t} : task'[u] = task[u]
                  /\ SameOrLess(task[t], task'[t]) /\ task'[t].kind = "value"
                BY <2>2, <3>1, NextPart DEF KeptInv
            <3> QED BY <2>1, <3>1, <3>2, ChangeGoesOn
        <2>3. CASE task[t].kind \in {"remove", "removeSidecar"} /\ Go(t, Idle)
            BY <2>1, <2>3, QuietStep DEF Idle
        <2>4. ASSUME task[t].kind = "clear",
                     \/ \E n \in Names : Go(t, [task[t] EXCEPT !.names = task[t].names \ {n}])
                     \/ \E k \in Keys : Go(t, [task[t] EXCEPT !.records = task[t].records \ {k}])
              PROVE  Undisturbed'
            <3>1. task[t] \in Purges
                BY <2>4, CallType DEF KeptInv, TypeInv
            <3>2. \A u \in Tasks \ {t} : task'[u] = task[u]
                BY <2>4 DEF Go, KeptInv, TypeInv, TypeOK
            <3>3. \/ \E n \in Names : task'[t] = [task[t] EXCEPT !.names = task[t].names \ {n}]
                  \/ \E k \in Keys : task'[t] = [task[t] EXCEPT !.records = task[t].records \ {k}]
                BY <2>4 DEF Go, KeptInv, TypeInv, TypeOK
            <3>4. task'[t].kind = "clear" /\ task'[t].keep = task[t].keep /\ task'[t].spare = task[t].spare
                BY <2>4, <3>1, <3>3 DEF Purges
            <3>5. \A u \in Tasks : SameOrLess(task[u], task'[u])
                BY <2>4, <3>2, <3>4 DEF SameOrLess, IsChange
            <3> QED BY <2>1, <2>4, <3>5, PurgeTakesOn
        <2> QED BY <1>2, <2>2, <2>3, <2>4 DEF RemoveFails
    <1> QED BY <1>1, <1>2

LEMMA StoreFaultKeepsRecords ==
    ASSUME KeptInv, SentinelAssumption, CallsAssumption,
           Crash \/ OpenFails \/ \E n \in Outside : OutsideWrite(n)
    PROVE  Undisturbed'
    <1>1. CASE Crash
        <2>1. \A u \in Tasks : task'[u] = Idle
            BY <1>1 DEF Crash
        <2>2. \A u \in Tasks : SameOrLess(task[u], task'[u]) /\ ~IsChange(task'[u])
            BY <2>1 DEF SameOrLess, IsChange, ChangeKinds, Idle
        <2>3. AcknowledgedKept' /\ Unmet' /\ CleanAlone' /\ PurgeSpares'
            BY <1>1, <2>2, NothingBegins DEF Crash
        <2>4. CleanStage' /\ OpeningKnows'
            BY <1>1, <2>2 DEF CleanStage, IsChange, OpeningKnows, Crash, Become, Closed
        <2> QED BY <2>3, <2>4 DEF Undisturbed
    <1>2. CASE OpenFails
        BY <1>2, OpeningQuiet DEF OpenFails, Become, Closed
    <1>3. ASSUME NEW n \in Outside, OutsideWrite(n)
          PROVE  Undisturbed'
        <2>1. n \in Names /\ values[n] = Absent /\ UNCHANGED <<sidecars, client, task, kept>>
            BY <1>3 DEF OutsideWrite, HasFile, CallsAssumption
        <2>2. \A m \in Names : values[m] # Absent => values'[m] = values[m]
            BY <1>3, <2>1 DEF OutsideWrite, KeptInv, TypeInv, TypeOK
        <2>3. \A k \in Keys : kept[k] # None =>
                  sidecars[k].path \in Names /\ values[sidecars[k].path] # Absent
            BY DEF KeptInv, Undisturbed, AcknowledgedKept, HasSidecar, SentinelAssumption, TypeInv, TypeOK, Records
        <2>4. \A u \in Tasks : SameOrLess(task[u], task[u])
            BY DEF SameOrLess
        <2>5. AcknowledgedKept' /\ Unmet' /\ CleanAlone' /\ PurgeSpares'
            BY <2>1, <2>2, <2>3, <2>4, NothingBegins
        <2>6. CleanStage'
            <3> SUFFICES ASSUME NEW t \in Tasks, IsChange(task[t]), task[t].clean,
                                task[t].kind \in {"record", "save"}
                         PROVE  values'[task[t].path] = values[task[t].path]
                BY <2>1 DEF CleanStage, IsChange, KeptInv, Undisturbed
            <3>1. task[t] \in Changes
                BY CallType DEF KeptInv, TypeInv
            <3>2. task[t].path \in Names /\ values[task[t].path] # Absent
                BY <3>1 DEF KeptInv, Undisturbed, CleanStage, Changes, SentinelAssumption
            <3> QED BY <2>2, <3>2
        <2>7. OpeningKnows'
            BY <2>1 DEF OpeningKnows, KeptInv, Undisturbed
        <2> QED BY <2>5, <2>6, <2>7 DEF Undisturbed
    <1> QED BY <1>1, <1>2, <1>3

LEMMA RecordsKept ==
    ASSUME SweepsOwnFiles
    PROVE  Spec => []KeptInv
    <1> USE NamesAssumption, CallsAssumption, SentinelAssumption, BoundsAssumption
    <1>1. Init => KeptInv
        <2> SUFFICES ASSUME Init
                     PROVE  KeptInv
            OBVIOUS
        <2>1. \A k \in Keys : kept[k] = None
            BY DEF Init
        <2>2. \A t \in Tasks : task[t] = Idle
            BY DEF Init
        <2>3. Undisturbed
            BY <2>1, <2>2 DEF Undisturbed, AcknowledgedKept, Unmet, CleanAlone, CleanStage, PurgeSpares,
                   OpeningKnows, IsChange, ChangeKinds, Idle
        <2> QED BY <2>3, InitTyped DEF KeptInv
    <1>2. KeptInv /\ [Next]_vars => KeptInv'
        <2> SUFFICES ASSUME KeptInv, [Next]_vars
                     PROVE  Undisturbed'
            BY StepKeepsType DEF KeptInv
        <2>1. CASE UNCHANGED vars
            BY <2>1 DEF vars, KeptInv, Undisturbed, AcknowledgedKept, Unmet, CleanAlone, CleanStage, PurgeSpares,
                   OpeningKnows, HasSidecar, Meets, IsChange, Purging
        <2>2. ASSUME NEW t \in Tasks, Changing(t) \/ Reading(t) \/ Clearing(t) \/ WriteFails(t) \/ RemoveFails(t)
              PROVE  Undisturbed'
            BY <2>2, ChangingKeepsRecords, ReadingKeepsRecords, ClearingKeepsRecords, TaskFaultKeepsRecords
        <2> QED BY <2>1, <2>2, OpeningKeepsRecords, StoreFaultKeepsRecords DEF Next
    <1> QED BY <1>1, <1>2, PTL DEF Spec

\* The record of a set_value that ended well stays complete, through crashes, failed
\* operations, reopenings and whatever other callers do to other keys and files, as long
\* as the rules of an opening match only names that encode_key leaves as they are.
THEOREM AcknowledgedStay == SweepsOwnFiles => (Spec => []AcknowledgedKept)
    <1>1. KeptInv => AcknowledgedKept
        BY DEF KeptInv, Undisturbed
    <1>2. SweepsOwnFiles => (Spec => []KeptInv)
        BY RecordsKept
    <1> QED BY <1>1, <1>2, PTL

-------------------------------------------------------------------------------
(* Reads are exact *)

IsRead(call) == call.kind \in {"find", "stat", "bytes", "got"}
IsSet(call) == call.kind \in {"unbind", "value", "record", "save"}

\* A read of a key that was owed a write when it began.
Expecting(call) == IsRead(call) /\ call.expect # None

\* The write a set_value will acknowledge is no key's yet, no read expects it, and no
\* other set_value has it: what a key was owed once it is not owed a second time.
StampsFresh ==
    /\ \A k \in Keys : kept[k] # None => kept[k] <= stamp
    /\ \A t \in Tasks : Expecting(task[t]) => task[t].expect <= stamp
    /\ \A t \in Tasks : IsSet(task[t]) =>
          /\ task[t].of <= stamp
          /\ \A k \in Keys : kept[k] # task[t].of
          /\ \A u \in Tasks : Expecting(task[u]) => task[u].expect # task[t].of
          /\ \A u \in Tasks \ {t} : IsSet(task[u]) => task[u].of # task[t].of

\* While the key is owed what the read expects, what the read found is still so.
ReadSound ==
    \A t \in Tasks : LET call == task[t] IN
        Expecting(call) /\ kept[call.key] = call.expect =>
            /\ call.kind # "find" => call.record = sidecars[call.key]
            /\ call.kind = "got" => call.bytes = call.expect

ReadInv == StampsFresh /\ ReadSound

\* No key is owed another write, and the sidecars of those still owed one stay.
OwedStay ==
    \A k \in Keys : kept'[k] # None => kept'[k] = kept[k] /\ sidecars'[k] = sidecars[k]

\* A step in which no read goes on and no set_value begins or ends well.
LEMMA ReadsStay ==
    ASSUME TypeInv, TypeInv', ReadInv, OwedStay, stamp <= stamp',
           \A u \in Tasks : IsRead(task'[u]) => task'[u] = task[u],
           \A u \in Tasks : IsSet(task'[u]) => IsSet(task[u]) /\ task'[u].of = task[u].of
    PROVE  ReadInv'
    <1>1. stamp \in Nat /\ stamp' \in Nat
        BY DEF TypeInv, TypeOK
    <1>2. ASSUME NEW u \in Tasks, Expecting(task'[u])
          PROVE  task'[u] = task[u] /\ Expecting(task[u]) /\ task[u].expect \in Nat /\ task[u].key \in Keys
        <2>1. task'[u] = task[u] /\ Expecting(task[u])
            BY <1>2 DEF Expecting
        <2>2. task[u] \in Reads
            BY <2>1, CallType DEF TypeInv, Expecting, IsRead
        <2> QED BY <2>1, <2>2 DEF Reads, Expecting
    <1>3. ASSUME NEW u \in Tasks, IsSet(task'[u])
          PROVE  IsSet(task[u]) /\ task'[u].of = task[u].of /\ task[u].of \in Nat
        <2>1. task[u] \in Changes
            BY <1>3, CallType DEF TypeInv, IsSet, IsChange, ChangeKinds
        <2> QED BY <1>3, <2>1 DEF Changes
    <1>4. \A k \in Keys : kept[k] # None => kept[k] \in Nat
        BY DEF TypeInv, TypeOK
    <1>5. \A k \in Keys : kept'[k] # None => kept'[k] <= stamp'
        BY <1>1, <1>4 DEF OwedStay, ReadInv, StampsFresh
    <1>6. \A u \in Tasks : Expecting(task'[u]) => task'[u].expect <= stamp'
        BY <1>1, <1>2 DEF ReadInv, StampsFresh
    <1>7. ASSUME NEW t \in Tasks, IsSet(task'[t])
          PROVE  /\ task'[t].of <= stamp'
                 /\ \A k \in Keys : kept'[k] # task'[t].of
                 /\ \A u \in Tasks : Expecting(task'[u]) => task'[u].expect # task'[t].of
                 /\ \A u \in Tasks \ {t} : IsSet(task'[u]) => task'[u].of # task'[t].of
        <2>1. task[t].of <= stamp'
            BY <1>1, <1>3, <1>7 DEF ReadInv, StampsFresh
        <2>2. \A k \in Keys : kept'[k] # task[t].of
            <3>1. None \notin Nat
                BY SentinelAssumption
            <3> QED BY <1>3, <1>7, <3>1 DEF OwedStay, ReadInv, StampsFresh
        <2>3. \A u \in Tasks : Expecting(task'[u]) => task'[u].expect # task[t].of
            BY <1>2, <1>3, <1>7 DEF ReadInv, StampsFresh
        <2>4. \A u \in Tasks \ {t} : IsSet(task'[u]) => task'[u].of # task[t].of
            BY <1>3, <1>7 DEF ReadInv, StampsFresh
        <2> QED BY <1>3, <1>7, <2>1, <2>2, <2>3, <2>4
    <1>8. StampsFresh'
        BY <1>5, <1>6, <1>7 DEF StampsFresh, Expecting, IsRead, IsSet
    <1>9. ReadSound'
        <2> SUFFICES ASSUME NEW t \in Tasks, Expecting(task'[t]), kept'[task'[t].key] = task'[t].expect
                     PROVE  /\ task'[t].kind # "find" => task'[t].record = sidecars'[task'[t].key]
                            /\ task'[t].kind = "got" => task'[t].bytes = task'[t].expect
            BY DEF ReadSound, Expecting, IsRead
        <2>1. task'[t] = task[t] /\ Expecting(task[t]) /\ task[t].key \in Keys
            BY <1>2
        <2>2. kept'[task[t].key] # None
            BY <2>1 DEF Expecting
        <2>3. kept[task[t].key] = task[t].expect /\ sidecars'[task[t].key] = sidecars[task[t].key]
            BY <2>1, <2>2 DEF OwedStay
        <2> QED BY <2>1, <2>3 DEF ReadInv, ReadSound
    <1> QED BY <1>8, <1>9 DEF ReadInv

\* The same for a step of one call.
LEMMA ReadsStayBeside ==
    ASSUME TypeInv, TypeInv', ReadInv, OwedStay, UNCHANGED stamp,
           NEW t \in Tasks, NEW call, Go(t, call), ~IsRead(call),
           IsSet(call) => IsSet(task[t]) /\ call.of = task[t].of
    PROVE  ReadInv'
    <1>1. task'[t] = call /\ \A u \in Tasks \ {t} : task'[u] = task[u]
        BY DEF Go, TypeInv, TypeOK
    <1>2. stamp <= stamp'
        BY DEF TypeInv, TypeOK
    <1> QED BY <1>1, <1>2, ReadsStay

\* A change goes on as its next part.
LEMMA ReadsStayNext ==
    ASSUME TypeInv, TypeInv', ReadInv, OwedStay, UNCHANGED stamp,
           NEW t \in Tasks, IsChange(task[t]), NEW kind \in ChangeKinds, Go(t, [task[t] EXCEPT !.kind = kind]),
           IsSet([kind |-> kind]) => IsSet(task[t])
    PROVE  ReadInv'
    <1>1. task[t] \in Changes
        BY CallType DEF TypeInv
    <1>2. [task[t] EXCEPT !.kind = kind].kind = kind /\ [task[t] EXCEPT !.kind = kind].of = task[t].of
        BY <1>1 DEF Changes
    <1>3. ~IsRead([task[t] EXCEPT !.kind = kind])
        BY <1>2 DEF IsRead, ChangeKinds
    <1>4. IsSet([task[t] EXCEPT !.kind = kind]) => IsSet([kind |-> kind])
        BY <1>2 DEF IsSet
    <1> QED BY <1>2, <1>3, <1>4, ReadsStayBeside

\* The key of a change is owed nothing meanwhile.
LEMMA ChangedNotOwed ==
    ASSUME KeptInv, NEW t \in Tasks, IsChange(task[t])
    PROVE  task[t] \in Changes /\ kept[task[t].key] = None
    <1>1. task[t] \in Changes
        BY CallType DEF KeptInv, TypeInv
    <1>2. task[t].key \in Keys
        BY <1>1 DEF Changes
    <1> QED BY <1>1, <1>2 DEF KeptInv, Undisturbed, Unmet, Meets

\* A change that begins leaves the others what they are.
LEMMA BeginLeaves ==
    ASSUME TypeInv, NEW t \in Tasks, NEW k \in Keys, NEW names, NEW call, Begin(t, k, names, call)
    PROVE  /\ task'[t] = call
           /\ \A u \in Tasks \ {t} : /\ IsRead(task'[u]) => task'[u] = task[u]
                                     /\ IsSet(task'[u]) => IsSet(task[u]) /\ task'[u].of = task[u].of
           /\ \A j \in Keys : kept'[j] # None => kept'[j] = kept[j]
    <1>1. task'[t] = call /\ \A j \in Keys : kept'[j] # None => kept'[j] = kept[j]
        BY DEF Begin
    <1>2. ASSUME NEW u \in Tasks \ {t}
          PROVE  /\ IsRead(task'[u]) => task'[u] = task[u]
                 /\ IsSet(task'[u]) => IsSet(task[u]) /\ task'[u].of = task[u].of
        <2>1. CASE Meets(task[u], k, names)
            <3>1. IsChange(task[u]) /\ task[u] \in Changes
                BY <2>1, CallType DEF Meets, TypeInv
            <3>2. task'[u] = [task[u] EXCEPT !.clean = FALSE]
                BY <2>1 DEF Begin
            <3>3. task'[u].kind = task[u].kind /\ task'[u].of = task[u].of
                BY <3>1, <3>2 DEF Changes
            <3> QED BY <3>1, <3>3 DEF IsRead, IsSet, IsChange, ChangeKinds
        <2>2. CASE ~Meets(task[u], k, names)
            BY <2>2 DEF Begin
        <2> QED BY <2>1, <2>2
    <1> QED BY <1>1, <1>2

\* A set_value begins with a stamp of its own.
LEMMA SetValueKeepsReads ==
    ASSUME KeptInv, TypeInv', ReadInv, NEW t \in Tasks, SetValue(t)
    PROVE  ReadInv'
    <1>1. PICK b \in Bindings : \E names, call : Begin(t, b.key, names, call) /\ call.of = stamp' /\ call.kind \in {"value", "unbind"}
        BY DEF SetValue
    <1>2. PICK names, call : Begin(t, b.key, names, call) /\ call.of = stamp' /\ call.kind \in {"value", "unbind"}
        BY <1>1
    <1>3. b.key \in Keys
        BY CallsAssumption
    <1>4. TypeInv /\ stamp \in Nat /\ stamp' = stamp + 1
        BY DEF SetValue, KeptInv, TypeInv, TypeOK
    <1>5. /\ task'[t] = call
          /\ \A u \in Tasks \ {t} : /\ IsRead(task'[u]) => task'[u] = task[u]
                                    /\ IsSet(task'[u]) => IsSet(task[u]) /\ task'[u].of = task[u].of
          /\ \A j \in Keys : kept'[j] # None => kept'[j] = kept[j]
        BY <1>2, <1>3, <1>4, BeginLeaves
    <1>6. UNCHANGED sidecars
        BY DEF SetValue
    <1>7. \A k \in Keys : kept[k] # None => kept[k] \in Nat /\ kept[k] <= stamp
        BY DEF KeptInv, TypeInv, TypeOK, ReadInv, StampsFresh
    <1>8. ASSUME NEW u \in Tasks, Expecting(task'[u])
          PROVE  /\ u # t /\ task'[u] = task[u] /\ Expecting(task[u])
                 /\ task[u].expect \in Nat /\ task[u].expect <= stamp /\ task[u].key \in Keys
        <2>1. u # t
            BY <1>2, <1>5, <1>8 DEF Expecting, IsRead
        <2>2. task'[u] = task[u] /\ Expecting(task[u])
            BY <1>5, <1>8, <2>1 DEF Expecting
        <2>3. task[u] \in Reads
            BY <1>4, <2>2, CallType DEF TypeInv, Expecting, IsRead
        <2> QED BY <2>1, <2>2, <2>3 DEF Reads, Expecting, ReadInv, StampsFresh
    <1>9. ASSUME NEW u \in Tasks \ {t}, IsSet(task'[u])
          PROVE  IsSet(task[u]) /\ task'[u].of = task[u].of /\ task[u].of \in Nat /\ task[u].of <= stamp
        <2>1. task[u] \in Changes
            BY <1>4, <1>5, <1>9, CallType DEF TypeInv, IsSet, IsChange, ChangeKinds
        <2> QED BY <1>5, <1>9, <2>1 DEF Changes, ReadInv, StampsFresh
    <1>10. None \notin Nat
        BY SentinelAssumption
    <1>11. ASSUME NEW s \in Tasks, IsSet(task'[s])
           PROVE  /\ task'[s].of <= stamp'
                  /\ \A k \in Keys : kept'[k] # task'[s].of
                  /\ \A u \in Tasks : Expecting(task'[u]) => task'[u].expect # task'[s].of
                  /\ \A u \in Tasks \ {s} : IsSet(task'[u]) => task'[u].of # task'[s].of
        <2>1. CASE s = t
            <3>1. task'[s].of = stamp + 1
                BY <1>2, <1>4, <1>5, <2>1
            <3>2. \A k \in Keys : kept'[k] # stamp + 1
                BY <1>4, <1>5, <1>7, <1>10
            <3>3. \A u \in Tasks : Expecting(task'[u]) => task'[u].expect # stamp + 1
                BY <1>4, <1>8
            <3>4. \A u \in Tasks \ {s} : IsSet(task'[u]) => task'[u].of # stamp + 1
                BY <1>4, <1>9, <2>1
            <3> QED BY <1>4, <3>1, <3>2, <3>3, <3>4
        <2>2. CASE s # t
            <3>1. /\ IsSet(task[s]) /\ task'[s].of = task[s].of
                  /\ task[s].of \in Nat /\ task[s].of <= stamp
                BY <1>9, <1>11, <2>2
            <3>2. \A k \in Keys : kept'[k] # task[s].of
                BY <1>5, <1>10, <3>1 DEF ReadInv, StampsFresh
            <3>3. \A u \in Tasks : Expecting(task'[u]) => task'[u].expect # task[s].of
                BY <1>8, <3>1 DEF ReadInv, StampsFresh
            <3>4. ASSUME NEW u \in Tasks \ {s}, IsSet(task'[u])
                  PROVE  task'[u].of # task[s].of
                <4>1. CASE u = t
                    BY <1>2, <1>4, <1>5, <3>1, <4>1
                <4>2. CASE u # t
                    BY <1>9, <3>1, <3>4, <4>2 DEF ReadInv, StampsFresh
                <4> QED BY <4>1, <4>2
            <3> QED BY <1>4, <3>1, <3>2, <3>3, <3>4
        <2> QED BY <2>1, <2>2
    <1>12. StampsFresh'
        <2>1. \A k \in Keys : kept'[k] # None => kept'[k] <= stamp'
            BY <1>4, <1>5, <1>7
        <2>2. \A u \in Tasks : Expecting(task'[u]) => task'[u].expect <= stamp'
            BY <1>4, <1>8
        <2> QED BY <1>11, <2>1, <2>2 DEF StampsFresh, Expecting, IsRead, IsSet
    <1>13. ReadSound'
        <2> SUFFICES ASSUME NEW u \in Tasks, Expecting(task'[u]), kept'[task'[u].key] = task'[u].expect
                     PROVE  /\ task'[u].kind # "find" => task'[u].record = sidecars'[task'[u].key]
                            /\ task'[u].kind = "got" => task'[u].bytes = task'[u].expect
            BY DEF ReadSound, Expecting, IsRead
        <2>1. task'[u] = task[u] /\ Expecting(task[u]) /\ task[u].key \in Keys
            BY <1>8
        <2>2. kept[task[u].key] = task[u].expect
            BY <1>5, <2>1 DEF Expecting
        <2> QED BY <1>6, <2>1, <2>2 DEF ReadInv, ReadSound
    <1> QED BY <1>12, <1>13 DEF ReadInv

\* That a sidecar is gone concerns listings only.
LEMMA NotingLeaves ==
    ASSUME NEW call \in Calls, NEW ks
    PROVE  /\ IsRead(NoteRemoved(call, ks)) => NoteRemoved(call, ks) = call
           /\ IsSet(NoteRemoved(call, ks)) => NoteRemoved(call, ks) = call
    <1>1. CASE call.kind \in {"list", "scan", "listed", "failed"}
        BY <1>1, NoteOnlyLists DEF IsRead, IsSet
    <1>2. CASE call.kind \notin {"list", "scan", "listed", "failed"}
        BY <1>2 DEF NoteRemoved
    <1> QED BY <1>1, <1>2

\* A set_value that ends well makes its stamp the one its key is owed.
LEMMA SetDoneKeepsReads ==
    ASSUME KeptInv, TypeInv', ReadInv, NEW t \in Tasks, SetDone(t)
    PROVE  ReadInv'
    <1> DEFINE call == task[t]
    <1>1. call \in Changes /\ kept[call.key] = None /\ IsSet(call)
        BY ChangedNotOwed DEF SetDone, IsChange, ChangeKinds, IsSet
    <1>2. task'[t] = Idle /\ \A u \in Tasks \ {t} : task'[u] = task[u]
        BY DEF SetDone, Go, KeptInv, TypeInv, TypeOK
    <1>3. UNCHANGED <<sidecars, stamp>>
        BY DEF SetDone
    <1>4. \A k \in Keys : kept'[k] = IF k = call.key THEN (IF call.clean THEN call.of ELSE None) ELSE kept[k]
        BY <1>1 DEF SetDone, KeptInv, TypeInv, TypeOK
    <1>5. \A u \in Tasks : Expecting(task'[u]) \/ IsSet(task'[u]) => u # t /\ task'[u] = task[u]
        BY <1>2 DEF Expecting, IsRead, IsSet, Idle
    <1>6. /\ call.of <= stamp
          /\ \A u \in Tasks : Expecting(task[u]) => task[u].expect # call.of
          /\ \A u \in Tasks \ {t} : IsSet(task[u]) => task[u].of # call.of
        BY <1>1 DEF ReadInv, StampsFresh
    <1>7. None \notin Nat
        BY SentinelAssumption
    <1> HIDE DEF call
    <1>8. \A k \in Keys : kept'[k] # None => kept'[k] <= stamp'
        BY <1>3, <1>4, <1>6 DEF ReadInv, StampsFresh
    <1>9. \A u \in Tasks : Expecting(task'[u]) => task'[u].expect <= stamp'
        BY <1>3, <1>5 DEF ReadInv, StampsFresh
    <1>10. ASSUME NEW s \in Tasks, IsSet(task'[s])
           PROVE  /\ task'[s].of <= stamp'
                  /\ \A k \in Keys : kept'[k] # task'[s].of
                  /\ \A u \in Tasks : Expecting(task'[u]) => task'[u].expect # task'[s].of
                  /\ \A u \in Tasks \ {s} : IsSet(task'[u]) => task'[u].of # task'[s].of
        <2>1. s # t /\ task'[s] = task[s] /\ IsSet(task[s])
            BY <1>5, <1>10
        <2>2. task[s] \in Changes
            BY <2>1, CallType DEF KeptInv, TypeInv, IsSet, IsChange, ChangeKinds
        <2>3. task[s].of \in Nat /\ task[s].of # call.of
            BY <1>6, <2>1, <2>2 DEF Changes
        <2>4. \A k \in Keys : kept'[k] # task[s].of
            BY <1>4, <1>7, <2>1, <2>3 DEF ReadInv, StampsFresh
        <2> QED BY <1>3, <1>5, <2>1, <2>4 DEF ReadInv, StampsFresh
    <1>11. StampsFresh'
        BY <1>8, <1>9, <1>10 DEF StampsFresh, Expecting, IsRead, IsSet
    <1>12. ReadSound'
        <2> SUFFICES ASSUME NEW u \in Tasks, Expecting(task'[u]), kept'[task'[u].key] = task'[u].expect
                     PROVE  /\ task'[u].kind # "find" => task'[u].record = sidecars'[task'[u].key]
                            /\ task'[u].kind = "got" => task'[u].bytes = task'[u].expect
            BY DEF ReadSound, Expecting, IsRead
        <2>1. task'[u] = task[u] /\ Expecting(task[u])
            BY <1>5
        <2>2. task[u] \in Reads
            BY <2>1, CallType DEF KeptInv, TypeInv, Expecting, IsRead
        <2>3. task[u].key \in Keys
            BY <2>2 DEF Reads
        <2>4. task[u].expect # None /\ task[u].expect # call.of
            BY <1>6, <2>1 DEF Expecting
        <2>5. kept[task[u].key] = task[u].expect
            BY <1>4, <2>1, <2>3, <2>4
        <2> QED BY <1>3, <2>1, <2>5 DEF ReadInv, ReadSound
    <1> QED BY <1>11, <1>12 DEF ReadInv

LEMMA ChangingKeepsReads ==
    ASSUME KeptInv, TypeInv', ReadInv, NEW t \in Tasks, Changing(t)
    PROVE  ReadInv'
    <1> USE DEF ChangeKinds, IsSet, IsRead
    <1>0. TypeInv
        BY DEF KeptInv
    <1>1. CASE SetValue(t)
        BY <1>1, SetValueKeepsReads
    <1>2. CASE Unbind(t)
        <2>1. IsChange(task[t]) /\ OwedStay
            BY <1>2 DEF Unbind, IsChange, OwedStay
        <2> QED BY <1>0, <1>2, <2>1, ReadsStayNext DEF Unbind
    <1>3. CASE WriteValue(t)
        <2>1. IsChange(task[t]) /\ OwedStay
            BY <1>3 DEF WriteValue, IsChange, OwedStay
        <2> QED BY <1>0, <1>3, <2>1, ReadsStayNext DEF WriteValue
    <1>4. CASE WriteSidecar(t)
        <2>1. IsChange(task[t])
            BY <1>4 DEF WriteSidecar, IsChange
        <2>2. OwedStay
            BY <1>4, <2>1, ChangedNotOwed DEF WriteSidecar, OwedStay, KeptInv, TypeInv, TypeOK
        <2> QED BY <1>0, <1>4, <2>1, <2>2, ReadsStayNext DEF WriteSidecar
    <1>5. CASE SetDone(t)
        BY <1>5, SetDoneKeepsReads
    <1>6. CASE DeleteValue(t)
        <2>1. PICK k \in Keys : \E names, call : Begin(t, k, names, call) /\ call.kind = "look"
            BY <1>6 DEF DeleteValue
        <2>2. PICK names, call : Begin(t, k, names, call) /\ call.kind = "look"
            BY <2>1
        <2>3. /\ task'[t] = call
              /\ \A u \in Tasks \ {t} : /\ IsRead(task'[u]) => task'[u] = task[u]
                                        /\ IsSet(task'[u]) => IsSet(task[u]) /\ task'[u].of = task[u].of
              /\ \A j \in Keys : kept'[j] # None => kept'[j] = kept[j]
            BY <1>0, <2>2, BeginLeaves
        <2>4. OwedStay /\ stamp <= stamp'
            BY <1>6, <2>3 DEF DeleteValue, OwedStay, KeptInv, TypeInv, TypeOK
        <2>5. ~IsRead(task'[t]) /\ ~IsSet(task'[t])
            BY <2>2, <2>3
        <2>6. \A u \in Tasks : IsRead(task'[u]) => task'[u] = task[u]
            BY <2>3, <2>5
        <2>7. \A u \in Tasks : IsSet(task'[u]) => IsSet(task[u]) /\ task'[u].of = task[u].of
            BY <2>3, <2>5
        <2> HIDE DEF IsRead, IsSet
        <2> QED BY <1>0, <2>4, <2>6, <2>7, ReadsStay
    <1>7. CASE LookForValue(t)
        <2>1. IsChange(task[t]) /\ OwedStay
            BY <1>7 DEF LookForValue, IsChange, OwedStay
        <2> DEFINE kind == IF HasFile(task[t].path) THEN "remove" ELSE "lookSidecar"
        <2>2. Go(t, [task[t] EXCEPT !.kind = kind]) /\ kind \in ChangeKinds /\ ~IsSet([kind |-> kind])
            BY <1>7 DEF LookForValue
        <2> QED BY <1>0, <1>7, <2>1, <2>2, ReadsStayNext DEF LookForValue
    <1>8. CASE RemoveValue(t)
        <2>1. IsChange(task[t]) /\ OwedStay
            BY <1>8 DEF RemoveValue, IsChange, OwedStay
        <2>2. CASE Go(t, [task[t] EXCEPT !.kind = "lookSidecar"])
            BY <1>0, <1>8, <2>1, <2>2, ReadsStayNext DEF RemoveValue
        <2>3. CASE Go(t, Idle)
            BY <1>0, <1>8, <2>1, <2>3, ReadsStayBeside DEF RemoveValue, Idle
        <2> QED BY <1>8, <2>2, <2>3 DEF RemoveValue
    <1>9. CASE LookForSidecar(t)
        <2>1. IsChange(task[t]) /\ OwedStay
            BY <1>9 DEF LookForSidecar, IsChange, OwedStay
        <2> DEFINE kind == IF HasSidecar(task[t].key) THEN "removeSidecar" ELSE "touch"
        <2>2. Go(t, [task[t] EXCEPT !.kind = kind]) /\ kind \in ChangeKinds /\ ~IsSet([kind |-> kind])
            BY <1>9 DEF LookForSidecar
        <2> QED BY <1>0, <1>9, <2>1, <2>2, ReadsStayNext DEF LookForSidecar
    <1>10. CASE RemoveSidecar(t)
        <2>1. IsChange(task[t])
            BY <1>10 DEF RemoveSidecar, IsChange
        <2>2. OwedStay /\ stamp <= stamp'
            BY <1>10, <2>1, ChangedNotOwed DEF RemoveSidecar, LoseSidecar, OwedStay, KeptInv, TypeInv, TypeOK
        <2>3. task'[t].kind \in {"touch", "idle"}
            BY <1>10, <2>1, ChangedNotOwed DEF RemoveSidecar, LoseSidecar, Idle, Changes
        <2>4. ASSUME NEW u \in Tasks \ {t}
              PROVE  /\ IsRead(task'[u]) => task'[u] = task[u]
                     /\ IsSet(task'[u]) => task'[u] = task[u]
            <3>1. task'[u] = NoteRemoved(task[u], {task[t].key})
                BY <1>10 DEF RemoveSidecar, LoseSidecar
            <3> QED BY <3>1, NotingLeaves DEF KeptInv, TypeInv, TypeOK
        <2>5. ~IsRead(task'[t]) /\ ~IsSet(task'[t])
            BY <2>3
        <2> HIDE DEF IsRead, IsSet
        <2> QED BY <1>0, <2>2, <2>4, <2>5, ReadsStay
    <1>11. CASE DeleteDone(t)
        <2>1. OwedStay
            BY <1>11 DEF DeleteDone, OwedStay
        <2> QED BY <1>0, <1>11, <2>1, ReadsStayBeside DEF DeleteDone, Idle
    <1> QED BY <1>1, <1>2, <1>3, <1>4, <1>5, <1>6, <1>7, <1>8, <1>9, <1>10, <1>11 DEF Changing

\* A read begins: it expects what its key is owed now.
LEMMA ReadKeepsReads ==
    ASSUME KeptInv, ReadInv, NEW t \in Tasks, ReadValue(t)
    PROVE  ReadInv'
    <1>1. PICK k \in Keys :
              Go(t, [kind |-> "find", key |-> k, expect |-> kept[k], record |-> Absent, bytes |-> Absent])
        BY DEF ReadValue
    <1>2. /\ task'[t] = [kind |-> "find", key |-> k, expect |-> kept[k], record |-> Absent, bytes |-> Absent]
          /\ \A u \in Tasks \ {t} : task'[u] = task[u]
        BY <1>1 DEF Go, KeptInv, TypeInv, TypeOK
    <1>3. task'[t].kind = "find" /\ task'[t].expect = kept[k]
        BY <1>2
    <1>4. UNCHANGED <<sidecars, kept, stamp>>
        BY DEF ReadValue
    <1>5. \A u \in Tasks : IsSet(task'[u]) => u # t /\ task'[u] = task[u]
        BY <1>2, <1>3 DEF IsSet
    <1>6. \A u \in Tasks : Expecting(task'[u]) =>
              \/ u # t /\ task'[u] = task[u] /\ Expecting(task[u])
              \/ u = t /\ task'[u].expect = kept[k] /\ kept[k] # None
        BY <1>2, <1>3 DEF Expecting
    <1>7. StampsFresh'
        <2>1. \A u \in Tasks : Expecting(task'[u]) => task'[u].expect <= stamp
            BY <1>6 DEF ReadInv, StampsFresh
        <2>2. ASSUME NEW s \in Tasks, IsSet(task'[s])
              PROVE  /\ task'[s].of <= stamp
                     /\ \A j \in Keys : kept[j] # task'[s].of
                     /\ \A u \in Tasks : Expecting(task'[u]) => task'[u].expect # task'[s].of
                     /\ \A u \in Tasks \ {s} : IsSet(task'[u]) => task'[u].of # task'[s].of
            BY <1>5, <1>6, <2>2 DEF ReadInv, StampsFresh
        <2> QED BY <1>4, <2>1, <2>2 DEF StampsFresh, ReadInv, Expecting, IsRead, IsSet
    <1>8. ReadSound'
        <2> SUFFICES ASSUME NEW u \in Tasks, Expecting(task'[u]), kept'[task'[u].key] = task'[u].expect
                     PROVE  /\ task'[u].kind # "find" => task'[u].record = sidecars'[task'[u].key]
                            /\ task'[u].kind = "got" => task'[u].bytes = task'[u].expect
            BY DEF ReadSound, Expecting, IsRead
        <2> QED BY <1>3, <1>4, <1>6 DEF ReadInv, ReadSound
    <1> QED BY <1>7, <1>8 DEF ReadInv

\* A read goes on, and finds what its key is owed, if that is what it expects.
LEMMA PartKeepsReads ==
    ASSUME KeptInv, ReadInv, NEW t \in Tasks, IsRead(task[t]), NEW call, Go(t, call),
           IsRead(call), call.key = task[t].key, call.expect = task[t].expect,
           Expecting(call) /\ kept[call.key] = call.expect =>
               /\ call.kind # "find" => call.record = sidecars[call.key]
               /\ call.kind = "got" => call.bytes = call.expect,
           UNCHANGED <<sidecars, kept, stamp>>
    PROVE  ReadInv'
    <1>1. task'[t] = call /\ \A u \in Tasks \ {t} : task'[u] = task[u]
        BY DEF Go, KeptInv, TypeInv, TypeOK
    <1>2. IsRead(task[t])
        OBVIOUS
    <1>3. \A u \in Tasks : IsSet(task'[u]) => u # t /\ task'[u] = task[u]
        BY <1>1 DEF IsSet, IsRead
    <1>4. \A u \in Tasks : Expecting(task'[u]) => Expecting(task[u]) /\ task'[u].expect = task[u].expect
        BY <1>1, <1>2 DEF Expecting
    <1>5. StampsFresh'
        <2>1. \A u \in Tasks : Expecting(task'[u]) => task'[u].expect <= stamp
            BY <1>4 DEF ReadInv, StampsFresh
        <2>2. ASSUME NEW s \in Tasks, IsSet(task'[s])
              PROVE  /\ task'[s].of <= stamp
                     /\ \A j \in Keys : kept[j] # task'[s].of
                     /\ \A u \in Tasks : Expecting(task'[u]) => task'[u].expect # task'[s].of
                     /\ \A u \in Tasks \ {s} : IsSet(task'[u]) => task'[u].of # task'[s].of
            BY <1>3, <1>4, <2>2 DEF ReadInv, StampsFresh
        <2> QED BY <2>1, <2>2 DEF StampsFresh, ReadInv, Expecting, IsRead, IsSet
    <1>6. ReadSound'
        <2> SUFFICES ASSUME NEW u \in Tasks, Expecting(task'[u]), kept[task'[u].key] = task'[u].expect
                     PROVE  /\ task'[u].kind # "find" => task'[u].record = sidecars[task'[u].key]
                            /\ task'[u].kind = "got" => task'[u].bytes = task'[u].expect
            BY DEF ReadSound, Expecting, IsRead
        <2>1. CASE u = t
            BY <1>1, <2>1
        <2>2. CASE u # t
            BY <1>1, <2>2 DEF ReadInv, ReadSound
        <2> QED BY <2>1, <2>2
    <1> QED BY <1>5, <1>6 DEF ReadInv

LEMMA ReadingKeepsReads ==
    ASSUME KeptInv, TypeInv', ReadInv, NEW t \in Tasks, Reading(t)
    PROVE  ReadInv'
    <1>0. TypeInv
        BY DEF KeptInv
    <1>1. CASE ReadValue(t)
        BY <1>1, ReadKeepsReads
    <1>2. CASE FindRecord(t)
        <2>1. task[t] \in Reads /\ task[t].kind = "find"
            BY <1>0, <1>2, CallType DEF FindRecord, TypeInv
        <2> DEFINE call == [task[t] EXCEPT !.record = sidecars[task[t].key],
                                           !.kind = IF HasSidecar(task[t].key) THEN "stat" ELSE "got"]
        <2>2. /\ call.key = task[t].key /\ call.expect = task[t].expect /\ call.record = sidecars[task[t].key]
              /\ call.kind = IF HasSidecar(task[t].key) THEN "stat" ELSE "got"
            BY <2>1 DEF Reads
        <2>3. task[t].key \in Keys /\ Go(t, call)
            BY <1>2, <2>1 DEF FindRecord, Reads
        <2> HIDE DEF call
        <2>4. Expecting(call) /\ kept[call.key] = call.expect => call.kind = "stat"
            BY <2>2, <2>3 DEF Expecting, KeptInv, Undisturbed, AcknowledgedKept
        <2>5. IsRead(task[t]) /\ IsRead(call)
            BY <2>1, <2>2 DEF IsRead
        <2> QED BY <1>2, <2>2, <2>3, <2>4, <2>5, PartKeepsReads DEF FindRecord
    <1>3. CASE StatValue(t)
        <2>1. task[t] \in Reads /\ task[t].kind = "stat"
            BY <1>0, <1>3, CallType DEF StatValue, TypeInv
        <2> DEFINE call == [task[t] EXCEPT !.kind = IF HasFile(task[t].record.path) THEN "bytes" ELSE "got"]
        <2>2. /\ call.key = task[t].key /\ call.expect = task[t].expect /\ call.record = task[t].record
              /\ call.kind = IF HasFile(task[t].record.path) THEN "bytes" ELSE "got"
            BY <2>1 DEF Reads
        <2>3. task[t].key \in Keys /\ Go(t, call)
            BY <1>3, <2>1 DEF StatValue, Reads
        <2> HIDE DEF call
        <2>4. IsRead(task[t]) /\ IsRead(call)
            BY <2>1, <2>2 DEF IsRead
        <2>5. ASSUME Expecting(call), kept[call.key] = call.expect
              PROVE  call.record = sidecars[call.key] /\ call.kind = "bytes"
            <3>1. Expecting(task[t]) /\ kept[task[t].key] = task[t].expect
                BY <2>2, <2>4, <2>5 DEF Expecting
            <3>2. task[t].record = sidecars[task[t].key]
                BY <2>1, <3>1 DEF ReadInv, ReadSound
            <3>3. values[sidecars[task[t].key].path] = kept[task[t].key] /\ kept[task[t].key] # None
                BY <2>3, <3>1 DEF KeptInv, Undisturbed, AcknowledgedKept, Expecting
            <3>4. kept[task[t].key] # Absent
                BY <2>3, <3>3, SentinelAssumption DEF KeptInv, TypeInv, TypeOK
            <3> QED BY <2>2, <3>2, <3>3, <3>4 DEF HasFile
        <2> QED BY <1>3, <2>2, <2>3, <2>4, <2>5, PartKeepsReads DEF StatValue
    <1>4. CASE ReadBytes(t)
        <2>1. task[t] \in Reads /\ task[t].kind = "bytes"
            BY <1>0, <1>4, CallType DEF ReadBytes, TypeInv
        <2> DEFINE call == [task[t] EXCEPT !.bytes = values[task[t].record.path], !.kind = "got"]
        <2>2. /\ call.key = task[t].key /\ call.expect = task[t].expect /\ call.record = task[t].record
              /\ call.kind = "got" /\ call.bytes = values[task[t].record.path]
            BY <2>1 DEF Reads
        <2>3. task[t].key \in Keys /\ Go(t, call)
            BY <1>4, <2>1 DEF ReadBytes, Reads
        <2> HIDE DEF call
        <2>4. IsRead(task[t]) /\ IsRead(call)
            BY <2>1, <2>2 DEF IsRead
        <2>5. ASSUME Expecting(call), kept[call.key] = call.expect
              PROVE  call.record = sidecars[call.key] /\ call.bytes = call.expect
            <3>1. Expecting(task[t]) /\ kept[task[t].key] = task[t].expect
                BY <2>2, <2>4, <2>5 DEF Expecting
            <3>2. task[t].record = sidecars[task[t].key]
                BY <2>1, <3>1 DEF ReadInv, ReadSound
            <3>3. values[sidecars[task[t].key].path] = kept[task[t].key]
                BY <2>3, <3>1 DEF KeptInv, Undisturbed, AcknowledgedKept, Expecting
            <3> QED BY <2>2, <2>5, <3>2, <3>3
        <2> QED BY <1>4, <2>2, <2>3, <2>4, <2>5, PartKeepsReads DEF ReadBytes
    <1>5. CASE ListKeys(t)
        <2>1. OwedStay
            BY <1>5 DEF ListKeys, OwedStay
        <2> QED BY <1>0, <1>5, <2>1, ReadsStayBeside DEF ListKeys, IsRead, IsSet
    <1>6. ASSUME ListPage(t) \/ PageDone(t) \/ CursorLost(t) \/ \E k \in Keys : ScanKey(t, k)
          PROVE  ReadInv'
        <2>1. UNCHANGED <<sidecars, kept, stamp>>
            BY <1>6 DEF ListPage, PageDone, CursorLost, ScanKey
        <2>2. OwedStay
            BY <2>1 DEF OwedStay
        <2>3. PICK call : Go(t, call) /\ call.kind \in {"list", "scan", "listed", "failed"}
            BY <1>0, <1>6, ListingGoesOn DEF TypeInv
        <2> QED BY <1>0, <2>1, <2>2, <2>3, ReadsStayBeside DEF IsRead, IsSet
    <1> QED BY <1>1, <1>2, <1>3, <1>4, <1>5, <1>6 DEF Reading

LEMMA ClearingKeepsReads ==
    ASSUME KeptInv, TypeInv', ReadInv, NEW t \in Tasks, Clearing(t)
    PROVE  ReadInv'
    <1>0. TypeInv /\ stamp \in Nat
        BY DEF KeptInv, TypeInv, TypeOK
    <1>1. ASSUME Purge(t) \/ DropStorage(t) \/ \E k \in Keys : PurgeSidecar(t, k)
          PROVE  ReadInv'
        <2>1. UNCHANGED stamp
            BY <1>1 DEF Purge, DropStorage, PurgeSidecar
        <2>2. OwedStay
            <3>1. CASE Purge(t)
                BY <3>1 DEF Purge, OwedStay
            <3>2. CASE DropStorage(t)
                BY <3>2 DEF DropStorage, OwedStay
            <3>3. ASSUME NEW k \in Keys, PurgeSidecar(t, k)
                  PROVE  OwedStay
                <4>1. kept[k] = None /\ UNCHANGED kept
                    BY <3>3 DEF PurgeSidecar, KeptInv, Undisturbed, PurgeSpares
                <4>2. \A j \in Keys \ {k} : sidecars'[j] = sidecars[j]
                    BY <3>3 DEF PurgeSidecar, LoseSidecar, KeptInv, TypeInv, TypeOK
                <4> QED BY <4>1, <4>2 DEF OwedStay
            <3> QED BY <1>1, <3>1, <3>2, <3>3
        <2>3. ASSUME NEW u \in Tasks
              PROVE  \/ task'[u].kind \in {"idle", "clear"}
                     \/ IsChange(task[u]) /\ task'[u] = [task[u] EXCEPT !.clean = FALSE]
                     \/ \E ks : task'[u] = NoteRemoved(task[u], ks)
            <3>1. task[u].kind \notin {"list", "scan", "listed", "failed"} => NoteRemoved(task[u], {}) = task[u]
                BY DEF NoteRemoved
            <3>2. CASE Purge(t)
                <4>1. PICK keep \in Keeps :
                         task' = [v \in Tasks |->
                            IF v = t THEN [kind |-> "clear", keep |-> keep, spare |-> Spared(keep),
                                           names |-> FilesThere \ Spared(keep), records |-> SidecarsThere \ keep]
                            ELSE IF IsChange(task[v]) THEN [task[v] EXCEPT !.clean = FALSE]
                            ELSE task[v]]
                    BY <3>2 DEF Purge
                <4>2. CASE u = t
                    BY <4>1, <4>2
                <4>3. CASE u # t /\ IsChange(task[u])
                    BY <4>1, <4>3
                <4>4. CASE u # t /\ ~IsChange(task[u])
                    <5>1. task'[u] = task[u]
                        BY <4>1, <4>4
                    <5>2. NoteRemoved(task[u], {}) = task[u]
                        <6>1. CASE task[u].kind \in {"list", "scan", "listed", "failed"}
                            <7>1. task[u] \in Lists
                                BY <1>0, <6>1, CallType DEF TypeInv
                            <7> QED BY <6>1, <7>1 DEF NoteRemoved, Lists
                        <6> QED BY <3>1, <6>1
                    <5> QED BY <5>1, <5>2
                <4> QED BY <4>2, <4>3, <4>4
            <3>3. CASE DropStorage(t)
                <4>1. PICK failed \in SUBSET {v \in Tasks : task[v].kind \in {"value", "record"}} :
                         task' = [v \in Tasks |->
                             IF v = t \/ v \in failed THEN Idle
                             ELSE IF IsChange(task[v]) THEN [task[v] EXCEPT !.clean = FALSE]
                             ELSE NoteRemoved(task[v], SidecarsThere)]
                    BY <3>3 DEF DropStorage
                <4> QED BY <4>1 DEF Idle
            <3>4. ASSUME NEW k \in Keys, PurgeSidecar(t, k)
                  PROVE  task'[u].kind = "clear" \/ \E ks : task'[u] = NoteRemoved(task[u], ks)
                <4>1. CASE u = t
                    <5>1. task[t] \in Purges
                        BY <1>0, <3>4, CallType DEF PurgeSidecar, TypeInv
                    <5>2. task'[t] = [task[t] EXCEPT !.records = task[t].records \ {k}]
                        BY <3>4 DEF PurgeSidecar, LoseSidecar
                    <5> QED BY <4>1, <5>1, <5>2 DEF Purges
                <4>2. CASE u # t
                    BY <3>4, <4>2 DEF PurgeSidecar, LoseSidecar
                <4> QED BY <4>1, <4>2
            <3> QED BY <1>1, <3>2, <3>3, <3>4
        <2>4. ASSUME NEW u \in Tasks
              PROVE  /\ IsRead(task'[u]) => task'[u] = task[u]
                     /\ IsSet(task'[u]) => IsSet(task[u]) /\ task'[u].of = task[u].of
            <3>1. CASE task'[u].kind \in {"idle", "clear"}
                BY <3>1 DEF IsRead, IsSet
            <3>2. CASE IsChange(task[u]) /\ task'[u] = [task[u] EXCEPT !.clean = FALSE]
                <4>1. task[u] \in Changes
                    BY <1>0, <3>2, CallType DEF TypeInv
                <4>2. task'[u].kind = task[u].kind /\ task'[u].of = task[u].of
                    BY <3>2, <4>1 DEF Changes
                <4> QED BY <3>2, <4>2 DEF IsRead, IsSet, IsChange, ChangeKinds
            <3>3. CASE \E ks : task'[u] = NoteRemoved(task[u], ks)
                BY <1>0, <3>3, NotingLeaves DEF TypeInv, TypeOK
            <3> QED BY <2>3, <3>1, <3>2, <3>3
        <2> QED BY <1>0, <2>1, <2>2, <2>4, ReadsStay
    <1>2. CASE PurgeDone(t)
        <2>1. OwedStay
            BY <1>2 DEF PurgeDone, OwedStay
        <2> QED BY <1>0, <1>2, <2>1, ReadsStayBeside DEF PurgeDone, Idle, IsRead, IsSet
    <1>3. ASSUME NEW n \in Names, PurgeValue(t, n)
          PROVE  ReadInv'
        <2>1. OwedStay /\ task[t] \in Purges
            BY <1>0, <1>3, CallType DEF PurgeValue, OwedStay, TypeInv
        <2>2. Go(t, [task[t] EXCEPT !.names = task[t].names \ {n}])
            BY <1>3 DEF PurgeValue
        <2>3. [task[t] EXCEPT !.names = task[t].names \ {n}].kind = "clear"
            BY <2>1 DEF Purges
        <2> QED BY <1>0, <1>3, <2>1, <2>2, <2>3, ReadsStayBeside DEF PurgeValue, IsRead, IsSet
    <1>4. ASSUME NEW u \in Tasks, PurgeTemporary(t, u)
          PROVE  ReadInv'
        <2>1. OwedStay
            BY <1>4 DEF PurgeTemporary, OwedStay
        <2> QED BY <1>0, <1>4, <2>1, ReadsStayBeside DEF PurgeTemporary, Idle, IsRead, IsSet
    <1> QED BY <1>1, <1>2, <1>3, <1>4 DEF Clearing

LEMMA TaskFaultKeepsReads ==
    ASSUME KeptInv, TypeInv', ReadInv, NEW t \in Tasks, WriteFails(t) \/ RemoveFails(t)
    PROVE  ReadInv'
    <1>1. UNCHANGED <<sidecars, kept, stamp>> /\ OwedStay /\ TypeInv
        BY DEF WriteFails, RemoveFails, OwedStay, KeptInv
    <1>2. CASE task[t].kind = "unbind" /\ Go(t, [task[t] EXCEPT !.kind = "value"])
        <2>1. IsChange(task[t]) /\ IsSet(task[t])
            BY <1>2 DEF IsChange, ChangeKinds, IsSet
        <2> QED BY <1>1, <1>2, <2>1, ReadsStayNext DEF ChangeKinds
    <1>3. CASE Go(t, Idle)
        BY <1>1, <1>3, ReadsStayBeside DEF Idle, IsRead, IsSet
    <1>4. ASSUME task[t].kind = "clear", NEW x,
                 Go(t, [task[t] EXCEPT !.names = x]) \/ Go(t, [task[t] EXCEPT !.records = x])
          PROVE  ReadInv'
        <2>1. task[t] \in Purges
            BY <1>1, <1>4, CallType DEF TypeInv
        <2>2. [task[t] EXCEPT !.names = x].kind = "clear" /\ [task[t] EXCEPT !.records = x].kind = "clear"
            BY <2>1 DEF Purges
        <2> QED BY <1>1, <1>4, <2>2, ReadsStayBeside DEF IsRead, IsSet
    <1> QED BY <1>2, <1>3, <1>4 DEF WriteFails, RemoveFails

\* Where no call is under way only what the keys are owed counts.
LEMMA IdleKeepsReads ==
    ASSUME TypeInv, ReadInv, stamp' \in Nat, stamp <= stamp', UNCHANGED kept,
           \A u \in Tasks : task'[u] = Idle
    PROVE  ReadInv'
    <1>1. \A u \in Tasks : ~IsRead(task'[u]) /\ ~IsSet(task'[u])
        BY DEF IsRead, IsSet, Idle
    <1>2. \A k \in Keys : kept'[k] # None => kept'[k] <= stamp'
        BY DEF ReadInv, StampsFresh, TypeInv, TypeOK
    <1>3. StampsFresh' /\ ReadSound'
        BY <1>1, <1>2 DEF StampsFresh, ReadSound, Expecting, IsRead, IsSet
    <1> QED BY <1>3 DEF ReadInv

LEMMA StoreKeepsReads ==
    ASSUME KeptInv, TypeInv', ReadInv, Opening \/ Crash \/ OpenFails \/ \E n \in Outside : OutsideWrite(n)
    PROVE  ReadInv'
    <1>0. TypeInv /\ stamp \in Nat
        BY DEF KeptInv, TypeInv, TypeOK
    <1>1. CASE Opening
        <2>1. client.kind # "open" /\ UNCHANGED <<task, kept, stamp>>
            BY <1>1, OpeningAlone
        <2>2. \A u \in Tasks : task'[u] = Idle
            BY <1>0, <2>1 DEF TypeInv, NoStrayCall
        <2> QED BY <1>0, <2>1, <2>2, IdleKeepsReads
    <1>2. CASE Crash
        BY <1>0, <1>2, IdleKeepsReads DEF Crash
    <1>3. CASE OpenFails
        <2>1. UNCHANGED <<sidecars, task, kept, stamp>>
            BY <1>3 DEF OpenFails
        <2> QED BY <1>0, <2>1, ReadsStay DEF OwedStay
    <1>4. ASSUME NEW n \in Outside, OutsideWrite(n)
          PROVE  ReadInv'
        <2>1. UNCHANGED <<sidecars, task, kept>> /\ stamp <= stamp'
            BY <1>0, <1>4 DEF OutsideWrite
        <2> QED BY <1>0, <2>1, ReadsStay DEF OwedStay
    <1> QED BY <1>1, <1>2, <1>3, <1>4

\* A read with no change of its key or its files beside it returns the bytes and the
\* metadata of the last set_value that ended well, although it takes the sidecar, the
\* look at the file and its bytes from three moments.
THEOREM ReadsAreExact == SweepsOwnFiles => (Spec => []ReadExact)
    <1> SUFFICES ASSUME SweepsOwnFiles
                 PROVE  Spec => []ReadExact
        OBVIOUS
    <1> USE NamesAssumption, CallsAssumption, SentinelAssumption, BoundsAssumption
    <1>1. Init => ReadInv
        BY DEF Init, ReadInv, StampsFresh, ReadSound, Expecting, IsRead, IsSet, Idle
    <1>2. KeptInv /\ TypeInv' /\ ReadInv /\ [Next]_vars => ReadInv'
        <2> SUFFICES ASSUME KeptInv, TypeInv', ReadInv, [Next]_vars
                     PROVE  ReadInv'
            OBVIOUS
        <2>1. CASE UNCHANGED vars
            BY <2>1, ReadsStay DEF vars, OwedStay, KeptInv, TypeInv, TypeOK
        <2>2. ASSUME NEW t \in Tasks, Changing(t) \/ Reading(t) \/ Clearing(t) \/ WriteFails(t) \/ RemoveFails(t)
              PROVE  ReadInv'
            BY <2>2, ChangingKeepsReads, ReadingKeepsReads, ClearingKeepsReads, TaskFaultKeepsReads
        <2> QED BY <2>1, <2>2, StoreKeepsReads DEF Next
    <1>3. KeptInv /\ ReadInv => ReadExact
        <2> SUFFICES ASSUME KeptInv, ReadInv, NEW t \in Tasks, task[t].kind = "got", task[t].expect # None,
                            kept[task[t].key] = task[t].expect
                     PROVE  /\ task[t].record # Absent
                            /\ task[t].record.of = task[t].expect
                            /\ task[t].bytes = task[t].expect
            BY DEF ReadExact
        <2>1. task[t].key \in Keys
            BY CallType DEF KeptInv, TypeInv, Reads
        <2>2. task[t].record = sidecars[task[t].key] /\ task[t].bytes = task[t].expect
            BY DEF ReadInv, ReadSound, Expecting, IsRead
        <2> QED BY <2>1, <2>2 DEF KeptInv, Undisturbed, AcknowledgedKept, HasSidecar
    <1>4. KeptInv => TypeInv
        BY DEF KeptInv
    <1>5. Spec => []KeptInv
        BY RecordsKept
    <1> QED BY <1>1, <1>2, <1>3, <1>4, <1>5, PTL DEF Spec

-------------------------------------------------------------------------------
(* Listings are exact *)

IsList(call) == call.kind \in {"list", "scan", "listed", "failed"}

Increasing(s) == \A m, n \in DOMAIN s : m < n => s[m] < s[n]

\* What was listed is in order and up to the cursor, and the page in the making goes on
\* from there, with everything that is still to be read behind it.
InOrder(call) ==
    /\ Increasing(call.taken)
    /\ call.kind \in {"list", "scan"} => \A k \in ToSet(call.taken) : ~PastCursor(call, k)
    /\ call.kind = "scan" =>
          /\ Increasing(call.page)
          /\ \A k \in ToSet(call.page) : PastCursor(call, k) /\ \A j \in call.todo : k < j

\* A lasting key that was not listed is still to come: it is past the cursor, and as a
\* directory is read it is among the names to be read, on the page, or behind a full one.
NothingMissed(call) ==
    \A k \in call.lasting \ ToSet(call.taken) :
        /\ call.kind # "listed"
        /\ call.kind \in {"list", "scan"} => PastCursor(call, k)
        /\ call.kind = "scan" =>
              \/ k \in call.todo \cup ToSet(call.page)
              \/ PageFull(call) /\ \A j \in ToSet(call.page) : j < k

\* The cursor is found if its sidecar lasts.
CursorFound(call) ==
    call.cursor \in call.lasting =>
        /\ call.kind = "scan" => call.seen \/ call.cursor \in call.todo
        /\ call.kind # "failed"

ListSound(call) == InOrder(call) /\ NothingMissed(call) /\ CursorFound(call)

ListInv ==
    \A t \in Tasks : IsList(task[t]) => ListSound(task[t]) /\ task[t].lasting \subseteq SidecarsThere

\* A key that is greater than all before it keeps a sequence in order.
LEMMA AppendInOrder ==
    ASSUME NEW s \in Seq(Keys), NEW k \in Keys, Increasing(s), \A j \in ToSet(s) : j < k
    PROVE  Increasing(Append(s, k)) /\ ToSet(Append(s, k)) = ToSet(s) \cup {k}
    <1>1. /\ Len(s) \in Nat /\ DOMAIN s = 1..Len(s)
          /\ DOMAIN Append(s, k) = 1..Len(s) + 1
          /\ \A i \in 1..Len(s) : Append(s, k)[i] = s[i]
          /\ Append(s, k)[Len(s) + 1] = k
        BY AppendProperties, LenProperties
    <1>2. \A i \in DOMAIN s : s[i] < k
        BY DEF ToSet
    <1>3. Increasing(Append(s, k))
        <2> SUFFICES ASSUME NEW m \in 1..Len(s) + 1, NEW n \in 1..Len(s) + 1, m < n
                     PROVE  Append(s, k)[m] < Append(s, k)[n]
            BY <1>1 DEF Increasing
        <2>1. m \in 1..Len(s)
            BY <1>1
        <2>2. CASE n \in 1..Len(s)
            BY <1>1, <2>1, <2>2 DEF Increasing
        <2>3. CASE n = Len(s) + 1
            BY <1>1, <1>2, <2>1, <2>3
        <2> QED BY <1>1, <2>2, <2>3
    <1>4. ToSet(Append(s, k)) = ToSet(s) \cup {k}
        BY <1>1 DEF ToSet
    <1> QED BY <1>3, <1>4

LEMMA ConcatInOrder ==
    ASSUME NEW s \in Seq(Keys), NEW r \in Seq(Keys), Increasing(s), Increasing(r),
           \A j \in ToSet(s), k \in ToSet(r) : j < k
    PROVE  Increasing(s \o r) /\ ToSet(s \o r) = ToSet(s) \cup ToSet(r)
    <1>1. /\ Len(s) \in Nat /\ DOMAIN s = 1..Len(s)
          /\ Len(r) \in Nat /\ DOMAIN r = 1..Len(r)
          /\ DOMAIN (s \o r) = 1..Len(s) + Len(r)
          /\ \A i \in 1..Len(s) : (s \o r)[i] = s[i]
          /\ \A i \in 1..Len(r) : (s \o r)[Len(s) + i] = r[i]
        BY ConcatProperties, LenProperties
    <1>2. \A i \in 1..Len(s) + Len(r) :
              \/ i \in 1..Len(s) /\ (s \o r)[i] = s[i]
              \/ i - Len(s) \in 1..Len(r) /\ (s \o r)[i] = r[i - Len(s)]
        <2> SUFFICES ASSUME NEW i \in 1..Len(s) + Len(r), i \notin 1..Len(s)
                     PROVE  i - Len(s) \in 1..Len(r) /\ (s \o r)[i] = r[i - Len(s)]
            BY <1>1
        <2>1. i - Len(s) \in 1..Len(r) /\ i = Len(s) + (i - Len(s))
            BY <1>1
        <2> QED BY <1>1, <2>1
    <1>3. \A i \in DOMAIN s, j \in DOMAIN r : s[i] < r[j]
        BY DEF ToSet
    <1>4. Increasing(s \o r)
        <2> SUFFICES ASSUME NEW m \in 1..Len(s) + Len(r), NEW n \in 1..Len(s) + Len(r), m < n
                     PROVE  (s \o r)[m] < (s \o r)[n]
            BY <1>1 DEF Increasing
        <2>1. CASE n \in 1..Len(s)
            <3>1. m \in 1..Len(s)
                BY <1>1, <2>1
            <3> QED BY <1>1, <2>1, <3>1 DEF Increasing
        <2>2. CASE m \in 1..Len(s) /\ n \notin 1..Len(s)
            BY <1>1, <1>2, <1>3, <2>2
        <2>3. CASE m \notin 1..Len(s)
            <3>1. n \notin 1..Len(s)
                BY <1>1, <2>3
            <3>2. /\ m - Len(s) \in 1..Len(r) /\ (s \o r)[m] = r[m - Len(s)]
                  /\ n - Len(s) \in 1..Len(r) /\ (s \o r)[n] = r[n - Len(s)]
                BY <1>2, <2>3, <3>1
            <3>3. m - Len(s) < n - Len(s)
                BY <1>1
            <3> QED BY <1>1, <3>2, <3>3 DEF Increasing
        <2> QED BY <2>1, <2>2, <2>3
    <1>5. ToSet(s \o r) = ToSet(s) \cup ToSet(r)
        <2>1. \A x \in ToSet(s \o r) : x \in ToSet(s) \cup ToSet(r)
            BY <1>1, <1>2 DEF ToSet
        <2>2. ASSUME NEW i \in 1..Len(r)
              PROVE  r[i] \in ToSet(s \o r)
            <3>1. Len(s) + i \in 1..Len(s) + Len(r)
                BY <1>1
            <3> QED BY <1>1, <3>1 DEF ToSet
        <2>3. ASSUME NEW i \in 1..Len(s)
              PROVE  s[i] \in ToSet(s \o r)
            <3>1. i \in 1..Len(s) + Len(r)
                BY <1>1
            <3> QED BY <1>1, <3>1 DEF ToSet
        <2>4. \A x \in ToSet(s) \cup ToSet(r) : x \in ToSet(s \o r)
            <3>1. \A x \in ToSet(s) : \E i \in 1..Len(s) : x = s[i]
                BY <1>1 DEF ToSet
            <3>2. \A x \in ToSet(r) : \E i \in 1..Len(r) : x = r[i]
                BY <1>1 DEF ToSet
            <3> QED BY <2>2, <2>3, <3>1, <3>2
        <2> DEFINE A == ToSet(s \o r)
        <2> DEFINE B == ToSet(s) \cup ToSet(r)
        <2>5. A \subseteq B /\ B \subseteq A
            BY <2>1, <2>4
        <2>6. A = B
            <3> HIDE DEF A, B
            <3> QED BY <2>5
        <2> QED BY <2>6
    <1> QED BY <1>4, <1>5

\* What is shown of a full page: all its keys up to the one that becomes the cursor.
LEMMA FrontInOrder ==
    ASSUME NamesAssumption, NEW s \in Seq(Keys), Len(s) > 1, Increasing(s)
    PROVE  /\ Increasing(Front(s))
           /\ ToSet(Front(s)) \subseteq ToSet(s)
           /\ \A k \in ToSet(Front(s)) : k <= Last(Front(s))
           /\ \A k \in ToSet(s) : k <= Last(Front(s)) => k \in ToSet(Front(s))
           /\ Last(Front(s)) \in ToSet(s)
    <1>1. Len(s) \in Nat /\ DOMAIN s = 1..Len(s) /\ \A i \in 1..Len(s) : s[i] \in Keys
        BY LenProperties, ElementOfSeq
    <1>2. Front(s) = SubSeq(s, 1, Len(s) - 1)
        BY DEF Front
    <1>3. /\ Len(Front(s)) = Len(s) - 1
          /\ DOMAIN Front(s) = 1..Len(s) - 1
          /\ \A i \in 1..Len(s) - 1 : Front(s)[i] = s[i]
        BY <1>1, <1>2, SubSeqProperties
    <1>4. Last(Front(s)) = s[Len(s) - 1] /\ Len(s) - 1 \in 1..Len(s)
        BY <1>1, <1>3 DEF Last
    <1>5. \A i \in 1..Len(s) : s[i] \in Nat
        BY <1>1 DEF NamesAssumption
    <1>6. Increasing(Front(s))
        BY <1>1, <1>3 DEF Increasing
    <1>7. ToSet(Front(s)) \subseteq ToSet(s) /\ Last(Front(s)) \in ToSet(s)
        <2>1. \A i \in 1..Len(s) - 1 : i \in 1..Len(s)
            BY <1>1
        <2>2. \A x \in ToSet(Front(s)) : \E i \in 1..Len(s) - 1 : x = s[i]
            BY <1>3 DEF ToSet
        <2>3. \A i \in 1..Len(s) : s[i] \in ToSet(s)
            BY <1>1 DEF ToSet
        <2> QED BY <1>4, <2>1, <2>2, <2>3
    <1>8. ASSUME NEW i \in 1..Len(s) - 1
          PROVE  s[i] <= s[Len(s) - 1]
        <2>1. i \in 1..Len(s) /\ Len(s) - 1 \in 1..Len(s)
            BY <1>1
        <2>2. CASE i = Len(s) - 1
            BY <1>5, <2>1, <2>2
        <2>3. CASE i < Len(s) - 1
            <3>1. s[i] < s[Len(s) - 1]
                BY <1>1, <2>1, <2>3 DEF Increasing
            <3> QED BY <1>5, <2>1, <3>1
        <2> QED BY <1>1, <2>2, <2>3
    <1>9. \A k \in ToSet(Front(s)) : k <= Last(Front(s))
        BY <1>3, <1>4, <1>8 DEF ToSet
    <1>10. ASSUME NEW i \in 1..Len(s), s[i] <= s[Len(s) - 1]
           PROVE  s[i] \in ToSet(Front(s))
        <2>1. i # Len(s)
            BY <1>1, <1>4, <1>5, <1>10 DEF Increasing
        <2>2. i \in 1..Len(s) - 1
            BY <1>1, <2>1
        <2> QED BY <1>3, <2>2 DEF ToSet
    <1>11. \A k \in ToSet(s) : k <= Last(Front(s)) => k \in ToSet(Front(s))
        BY <1>1, <1>4, <1>10 DEF ToSet
    <1> QED BY <1>6, <1>7, <1>9, <1>11

\* A listing that takes note of lost sidecars has less to show.
LEMMA NotedSound ==
    ASSUME NEW call \in Lists, NEW ks, ListSound(call)
    PROVE  /\ NoteRemoved(call, ks) \in Lists
           /\ ListSound(NoteRemoved(call, ks))
           /\ NoteRemoved(call, ks).lasting = call.lasting \ ks
    <1> DEFINE new == [call EXCEPT !.lasting = call.lasting \ ks]
    <1>1. NoteRemoved(call, ks) = new
        BY DEF NoteRemoved, Lists
    <1>2. /\ new.kind = call.kind /\ new.cursor = call.cursor /\ new.todo = call.todo /\ new.page = call.page
          /\ new.seen = call.seen /\ new.taken = call.taken /\ new.lasting = call.lasting \ ks
          /\ new \in Lists
        BY DEF Lists
    <1> HIDE DEF new
    <1>3. ListSound(new)
        <2>1. InOrder(new)
            BY <1>2 DEF ListSound, InOrder, PastCursor
        <2>2. NothingMissed(new)
            BY <1>2 DEF ListSound, NothingMissed, PastCursor, PageFull
        <2>3. CursorFound(new)
            BY <1>2 DEF ListSound, CursorFound
        <2> QED BY <2>1, <2>2, <2>3 DEF ListSound
    <1> QED BY <1>1, <1>2, <1>3

\* A step in which listings only take note of the sidecars that are lost.
LEMMA ListsStay ==
    ASSUME TypeOK, ListInv, NEW ks, \A k \in SidecarsThere \ ks : sidecars'[k] # Absent,
           \A u \in Tasks : IsList(task'[u]) =>
               \/ task'[u] = task[u] /\ ks = {}
               \/ task'[u] = NoteRemoved(task[u], ks)
    PROVE  ListInv'
    <1> SUFFICES ASSUME NEW u \in Tasks, IsList(task'[u])
                 PROVE  ListSound(task'[u]) /\ \A k \in task'[u].lasting : k \in Keys /\ sidecars'[k] # Absent
        BY DEF ListInv, SidecarsThere, HasSidecar, IsList
    <1>1. IsList(task[u])
        BY NoteOnlyLists DEF IsList, TypeOK
    <1>2. task[u] \in Lists /\ ListSound(task[u]) /\ task[u].lasting \subseteq SidecarsThere
        BY <1>1, CallType DEF IsList, ListInv
    <1>3. SidecarsThere \subseteq Keys
        BY DEF SidecarsThere
    <1>4. CASE task'[u] = task[u] /\ ks = {}
        BY <1>2, <1>3, <1>4
    <1>5. CASE task'[u] = NoteRemoved(task[u], ks)
        BY <1>2, <1>3, <1>5, NotedSound
    <1> QED BY <1>4, <1>5

\* The same for a step of one call that is no listing.
LEMMA ListsStayBeside ==
    ASSUME TypeOK, ListInv, \A k \in SidecarsThere : sidecars'[k] # Absent,
           NEW t \in Tasks, NEW call, Go(t, call), ~IsList(call)
    PROVE  ListInv'
    <1>1. task'[t] = call /\ \A u \in Tasks \ {t} : task'[u] = task[u]
        BY DEF Go, TypeOK
    <1>2. \A u \in Tasks : IsList(task'[u]) => task'[u] = task[u]
        BY <1>1
    <1>3. \A k \in SidecarsThere \ {} : sidecars'[k] # Absent
        OBVIOUS
    <1> QED BY <1>2, <1>3, ListsStay

\* The same for a step of one listing.
LEMMA ListGoesOn ==
    ASSUME TypeOK, ListInv, NEW t \in Tasks, NEW call, Go(t, call), UNCHANGED sidecars,
           ListSound(call), call.lasting \subseteq SidecarsThere
    PROVE  ListInv'
    <1>1. task'[t] = call /\ \A u \in Tasks \ {t} : task'[u] = task[u]
        BY DEF Go, TypeOK
    <1> SUFFICES ASSUME NEW u \in Tasks, IsList(task'[u])
                 PROVE  ListSound(task'[u]) /\ task'[u].lasting \subseteq SidecarsThere
        BY DEF ListInv, SidecarsThere, HasSidecar, IsList
    <1>2. CASE u = t
        BY <1>1, <1>2
    <1>3. CASE u # t
        BY <1>1, <1>3 DEF ListInv
    <1> QED BY <1>2, <1>3

\* A page begins: all sidecars there are to be read.
LEMMA ListPageSound ==
    ASSUME TypeOK, ListInv, NEW t \in Tasks, ListPage(t)
    PROVE  ListInv'
    <1> DEFINE call == task[t]
    <1> DEFINE new == [call EXCEPT !.kind = "scan", !.todo = SidecarsThere, !.page = << >>, !.seen = FALSE]
    <1>1. call \in Lists /\ call.kind = "list"
        BY CallType DEF ListPage
    <1>2. ListSound(call) /\ call.lasting \subseteq SidecarsThere
        BY <1>1 DEF ListInv, IsList
    <1>3. Go(t, new) /\ UNCHANGED sidecars
        BY DEF ListPage
    <1>4. /\ new.kind = "scan" /\ new.cursor = call.cursor /\ new.todo = SidecarsThere /\ new.page = << >>
          /\ new.seen = FALSE /\ new.taken = call.taken /\ new.lasting = call.lasting
        BY <1>1 DEF Lists
    <1> HIDE DEF call, new
    <1>5. ToSet(<< >>) = {} /\ Increasing(<< >>)
        BY DEF ToSet, Increasing
    <1>6. InOrder(new)
        BY <1>1, <1>2, <1>4, <1>5 DEF ListSound, InOrder, PastCursor
    <1>7. NothingMissed(new)
        BY <1>1, <1>2, <1>4 DEF ListSound, NothingMissed, PastCursor
    <1>8. CursorFound(new)
        BY <1>1, <1>2, <1>4 DEF ListSound, CursorFound
    <1> QED BY <1>2, <1>3, <1>4, <1>6, <1>7, <1>8, ListGoesOn DEF ListSound

\* A sidecar is read, the one with the least key of those to be read.
LEMMA ScanKeySound ==
    ASSUME TypeOK, NamesAssumption, ListInv, NEW t \in Tasks, NEW k \in Keys, ScanKey(t, k)
    PROVE  ListInv'
    <1> DEFINE call == task[t]
    <1> DEFINE shown == HasSidecar(k) /\ PastCursor(call, k) /\ ~PageFull(call)
    <1> DEFINE new == [call EXCEPT !.todo = call.todo \ {k},
                                   !.seen = call.seen \/ (HasSidecar(k) /\ k = call.cursor),
                                   !.page = IF shown THEN Append(call.page, k) ELSE call.page,
                                   !.lasting = IF shown THEN call.lasting \cup {k} ELSE call.lasting]
    <1>1. call \in Lists /\ call.kind = "scan" /\ k \in call.todo /\ \A j \in call.todo : k <= j
        BY CallType DEF ScanKey
    <1>2. ListSound(call) /\ call.lasting \subseteq SidecarsThere
        BY <1>1 DEF ListInv, IsList
    <1>3. Go(t, new) /\ UNCHANGED sidecars
        BY DEF ScanKey
    <1> HIDE DEF shown
    <1>4. /\ new.kind = "scan" /\ new.cursor = call.cursor /\ new.todo = call.todo \ {k}
          /\ new.page = IF shown THEN Append(call.page, k) ELSE call.page
          /\ new.seen <=> call.seen \/ (HasSidecar(k) /\ k = call.cursor)
          /\ new.taken = call.taken
          /\ new.lasting = IF shown THEN call.lasting \cup {k} ELSE call.lasting
        BY <1>1 DEF Lists
    <1>5. call.todo \subseteq Keys /\ call.page \in Seq(Keys) /\ call.lasting \subseteq Keys /\ Keys \subseteq Nat
        BY <1>1 DEF Lists, NamesAssumption
    <1> HIDE DEF call, new
    <1>6. /\ Increasing(call.page) /\ Increasing(call.taken)
          /\ \A j \in ToSet(call.page) : PastCursor(call, j) /\ \A i \in call.todo : j < i
          /\ \A j \in ToSet(call.taken) : ~PastCursor(call, j)
        BY <1>1, <1>2 DEF ListSound, InOrder
    <1>7. \A j \in call.todo \ {k} : k < j
        BY <1>1, <1>5
    <1>8. CASE shown
        <2>1. Increasing(new.page) /\ ToSet(new.page) = ToSet(call.page) \cup {k}
            BY <1>1, <1>4, <1>5, <1>6, <1>8, AppendInOrder
        <2>2. InOrder(new)
            BY <1>1, <1>4, <1>6, <1>7, <1>8, <2>1 DEF InOrder, PastCursor, shown
        <2>3. NothingMissed(new)
            <3> SUFFICES ASSUME NEW j \in new.lasting \ ToSet(new.taken)
                         PROVE  PastCursor(new, j) /\ j \in new.todo \cup ToSet(new.page)
                BY <1>4 DEF NothingMissed
            <3>1. CASE j = k
                BY <1>4, <1>8, <2>1, <3>1 DEF PastCursor, shown
            <3>2. CASE j # k
                BY <1>1, <1>2, <1>4, <1>8, <2>1, <3>2 DEF ListSound, NothingMissed, PastCursor, shown
            <3> QED BY <3>1, <3>2
        <2>4. CursorFound(new)
            BY <1>1, <1>2, <1>4, <1>8 DEF ListSound, CursorFound, shown
        <2>5. new.lasting \subseteq SidecarsThere
            BY <1>2, <1>4, <1>8 DEF shown, SidecarsThere
        <2> QED BY <1>3, <2>2, <2>3, <2>4, <2>5, ListGoesOn DEF ListSound
    <1>9. CASE ~shown
        <2>1. InOrder(new)
            BY <1>4, <1>6, <1>9 DEF InOrder, PastCursor
        <2>2. NothingMissed(new)
            <3> SUFFICES ASSUME NEW j \in call.lasting \ ToSet(call.taken)
                         PROVE  /\ PastCursor(call, j)
                                /\ \/ j \in (call.todo \ {k}) \cup ToSet(call.page)
                                   \/ PageFull(call) /\ \A i \in ToSet(call.page) : i < j
                BY <1>4, <1>9 DEF NothingMissed, PastCursor, PageFull
            <3>1. /\ PastCursor(call, j)
                  /\ \/ j \in call.todo \cup ToSet(call.page)
                     \/ PageFull(call) /\ \A i \in ToSet(call.page) : i < j
                BY <1>1, <1>2 DEF ListSound, NothingMissed
            <3>2. CASE j = k
                <4>1. HasSidecar(k)
                    BY <1>2, <3>2 DEF SidecarsThere
                <4>2. PageFull(call)
                    BY <1>9, <3>1, <3>2, <4>1 DEF shown
                <4> QED BY <1>1, <1>6, <3>1, <3>2, <4>2
            <3> QED BY <3>1, <3>2
        <2>3. CursorFound(new)
            <3> SUFFICES ASSUME call.cursor \in call.lasting
                         PROVE  new.seen \/ call.cursor \in call.todo \ {k}
                BY <1>4, <1>9 DEF CursorFound
            <3>1. call.seen \/ call.cursor \in call.todo
                BY <1>1, <1>2 DEF ListSound, CursorFound
            <3>2. HasSidecar(call.cursor)
                BY <1>2 DEF SidecarsThere
            <3> QED BY <1>4, <3>1, <3>2
        <2> QED BY <1>2, <1>3, <1>4, <1>9, <2>1, <2>2, <2>3, ListGoesOn DEF ListSound
    <1> QED BY <1>8, <1>9

\* A page is handed out.
LEMMA PageDoneSound ==
    ASSUME TypeOK, NamesAssumption, CallsAssumption, ListInv, NEW t \in Tasks, PageDone(t)
    PROVE  ListInv'
    <1> DEFINE call == task[t]
    <1> DEFINE shown == IF PageFull(call) THEN Front(call.page) ELSE call.page
    <1> DEFINE new == [call EXCEPT !.kind = IF PageFull(call) THEN "list" ELSE "listed",
                                   !.taken = call.taken \o shown,
                                   !.cursor = IF PageFull(call) THEN Last(shown) ELSE call.cursor]
    <1>1. call \in Lists /\ call.kind = "scan" /\ Scanned(call)
        BY CallType DEF PageDone
    <1>2. ListSound(call) /\ call.lasting \subseteq SidecarsThere
        BY <1>1 DEF ListInv, IsList
    <1>3. Go(t, new) /\ UNCHANGED sidecars
        BY DEF PageDone
    <1> HIDE DEF shown
    <1>4. /\ new.kind = IF PageFull(call) THEN "list" ELSE "listed"
          /\ new.cursor = IF PageFull(call) THEN Last(shown) ELSE call.cursor
          /\ new.taken = call.taken \o shown /\ new.lasting = call.lasting
        BY <1>1 DEF Lists
    <1>5. call.taken \in Seq(Keys) /\ call.page \in Seq(Keys) /\ Keys \subseteq Nat /\ None \notin Nat
        BY <1>1, SentinelAssumption DEF Lists, NamesAssumption
    <1>6. call.cursor \in Nat \cup {None}
        BY <1>1, <1>5 DEF Lists
    <1> HIDE DEF call, new
    <1>7. /\ Increasing(call.page) /\ Increasing(call.taken)
          /\ \A j \in ToSet(call.page) : PastCursor(call, j)
          /\ \A j \in ToSet(call.taken) : ~PastCursor(call, j)
        BY <1>1, <1>2 DEF ListSound, InOrder
    <1>8. ASSUME NEW s \in Seq(Keys)
          PROVE  ToSet(s) \subseteq Keys
        BY <1>8, ElementOfSeq, LenProperties DEF ToSet
    <1>9. CASE PageFull(call)
        <2>1. Len(call.page) > 1
            BY <1>5, <1>9, LenProperties DEF PageFull, CallsAssumption
        <2>2. /\ Increasing(shown) /\ ToSet(shown) \subseteq ToSet(call.page)
              /\ \A j \in ToSet(shown) : j <= Last(shown)
              /\ \A j \in ToSet(call.page) : j <= Last(shown) => j \in ToSet(shown)
              /\ Last(shown) \in ToSet(call.page)
            BY <1>5, <1>7, <1>9, <2>1, FrontInOrder DEF shown
        <2>3. shown \in Seq(Keys) /\ Last(shown) \in Nat
            BY <1>5, <1>9, <2>1, FrontOfPage DEF shown
        <2>4. PastCursor(call, Last(shown))
            BY <1>7, <2>2
        <2>5. \A i \in ToSet(call.taken), j \in ToSet(shown) : i < j
            BY <1>5, <1>6, <1>7, <1>8, <2>2, <2>3 DEF PastCursor
        <2>6. Increasing(new.taken) /\ ToSet(new.taken) = ToSet(call.taken) \cup ToSet(shown)
            BY <1>4, <1>5, <1>7, <2>2, <2>3, <2>5, ConcatInOrder
        <2>7. \A j \in Keys : PastCursor(new, j) <=> j > Last(shown)
            BY <1>4, <1>5, <1>9, <2>3 DEF PastCursor
        <2>8. \A j \in ToSet(call.taken) : j <= Last(shown)
            BY <1>5, <1>6, <1>7, <1>8, <2>3, <2>4 DEF PastCursor
        <2>9. InOrder(new)
            <3>1. \A j \in ToSet(new.taken) : ~PastCursor(new, j)
                BY <1>5, <1>8, <2>2, <2>3, <2>6, <2>7, <2>8
            <3> QED BY <1>4, <1>9, <2>6, <3>1 DEF InOrder
        <2>10. NothingMissed(new)
            <3> SUFFICES ASSUME NEW j \in call.lasting, j \notin ToSet(call.taken), j \notin ToSet(shown)
                         PROVE  j > Last(shown)
                <4>1. call.lasting \subseteq Keys
                    BY <1>2 DEF SidecarsThere
                <4> QED BY <1>4, <1>9, <2>6, <2>7, <4>1 DEF NothingMissed
            <3>1. j \in Nat
                BY <1>2, <1>5 DEF SidecarsThere
            <3>2. CASE j \in call.todo
                <4>1. Last(shown) < j
                    BY <1>1, <1>2, <2>2, <3>2 DEF ListSound, InOrder
                <4> QED BY <2>3, <3>1, <4>1
            <3>3. CASE j \in ToSet(call.page)
                BY <2>2, <2>3, <3>1, <3>3
            <3>4. CASE \A i \in ToSet(call.page) : i < j
                BY <2>2, <2>3, <3>1, <3>4
            <3> QED BY <1>1, <1>2, <3>2, <3>3, <3>4 DEF ListSound, NothingMissed
        <2>11. CursorFound(new)
            BY <1>4, <1>9 DEF CursorFound
        <2> QED BY <1>2, <1>3, <1>4, <2>9, <2>10, <2>11, ListGoesOn DEF ListSound
    <1>10. CASE ~PageFull(call)
        <2>1. shown = call.page /\ call.todo = {}
            BY <1>1, <1>10 DEF shown, Scanned
        <2>2. \A i \in ToSet(call.taken), j \in ToSet(shown) : i < j
            BY <1>5, <1>6, <1>7, <1>8, <2>1 DEF PastCursor
        <2>3. Increasing(new.taken) /\ ToSet(new.taken) = ToSet(call.taken) \cup ToSet(shown)
            BY <1>4, <1>5, <1>7, <2>1, <2>2, ConcatInOrder
        <2>4. InOrder(new)
            BY <1>4, <1>10, <2>3 DEF InOrder
        <2>5. \A j \in new.lasting : j \in ToSet(new.taken)
            BY <1>1, <1>2, <1>4, <1>10, <2>1, <2>3 DEF ListSound, NothingMissed
        <2>6. NothingMissed(new) /\ CursorFound(new)
            BY <1>4, <1>10, <2>5 DEF NothingMissed, CursorFound
        <2> QED BY <1>2, <1>3, <1>4, <2>4, <2>6, ListGoesOn DEF ListSound
    <1> QED BY <1>9, <1>10

\* The cursor was not found: its sidecar did not last.
LEMMA CursorLostSound ==
    ASSUME TypeOK, ListInv, NEW t \in Tasks, CursorLost(t)
    PROVE  ListInv'
    <1> DEFINE call == task[t]
    <1> DEFINE new == [call EXCEPT !.kind = "failed"]
    <1>1. call \in Lists /\ call.kind = "scan" /\ Scanned(call) /\ call.cursor # None /\ ~call.seen
        BY CallType DEF CursorLost
    <1>2. ListSound(call) /\ call.lasting \subseteq SidecarsThere
        BY <1>1 DEF ListInv, IsList
    <1>3. Go(t, new) /\ UNCHANGED sidecars
        BY DEF CursorLost
    <1>4. /\ new.kind = "failed" /\ new.cursor = call.cursor /\ new.taken = call.taken
          /\ new.lasting = call.lasting
        BY <1>1 DEF Lists
    <1> HIDE DEF call, new
    <1>5. call.cursor \notin call.lasting
        BY <1>1, <1>2 DEF ListSound, CursorFound, Scanned
    <1>6. InOrder(new) /\ NothingMissed(new) /\ CursorFound(new)
        BY <1>1, <1>2, <1>4, <1>5 DEF ListSound, InOrder, NothingMissed, CursorFound
    <1> QED BY <1>2, <1>3, <1>4, <1>6, ListGoesOn DEF ListSound

\* A change that begins leaves listings alone.
LEMMA BeginLeavesLists ==
    ASSUME TypeInv, ListInv, NEW t \in Tasks, NEW k, NEW names, NEW call, Begin(t, k, names, call),
           ~IsList(call), UNCHANGED sidecars
    PROVE  ListInv'
    <1>1. ASSUME NEW u \in Tasks, IsList(task'[u])
          PROVE  task'[u] = task[u]
        <2>1. u # t
            BY <1>1 DEF Begin
        <2>2. CASE Meets(task[u], k, names)
            <3>1. task[u] \in Changes /\ task[u].kind \in ChangeKinds
                BY <2>2, CallType DEF Meets, TypeInv, IsChange
            <3>2. task'[u] = [task[u] EXCEPT !.clean = FALSE]
                BY <2>1, <2>2 DEF Begin
            <3>3. task'[u].kind = task[u].kind
                BY <3>1, <3>2 DEF Changes
            <3> QED BY <1>1, <3>1, <3>3 DEF IsList, ChangeKinds
        <2>3. CASE ~Meets(task[u], k, names)
            BY <2>1, <2>3 DEF Begin
        <2> QED BY <2>2, <2>3
    <1>2. \A j \in SidecarsThere \ {} : sidecars'[j] # Absent
        BY DEF SidecarsThere, HasSidecar
    <1> QED BY <1>1, <1>2, ListsStay DEF TypeInv

LEMMA ChangingKeepsLists ==
    ASSUME TypeInv, SentinelAssumption, ListInv, NEW t \in Tasks, Changing(t)
    PROVE  ListInv'
    <1> USE DEF IsList
    <1>0. TypeOK
        BY DEF TypeInv
    <1>1. CASE SetValue(t)
        <2>1. PICK k, names, call : Begin(t, k, names, call) /\ call.kind \in {"value", "unbind"}
            BY <1>1 DEF SetValue
        <2> QED BY <1>1, <2>1, BeginLeavesLists DEF SetValue
    <1>2. CASE DeleteValue(t)
        <2>1. PICK k, names, call : Begin(t, k, names, call) /\ call.kind = "look"
            BY <1>2 DEF DeleteValue
        <2> QED BY <1>2, <2>1, BeginLeavesLists DEF DeleteValue
    <1>3. CASE WriteSidecar(t)
        <2>1. task[t] \in Changes
            BY <1>0, <1>3, CallType DEF WriteSidecar, IsChange, ChangeKinds
        <2>2. [of |-> task[t].of, path |-> task[t].path] # Absent
            BY <2>1 DEF Changes, SentinelAssumption
        <2>3. \A k \in SidecarsThere : sidecars'[k] # Absent
            BY <1>3, <2>2 DEF WriteSidecar, TypeInv, TypeOK, SidecarsThere, HasSidecar
        <2>4. [task[t] EXCEPT !.kind = "save"].kind = "save"
            BY <2>1 DEF Changes
        <2> QED BY <1>0, <1>3, <2>3, <2>4, ListsStayBeside DEF WriteSidecar
    <1>4. CASE RemoveSidecar(t)
        <2>1. task[t] \in Changes
            BY <1>0, <1>4, CallType DEF RemoveSidecar, IsChange, ChangeKinds
        <2>2. task'[t].kind \in {"touch", "idle"}
            BY <1>4, <2>1 DEF RemoveSidecar, LoseSidecar, Idle, Changes
        <2>3. \A u \in Tasks : IsList(task'[u]) => task'[u] = NoteRemoved(task[u], {task[t].key})
            BY <1>4, <2>2 DEF RemoveSidecar, LoseSidecar
        <2>4. \A k \in SidecarsThere \ {task[t].key} : sidecars'[k] # Absent
            BY <1>0, <1>4 DEF RemoveSidecar, LoseSidecar, TypeOK, SidecarsThere, HasSidecar
        <2> HIDE DEF IsList
        <2> QED BY <1>0, <2>3, <2>4, ListsStay
    <1>5. CASE Unbind(t) \/ WriteValue(t) \/ LookForValue(t) \/ RemoveValue(t) \/ LookForSidecar(t)
        <2>1. task[t] \in Changes /\ UNCHANGED sidecars
            BY <1>0, <1>5, CallType DEF Unbind, WriteValue, LookForValue, RemoveValue, LookForSidecar,
                   IsChange, ChangeKinds
        <2>2. \A kind : [task[t] EXCEPT !.kind = kind].kind = kind
            BY <2>1 DEF Changes
        <2>3. PICK call : Go(t, call) /\ (call = Idle \/ call.kind \in ChangeKinds)
            BY <1>5, <2>2 DEF Unbind, WriteValue, LookForValue, RemoveValue, LookForSidecar, ChangeKinds
        <2>4. ~IsList(call)
            BY <2>3 DEF Idle, ChangeKinds
        <2>5. \A k \in SidecarsThere : sidecars'[k] # Absent
            BY <2>1 DEF SidecarsThere, HasSidecar
        <2> QED BY <1>0, <2>3, <2>4, <2>5, ListsStayBeside
    <1>6. CASE SetDone(t) \/ DeleteDone(t)
        <2>1. Go(t, Idle) /\ \A k \in SidecarsThere : sidecars'[k] # Absent
            BY <1>6 DEF SetDone, DeleteDone, SidecarsThere, HasSidecar
        <2> QED BY <1>0, <2>1, ListsStayBeside DEF Idle
    <1> QED BY <1>1, <1>2, <1>3, <1>4, <1>5, <1>6 DEF Changing

LEMMA ReadingKeepsLists ==
    ASSUME TypeInv, NamesAssumption, CallsAssumption, SentinelAssumption, ListInv, NEW t \in Tasks, Reading(t)
    PROVE  ListInv'
    <1>0. TypeOK
        BY DEF TypeInv
    <1>1. CASE ReadValue(t) \/ FindRecord(t) \/ StatValue(t) \/ ReadBytes(t)
        <2>1. /\ task[t].kind \in {"find", "stat", "bytes"} => task[t] \in Reads
              /\ \A k \in SidecarsThere : sidecars'[k] # Absent
            BY <1>0, <1>1, CallType DEF ReadValue, FindRecord, StatValue, ReadBytes, SidecarsThere, HasSidecar
        <2>2. task[t] \in Reads =>
                  /\ \A b, k : [task[t] EXCEPT !.bytes = b, !.kind = k].kind = k
                  /\ \A c, k : [task[t] EXCEPT !.record = c, !.kind = k].kind = k
                  /\ \A k : [task[t] EXCEPT !.kind = k].kind = k
            BY DEF Reads
        <2>3. PICK call : Go(t, call) /\ call.kind \in {"find", "stat", "bytes", "got"}
            <3>1. CASE ReadValue(t)
                BY <3>1 DEF ReadValue
            <3>2. CASE FindRecord(t)
                <4> DEFINE call == [task[t] EXCEPT !.record = sidecars[task[t].key],
                                        !.kind = IF HasSidecar(task[t].key) THEN "stat" ELSE "got"]
                <4>1. Go(t, call) /\ task[t] \in Reads
                    BY <2>1, <3>2 DEF FindRecord
                <4>2. call.kind \in {"stat", "got"}
                    BY <4>1, <2>2
                <4> QED BY <4>1, <4>2
            <3>3. CASE StatValue(t)
                BY <2>1, <2>2, <3>3 DEF StatValue
            <3>4. CASE ReadBytes(t)
                <4> DEFINE call == [task[t] EXCEPT !.bytes = values[task[t].record.path], !.kind = "got"]
                <4>1. Go(t, call) /\ task[t] \in Reads
                    BY <2>1, <3>4 DEF ReadBytes
                <4>2. call.kind = "got"
                    BY <4>1, <2>2
                <4> QED BY <4>1, <4>2
            <3> QED BY <1>1, <3>1, <3>2, <3>3, <3>4
        <2> QED BY <1>0, <2>1, <2>3, ListsStayBeside DEF IsList
    <1>2. CASE ListKeys(t)
        <2> DEFINE call == [kind |-> "list", cursor |-> None, todo |-> {}, page |-> << >>, seen |-> FALSE,
                            taken |-> << >>, lasting |-> SidecarsThere]
        <2>1. ToSet(<< >>) = {} /\ Increasing(<< >>)
            BY DEF ToSet, Increasing
        <2>2. InOrder(call)
            BY <2>1 DEF InOrder
        <2>3. NothingMissed(call)
            BY DEF NothingMissed, PastCursor
        <2>4. CursorFound(call)
            BY DEF CursorFound
        <2>5. Go(t, call) /\ UNCHANGED sidecars /\ call.lasting = SidecarsThere
            BY <1>2 DEF ListKeys
        <2> HIDE DEF call
        <2> QED BY <1>0, <2>2, <2>3, <2>4, <2>5, ListGoesOn DEF ListSound
    <1>3. CASE ListPage(t)
        BY <1>0, <1>3, ListPageSound
    <1>4. ASSUME NEW k \in Keys, ScanKey(t, k)
          PROVE  ListInv'
        BY <1>0, <1>4, ScanKeySound
    <1>5. CASE PageDone(t)
        BY <1>0, <1>5, PageDoneSound
    <1>6. CASE CursorLost(t)
        BY <1>0, <1>6, CursorLostSound
    <1> QED BY <1>1, <1>2, <1>3, <1>4, <1>5, <1>6 DEF Reading

LEMMA ClearingKeepsLists ==
    ASSUME TypeInv, ListInv, NEW t \in Tasks, Clearing(t)
    PROVE  ListInv'
    <1>0. TypeOK
        BY DEF TypeInv
    <1>1. CASE Purge(t)
        <2>1. PICK keep :
                 task' = [u \in Tasks |->
                    IF u = t THEN [kind |-> "clear", keep |-> keep, spare |-> Spared(keep),
                                   names |-> FilesThere \ Spared(keep), records |-> SidecarsThere \ keep]
                    ELSE IF IsChange(task[u]) THEN [task[u] EXCEPT !.clean = FALSE]
                    ELSE task[u]]
            BY <1>1 DEF Purge
        <2>2. ASSUME NEW u \in Tasks, IsList(task'[u])
              PROVE  task'[u] = task[u]
            <3>1. u # t
                BY <2>1, <2>2 DEF IsList
            <3>2. ~IsChange(task[u])
                <4>1. IsChange(task[u]) => task[u] \in Changes
                    BY <1>0, CallType
                <4>2. IsChange(task[u]) => task'[u].kind = task[u].kind
                    BY <2>1, <3>1, <4>1 DEF Changes
                <4> QED BY <2>2, <4>2 DEF IsList, IsChange, ChangeKinds
            <3> QED BY <2>1, <3>1, <3>2
        <2>3. \A k \in SidecarsThere \ {} : sidecars'[k] # Absent
            BY <1>1 DEF Purge, SidecarsThere, HasSidecar
        <2> QED BY <1>0, <2>2, <2>3, ListsStay
    <1>2. CASE DropStorage(t)
        <2>1. PICK failed :
                 task' = [u \in Tasks |->
                     IF u = t \/ u \in failed THEN Idle
                     ELSE IF IsChange(task[u]) THEN [task[u] EXCEPT !.clean = FALSE]
                     ELSE NoteRemoved(task[u], SidecarsThere)]
            BY <1>2 DEF DropStorage
        <2>2. ASSUME NEW u \in Tasks, IsList(task'[u])
              PROVE  task'[u] = NoteRemoved(task[u], SidecarsThere)
            <3>1. u # t /\ u \notin failed
                BY <2>1, <2>2 DEF IsList, Idle
            <3>2. ~IsChange(task[u])
                <4>1. IsChange(task[u]) => task[u] \in Changes
                    BY <1>0, CallType
                <4>2. IsChange(task[u]) => task'[u].kind = task[u].kind
                    BY <2>1, <3>1, <4>1 DEF Changes
                <4> QED BY <2>2, <4>2 DEF IsList, IsChange, ChangeKinds
            <3> QED BY <2>1, <3>1, <3>2
        <2>3. \A k \in SidecarsThere \ SidecarsThere : sidecars'[k] # Absent
            OBVIOUS
        <2> QED BY <1>0, <2>2, <2>3, ListsStay
    <1>3. ASSUME NEW k \in Keys, PurgeSidecar(t, k)
          PROVE  ListInv'
        <2>1. task[t] \in Purges
            BY <1>0, <1>3, CallType DEF PurgeSidecar
        <2>2. task'[t].kind = "clear"
            BY <1>3, <2>1 DEF PurgeSidecar, LoseSidecar, Purges
        <2>3. \A u \in Tasks : IsList(task'[u]) => task'[u] = NoteRemoved(task[u], {k})
            BY <1>3, <2>2 DEF PurgeSidecar, LoseSidecar, IsList
        <2>4. \A j \in SidecarsThere \ {k} : sidecars'[j] # Absent
            BY <1>0, <1>3 DEF PurgeSidecar, LoseSidecar, TypeOK, SidecarsThere, HasSidecar
        <2> QED BY <1>0, <2>3, <2>4, ListsStay
    <1>4. CASE PurgeDone(t)
        BY <1>0, <1>4, ListsStayBeside DEF PurgeDone, Idle, IsList, SidecarsThere, HasSidecar
    <1>5. ASSUME NEW n \in Names, PurgeValue(t, n)
          PROVE  ListInv'
        <2>1. task[t] \in Purges /\ \A k \in SidecarsThere : sidecars'[k] # Absent
            BY <1>0, <1>5, CallType DEF PurgeValue, SidecarsThere, HasSidecar
        <2>2. Go(t, [task[t] EXCEPT !.names = task[t].names \ {n}])
            BY <1>5 DEF PurgeValue
        <2>3. [task[t] EXCEPT !.names = task[t].names \ {n}].kind = "clear"
            BY <2>1 DEF Purges
        <2> QED BY <1>0, <2>1, <2>2, <2>3, ListsStayBeside DEF IsList
    <1>6. ASSUME NEW u \in Tasks, PurgeTemporary(t, u)
          PROVE  ListInv'
        BY <1>0, <1>6, ListsStayBeside DEF PurgeTemporary, Idle, IsList, SidecarsThere, HasSidecar
    <1> QED BY <1>1, <1>2, <1>3, <1>4, <1>5, <1>6 DEF Clearing

LEMMA TaskFaultKeepsLists ==
    ASSUME TypeInv, ListInv, NEW t \in Tasks, WriteFails(t) \/ RemoveFails(t)
    PROVE  ListInv'
    <1>1. TypeOK /\ \A k \in SidecarsThere : sidecars'[k] # Absent
        BY DEF WriteFails, RemoveFails, TypeInv, SidecarsThere, HasSidecar
    <1>2. CASE task[t].kind = "unbind" /\ Go(t, [task[t] EXCEPT !.kind = "value"])
        <2>1. task[t] \in Changes
            BY <1>1, <1>2, CallType DEF IsChange, ChangeKinds
        <2>2. [task[t] EXCEPT !.kind = "value"].kind = "value"
            BY <2>1 DEF Changes
        <2> QED BY <1>1, <1>2, <2>2, ListsStayBeside DEF IsList
    <1>3. CASE Go(t, Idle)
        BY <1>1, <1>3, ListsStayBeside DEF Idle, IsList
    <1>4. ASSUME task[t].kind = "clear", NEW x,
                 Go(t, [task[t] EXCEPT !.names = x]) \/ Go(t, [task[t] EXCEPT !.records = x])
          PROVE  ListInv'
        <2>1. task[t] \in Purges
            BY <1>1, <1>4, CallType
        <2>2. [task[t] EXCEPT !.names = x].kind = "clear" /\ [task[t] EXCEPT !.records = x].kind = "clear"
            BY <2>1 DEF Purges
        <2> QED BY <1>1, <1>4, <2>2, ListsStayBeside DEF IsList
    <1> QED BY <1>2, <1>3, <1>4 DEF WriteFails, RemoveFails

LEMMA StoreKeepsLists ==
    ASSUME TypeInv, ListInv, Opening \/ Crash \/ OpenFails \/ \E n \in Outside : OutsideWrite(n)
    PROVE  ListInv'
    <1>1. CASE Opening \/ Crash
        <2>1. \A u \in Tasks : task'[u] = Idle
            BY <1>1, OpeningAlone DEF TypeInv, NoStrayCall, Crash
        <2> QED BY <2>1 DEF ListInv, IsList, Idle
    <1>2. CASE OpenFails \/ \E n \in Outside : OutsideWrite(n)
        <2>1. UNCHANGED <<sidecars, task>>
            BY <1>2 DEF OpenFails, OutsideWrite
        <2>2. \A k \in SidecarsThere \ {} : sidecars'[k] # Absent
            BY <2>1 DEF SidecarsThere, HasSidecar
        <2> QED BY <2>1, <2>2, ListsStay DEF TypeInv
    <1> QED BY <1>1, <1>2

\* An iteration lists keys in order and none twice, misses none that has a sidecar from
\* its beginning to its end, and fails for a lost cursor only if the sidecar of that key
\* was removed: for pages of any size, whatever other callers set, delete, purge and drop
\* between its steps.
THEOREM ListingsAreExact == Spec => []ListingExact
    <1> USE NamesAssumption, CallsAssumption, SentinelAssumption, BoundsAssumption
    <1>1. Init => ListInv
        BY DEF Init, ListInv, IsList, Idle
    <1>2. TypeInv /\ ListInv /\ [Next]_vars => ListInv'
        <2> SUFFICES ASSUME TypeInv, ListInv, [Next]_vars
                     PROVE  ListInv'
            OBVIOUS
        <2>1. CASE UNCHANGED vars
            BY <2>1 DEF vars, ListInv, SidecarsThere, HasSidecar, IsList
        <2>2. ASSUME NEW t \in Tasks, Changing(t) \/ Reading(t) \/ Clearing(t) \/ WriteFails(t) \/ RemoveFails(t)
              PROVE  ListInv'
            BY <2>2, ChangingKeepsLists, ReadingKeepsLists, ClearingKeepsLists, TaskFaultKeepsLists
        <2> QED BY <2>1, <2>2, StoreKeepsLists DEF Next
    <1>3. ListInv => ListingExact
        BY DEF ListInv, IsList, ListSound, InOrder, NothingMissed, CursorFound, Increasing, ListingExact
    <1>4. Spec => []TypeInv
        BY ShapeKept
    <1> QED BY <1>1, <1>2, <1>3, <1>4, PTL DEF Spec

=============================================================================
