----------------------------- MODULE DatasetProofs -----------------------------
(***************************************************************************)
(* What holds of Dataset for every number of clients, every batch and      *)
(* every bound: its state keeps its shape, and so no item is written       *)
(* outside the numbers; and, for the only client of a dataset: an item     *)
(* whose push ended well is never lost, no number is used again but for    *)
(* what a crashed or failed push left, the files and the saved item_count  *)
(* implement ItemLog, and iterations are exact while items are pushed.     *)
(***************************************************************************)
EXTENDS Dataset, SequenceTheorems, FiniteSetTheorems, TLAPS

-------------------------------------------------------------------------------
(* Type correctness *)

\* What is left of a batch still fits the numbers; without it TypeOK is not inductive.
BatchFits ==
    \A c \in Clients : op[c].kind = "push" => count[c] + Len(op[c].batch) <= MaxItem

TypeInv == TypeOK /\ BatchFits

LEMMA CallType ==
    ASSUME TypeOK, NEW c \in Clients
    PROVE  /\ op[c] \in Calls
           /\ op[c].kind \in {"closed", "create", "idle", "push", "purge", "persist"}
           /\ op[c].kind = "push" => op[c].batch \in Seq(BOOLEAN) /\ op[c].wrote \subseteq Nat
           /\ op[c].kind = "push" => op[c] \in Pushes
           /\ op[c].kind = "purge" => op[c] \in Purges
    BY DEF TypeOK, Calls, Pushes, Purges

LEMMA IterationType ==
    ASSUME TypeOK, NEW c \in Clients, reader[c].kind # "idle"
    PROVE  reader[c] \in Pages
    BY DEF TypeOK, Iterations

\* A purge or a page under way with other fields is still one.
LEMMA PurgeExcept ==
    ASSUME NEW call \in Purges, NEW todo \in SUBSET Numbers
    PROVE  [call EXCEPT !.todo = todo] \in Purges
    BY DEF Purges

LEMMA PageExcept ==
    ASSUME NEW r \in Pages, NEW kind \in {"list", "read", "touch", "done"},
           NEW todo \in SUBSET Numbers, NEW read \in Seq(Items)
    PROVE  /\ [r EXCEPT !.kind = kind] \in Pages
           /\ [r EXCEPT !.todo = todo] \in Pages
           /\ [r EXCEPT !.todo = todo, !.read = read] \in Pages
           /\ [r EXCEPT !.kind = kind, !.todo = todo, !.read = read] \in Pages
    BY DEF Pages

LEMMA PageBefore ==
    ASSUME NEW r \in Pages, NEW todo \in SUBSET Numbers, NEW before \in SUBSET Nat
    PROVE  /\ [r EXCEPT !.before = before] \in Pages
           /\ [r EXCEPT !.todo = todo, !.before = before] \in Pages
    BY DEF Pages

LEMMA PageTaken ==
    ASSUME NEW r \in Pages, NEW kind \in {"list", "read", "touch", "done"}, NEW offset \in Nat,
           NEW left \in Nat \cup {NoLimit}, NEW read \in Seq(Items), NEW taken \in Seq(Items)
    PROVE  [r EXCEPT !.kind = kind, !.offset = offset, !.left = left,
                     !.read = read, !.taken = taken] \in Pages
    BY DEF Pages

\* What an iteration finds at its start.
LEMMA StampsTyped ==
    ASSUME TypeOK
    PROVE  StampsIn(files) \subseteq Nat
    BY DEF TypeOK, StampsIn, Items

\* A call that starts or goes on without touching the count or a reader.
LEMMA CallStep ==
    ASSUME TypeInv, NEW c \in Clients, NEW call \in Calls, Go(c, call),
           call.kind = "push" => count[c] + Len(call.batch) <= MaxItem,
           files' \in [Numbers -> Items \cup {Absent}], disk' \in 0 .. MaxItem \cup {Absent},
           stamp' \in Nat, acked' \subseteq Nat, beyond' \subseteq Numbers, faults' \in Nat,
           UNCHANGED <<count, reader>>
    PROVE  TypeInv'
    BY DEF TypeInv, TypeOK, BatchFits, Go

LEMMA ReaderStep ==
    ASSUME TypeInv, NEW c \in Clients, NEW r \in Iterations, reader' = [reader EXCEPT ![c] = r],
           disk' \in 0 .. MaxItem \cup {Absent}, faults' \in Nat,
           UNCHANGED <<files, count, op, stamp, acked, beyond>>
    PROVE  TypeInv'
    BY DEF TypeInv, TypeOK, BatchFits


\* An iteration that is owed nothing any more is still one.
LEMMA OweNothingType ==
    ASSUME TypeInv, OweNothing
    PROVE  reader' \in [Clients -> Iterations]
    <1>1. ASSUME NEW c \in Clients, reader[c].kind # "idle"
          PROVE  [reader[c] EXCEPT !.before = {0}] \in Iterations
        <2>1. reader[c] \in Pages
            BY <1>1, IterationType DEF TypeInv
        <2>2. {0} \in SUBSET Nat
            OBVIOUS
        <2>3. [reader[c] EXCEPT !.before = {0}] \in Pages
            BY <2>1, <2>2, PageBefore
        <2> QED BY <2>3 DEF Iterations
    <1>2. \A c \in Clients : reader[c] \in Iterations
        BY DEF TypeInv, TypeOK
    <1> QED BY <1>1, <1>2, Zenon DEF OweNothing

-------------------------------------------------------------------------------
(* Pages *)

\* Min of two numbers is the smaller one.
LEMMA MinOfTwo ==
    ASSUME NEW m \in Nat, NEW n \in Nat
    PROVE  /\ Min({m, n}) \in {m, n}
           /\ Min({m, n}) <= m
           /\ Min({m, n}) <= n
    <1> DEFINE Least(x) == x \in {m, n} /\ \A y \in {m, n} : x =< y
    <1>1. \E x : Least(x)
        <2>1. CASE m <= n BY <2>1
        <2>2. CASE n <= m BY <2>2
        <2> QED BY <2>1, <2>2
    <1>2. Min({m, n}) = CHOOSE x : Least(x)
        BY DEF Min
    <1>3. Least(CHOOSE x : Least(x))
        <2> HIDE DEF Least
        <2> QED BY <1>1
    <1> QED BY <1>2, <1>3

\* A page is a sequence of items, no longer than the limit it was cut to.
LEMMA SliceType ==
    ASSUME NEW S, NEW s \in Seq(S), NEW offset \in Nat, NEW limit \in Nat
    PROVE  /\ Slice(s, offset, limit) \in Seq(S)
           /\ Len(Slice(s, offset, limit)) <= limit
    <1> DEFINE first == Min({offset, Len(s)})
               last == Min({offset + limit, Len(s)})
    <1>1. Len(s) \in Nat
        OBVIOUS
    <1>2. first \in Nat /\ first <= Len(s) /\ (first = offset \/ first = Len(s))
        BY <1>1, MinOfTwo
    <1>3. last \in Nat /\ last <= Len(s) /\ last <= offset + limit
        BY <1>1, MinOfTwo
    <1>4. last - first <= limit
        BY <1>1, <1>2, <1>3
    <1>5. Slice(s, offset, limit) = SubSeq(s, first + 1, last)
        BY DEF Slice
    <1> HIDE DEF first, last
    <1>6. SubSeq(s, first + 1, last) \in Seq(S)
        BY <1>1, <1>2, <1>3
    <1>7. Len(SubSeq(s, first + 1, last)) = IF first + 1 <= last THEN last - first ELSE 0
        BY <1>1, <1>2, <1>3
    <1> QED BY <1>2, <1>3, <1>4, <1>5, <1>6, <1>7

LEMMA ReverseType ==
    ASSUME NEW S, NEW s \in Seq(S)
    PROVE  Reverse(s) \in Seq(S)
    <1>1. \A i \in 1 .. Len(s) : (Len(s) - i) + 1 \in 1 .. Len(s)
        OBVIOUS
    <1> QED BY <1>1 DEF Reverse

LEMMA PageType ==
    ASSUME TypeOK, CallsAssumption, SentinelAssumption, NEW c \in Clients, reader[c].kind # "idle"
    PROVE  /\ Page(reader[c]) \in Seq(Items)
           /\ reader[c].left # NoLimit => Len(Page(reader[c])) <= reader[c].left
    <1> DEFINE r == reader[c]
    <1>1. /\ r.read \in Seq(Items)
          /\ r.offset \in Nat
          /\ r.left \in Nat \cup {NoLimit}
          /\ r.how \in Readings
        BY IterationType DEF Pages
    <1>2. r.how.size \in Nat
        BY <1>1, CallsAssumption DEF CallsAssumption
    <1>3. FetchLimit(r) \in Nat /\ (r.left # NoLimit => FetchLimit(r) <= r.left)
        BY <1>1, <1>2, SentinelAssumption DEF FetchLimit, SentinelAssumption
    <1>4. (IF r.how.desc THEN Reverse(r.read) ELSE r.read) \in Seq(Items)
        BY <1>1, ReverseType
    <1> HIDE DEF r
    <1>5. Page(r) \in Seq(Items) /\ Len(Page(r)) <= FetchLimit(r)
        BY <1>1, <1>3, <1>4, SliceType DEF Page
    <1>6. Len(Page(r)) \in Nat
        BY <1>5
    <1>7. r.left # NoLimit => r.left \in Nat
        BY <1>1
    <1> QED BY <1>3, <1>5, <1>6, <1>7 DEF r

\* What the caller has after a page: less left to want, never less than nothing.
LEMMA AfterPageType ==
    ASSUME TypeOK, CallsAssumption, SentinelAssumption, NEW c \in Clients, reader[c].kind # "idle"
    PROVE  AfterPage(reader[c]) \in Iterations
    <1> DEFINE r == reader[c]
               returned == Len(Page(r))
               left == IF r.left = NoLimit THEN NoLimit ELSE r.left - returned
               kind == IF HasMore(r, returned) THEN "list" ELSE "done"
    <1>1. r \in Pages
        BY IterationType
    <1>2. Page(r) \in Seq(Items) /\ (r.left # NoLimit => Len(Page(r)) <= r.left)
        BY PageType
    <1>3. returned \in Nat
        BY <1>2
    <1> HIDE DEF r
    <1>4. left \in Nat \cup {NoLimit}
        BY <1>1, <1>2, <1>3 DEF Pages
    <1>5. r.offset + returned \in Nat
        BY <1>1, <1>3 DEF Pages
    <1>6. r.taken \o Page(r) \in Seq(Items)
        BY <1>1, <1>2 DEF Pages
    <1>7. kind \in {"list", "done"}
        OBVIOUS
    <1>8. << >> \in Seq(Items)
        OBVIOUS
    <1>9. AfterPage(r) = [r EXCEPT !.kind = kind, !.offset = r.offset + returned, !.left = left,
                                   !.read = << >>, !.taken = r.taken \o Page(r)]
        BY DEF AfterPage
    <1> HIDE DEF returned, left, kind
    <1>10. AfterPage(r) \in Pages
        <2>1. kind \in {"list", "read", "touch", "done"}
            BY <1>7
        <2> DEFINE offset == r.offset + returned
                   taken == r.taken \o Page(r)
        <2>2. offset \in Nat /\ taken \in Seq(Items) /\ AfterPage(r) =
                  [r EXCEPT !.kind = kind, !.offset = offset, !.left = left, !.read = << >>, !.taken = taken]
            BY <1>5, <1>6, <1>9
        <2> HIDE DEF offset, taken
        <2>3. [r EXCEPT !.kind = kind, !.offset = offset, !.left = left, !.read = << >>, !.taken = taken]
                  \in Pages
            BY <1>1, <1>4, <1>8, <2>1, <2>2, PageTaken, Zenon
        <2> QED BY <2>2, <2>3, Zenon
    <1> QED BY <1>10 DEF Iterations, r

-------------------------------------------------------------------------------
(* The steps *)

LEMMA TypeInit == ASSUME BoundsAssumption PROVE Init => TypeInv
    BY DEF Init, TypeInv, TypeOK, BatchFits, Calls, Iterations, Closed, Idle, BoundsAssumption

LEMMA StartKeepsType ==
    ASSUME TypeInv, CallsAssumption, BoundsAssumption, NEW c \in Clients, Start(c)
    PROVE  TypeInv'
    <1>1. CASE Open(c)
        <2>0. 0 \in 0 .. MaxItem
            BY BoundsAssumption DEF BoundsAssumption
        <2>1. op' \in [Clients -> Calls] /\ op'[c].kind # "push"
            BY <1>1 DEF TypeInv, TypeOK, Open, Go, Calls, Idle
        <2>2. count' \in [Clients -> 0 .. MaxItem]
            BY <1>1, <2>0 DEF TypeInv, TypeOK, Open
        <2>3. \A d \in Clients : d # c => op'[d] = op[d] /\ count'[d] = count[d]
            BY <1>1 DEF TypeInv, TypeOK, Open, Go
        <2>4. BatchFits'
            BY <2>1, <2>3 DEF TypeInv, BatchFits
        <2>5. beyond' \subseteq Numbers
            BY <1>1 DEF Open, Present
        <2> QED BY <1>1, <2>1, <2>2, <2>4, <2>5 DEF TypeInv, TypeOK, Open
    <1>2. CASE Push(c)
        <2>1. PICK batch \in Batches :
                  /\ count[c] + Len(batch) <= MaxItem
                  /\ Go(c, [kind |-> "push", batch |-> batch, wrote |-> {}])
            BY <1>2 DEF Push
        <2>2. [kind |-> "push", batch |-> batch, wrote |-> {}] \in Calls
            <3>1. batch \in Seq(BOOLEAN)
                BY CallsAssumption DEF CallsAssumption
            <3> QED BY <3>1 DEF Calls, Pushes
        <2> QED BY <1>2, <2>1, <2>2, CallStep DEF Push, TypeInv, TypeOK
    <1>3. CASE Purge(c)
        <2>1. [kind |-> "purge", todo |-> Present] \in Calls
            BY DEF Calls, Purges, Present
        <2> DEFINE call == [kind |-> "purge", todo |-> Present]
        <2>2. op' = [op EXCEPT ![c] = call] /\ call.kind # "push"
            BY <1>3 DEF Purge, Go
        <2>3. op' \in [Clients -> Calls]
            BY <2>1, <2>2 DEF TypeInv, TypeOK
        <2>4. BatchFits'
            BY <1>3, <2>2 DEF Purge, TypeInv, TypeOK, BatchFits
        <2>5. reader' \in [Clients -> Iterations]
            BY <1>3, OweNothingType DEF Purge
        <2> QED BY <1>3, <2>3, <2>4, <2>5 DEF Purge, TypeInv, TypeOK
    <1>4. CASE DropStorage(c)
        <2>1. \A d \in Clients : op'[d] \in Calls /\ op'[d].kind = op[d].kind
                                 /\ (op[d].kind = "push" => op'[d].batch = op[d].batch)
            <3> SUFFICES ASSUME NEW d \in Clients
                         PROVE  op'[d] \in Calls /\ op'[d].kind = op[d].kind
                                /\ (op[d].kind = "push" => op'[d].batch = op[d].batch)
                OBVIOUS
            <3>1. CASE op[d].kind = "push"
                <4>1. op'[d] = [op[d] EXCEPT !.wrote = {}]
                    BY <1>4, <3>1 DEF DropStorage
                <4>2. op[d] \in Pushes
                    BY <3>1 DEF TypeInv, TypeOK, Calls, Purges
                <4>3. op'[d] \in Pushes /\ op'[d].batch = op[d].batch
                    BY <4>1, <4>2 DEF Pushes
                <4> QED BY <3>1, <4>3 DEF Calls, Pushes
            <3>2. CASE op[d].kind # "push"
                BY <1>4, <3>2, CallType DEF DropStorage, TypeInv
            <3> QED BY <3>1, <3>2
        <2>2. BatchFits'
            BY <1>4, <2>1 DEF TypeInv, BatchFits, DropStorage
        <2>3. reader' \in [Clients -> Iterations]
            BY <1>4, OweNothingType DEF DropStorage
        <2> QED BY <1>4, <2>1, <2>2, <2>3 DEF DropStorage, TypeInv, TypeOK
    <1>5. CASE StartReading(c)
        <2>1. PICK how \in Readings :
                  reader' = [reader EXCEPT ![c] =
                      [kind |-> "list", how |-> how, offset |-> 0, left |-> how.limit, todo |-> {},
                       read |-> << >>, taken |-> << >>, before |-> StampsIn(files)]]
            BY <1>5 DEF StartReading
        <2>2. how.limit \in Nat \cup {NoLimit}
            BY CallsAssumption DEF CallsAssumption
        <2>3. [kind |-> "list", how |-> how, offset |-> 0, left |-> how.limit, todo |-> {},
               read |-> << >>, taken |-> << >>, before |-> StampsIn(files)] \in Iterations
            BY <2>2, StampsTyped DEF Iterations, Pages, TypeInv
        <2> QED BY <1>5, <2>1, <2>3, ReaderStep DEF StartReading, TypeInv, TypeOK
    <1> QED BY <1>1, <1>2, <1>3, <1>4, <1>5 DEF Start

LEMMA WritingKeepsType ==
    ASSUME TypeInv, BoundsAssumption, NEW c \in Clients, Writing(c)
    PROVE  TypeInv'
    <1>1. CASE Create(c)
        BY <1>1, CallStep DEF Create, WriteMetadata, Idle, Calls, TypeInv, TypeOK
    <1>2. CASE PushItem(c)
        <2> DEFINE number == count[c] + 1
                   item == [stamp |-> stamp', empty |-> Head(op[c].batch)]
                   call == [op[c] EXCEPT !.batch = Tail(@), !.wrote = @ \cup {stamp'}]
        <2>1. /\ op[c].batch \in Seq(BOOLEAN)
              /\ op[c].wrote \subseteq Nat
              /\ op[c] \in Pushes
              /\ op[c].batch # << >>
            BY <1>2, CallType DEF PushItem, TypeInv
        <2>2. Len(op[c].batch) \in Nat /\ Len(op[c].batch) >= 1
            BY <2>1
        <2>3. count[c] \in Nat /\ number \in Numbers
            <3>1. count[c] \in 0 .. MaxItem /\ MaxItem \in Nat
                BY BoundsAssumption DEF TypeInv, TypeOK, BoundsAssumption
            <3>2. count[c] + Len(op[c].batch) <= MaxItem
                BY <1>2 DEF TypeInv, BatchFits, PushItem
            <3> QED BY <2>2, <3>1, <3>2 DEF Numbers
        <2>4. Head(op[c].batch) \in BOOLEAN /\ Tail(op[c].batch) \in Seq(BOOLEAN)
              /\ Len(Tail(op[c].batch)) = Len(op[c].batch) - 1
            BY <2>1, HeadTailProperties
        <2>5. stamp' \in Nat
            BY <1>2 DEF PushItem, TypeInv, TypeOK
        <2>6. item \in Items
            BY <2>4, <2>5 DEF Items
        <2>7. op' = [op EXCEPT ![c] = call] /\ call \in Calls /\ call.batch = Tail(op[c].batch)
            <3>1. op' = [op EXCEPT ![c] = call]
                BY <1>2 DEF PushItem, Go
            <3>2. call \in Pushes /\ call.batch = Tail(op[c].batch)
                BY <2>1, <2>4, <2>5 DEF Pushes
            <3> QED BY <3>1, <3>2 DEF Calls
        <2>8. files' = [files EXCEPT ![number] = item]
            BY <1>2 DEF PushItem, WriteItem
        <2>9. count' = [count EXCEPT ![c] = number]
            BY <1>2 DEF PushItem, CountAfter
        <2>10. number + Len(call.batch) <= MaxItem
            <3>1. count[c] + Len(op[c].batch) <= MaxItem
                BY <1>2 DEF TypeInv, BatchFits, PushItem
            <3> QED BY <2>2, <2>3, <2>4, <2>7, <3>1
        <2>11. beyond' \subseteq Numbers /\ UNCHANGED <<disk, reader, acked, faults>>
            BY <1>2 DEF PushItem, TypeInv, TypeOK
        <2>12. BatchFits'
            BY <2>7, <2>9, <2>10 DEF TypeInv, TypeOK, BatchFits
        <2>13. count' \in [Clients -> 0 .. MaxItem]
            BY <2>3, <2>9 DEF TypeInv, TypeOK, Numbers
        <2> HIDE DEF number, item, call
        <2> QED BY <2>5, <2>6, <2>7, <2>8, <2>11, <2>12, <2>13 DEF TypeInv, TypeOK
    <1>3. CASE PushDone(c)
        <2>1. acked' \subseteq Nat
            BY <1>3, CallType DEF PushDone, TypeInv, TypeOK
        <2> QED BY <1>3, <2>1, CallStep DEF PushDone, WriteMetadata, Idle, Calls, TypeInv, TypeOK
    <1>4. CASE PurgeDone(c)
        <2>1. op' \in [Clients -> Calls]
            BY <1>4 DEF PurgeDone, Go, Calls, TypeInv, TypeOK
        <2>2. count' \in [Clients -> 0 .. MaxItem]
            <3>1. 0 \in 0 .. MaxItem
                BY BoundsAssumption DEF BoundsAssumption
            <3> QED BY <1>4, <3>1 DEF PurgeDone, TypeInv, TypeOK
        <2>3. BatchFits'
            BY <1>4 DEF PurgeDone, Go, TypeInv, TypeOK, BatchFits
        <2> QED BY <1>4, <2>1, <2>2, <2>3 DEF PurgeDone, TypeInv, TypeOK
    <1>5. CASE Persist(c)
        BY <1>5, CallStep DEF Persist, WriteMetadata, Idle, Calls, TypeInv, TypeOK
    <1>6. ASSUME NEW i \in Numbers, PurgeFile(c, i) \/ PurgeStops(c, i)
          PROVE  TypeInv'
        <2>1. CASE PurgeFile(c, i)
            <3>1. op[c] \in Purges
                BY <2>1, CallType DEF PurgeFile, PurgeNext, TypeInv
            <3>2. op[c].todo \ {i} \in SUBSET Numbers
                BY <3>1 DEF Purges
            <3>3. [op[c] EXCEPT !.todo = op[c].todo \ {i}] \in Purges
                BY <3>1, <3>2, PurgeExcept
            <3>4. Go(c, [op[c] EXCEPT !.todo = op[c].todo \ {i}])
                BY <2>1 DEF PurgeFile
            <3>5. files' \in [Numbers -> Items \cup {Absent}]
                BY <2>1 DEF PurgeFile, WriteItem, TypeInv, TypeOK
            <3> DEFINE call == [op[c] EXCEPT !.todo = op[c].todo \ {i}]
            <3>6. call \in Calls /\ call.kind # "push"
                BY <3>3 DEF Calls, Purges
            <3> HIDE DEF call
            <3> QED BY <2>1, <3>4, <3>5, <3>6, CallStep DEF call, PurgeFile, TypeInv, TypeOK
        <2>2. CASE PurgeStops(c, i)
            BY <2>2, CallStep DEF PurgeStops, Idle, Calls, TypeInv, TypeOK
        <2> QED BY <1>6, <2>1, <2>2
    <1> QED BY <1>1, <1>2, <1>3, <1>4, <1>5, <1>6 DEF Writing

LEMMA ReadingKeepsType ==
    ASSUME TypeInv, CallsAssumption, SentinelAssumption, NEW c \in Clients, Reading(c)
    PROVE  TypeInv'
    <1>1. reader[c].kind # "idle" => reader[c] \in Pages
        BY IterationType DEF TypeInv
    <1>2. \A r \in Pages : r \in Iterations /\ r.todo \in SUBSET Numbers /\ r.read \in Seq(Items)
        BY DEF Pages, Iterations
    <1>3. CASE ListFiles(c)
        <2> DEFINE r == [reader[c] EXCEPT !.kind = "read", !.todo = Present, !.read = << >>]
        <2>1. reader' = [reader EXCEPT ![c] = r]
            BY <1>3 DEF ListFiles
        <2>2. << >> \in Seq(Items) /\ Present \in SUBSET Numbers
            BY DEF Present
        <2>3. reader[c] \in Pages
            BY <1>1, <1>3 DEF ListFiles
        <2>4. r \in Pages
            BY <2>2, <2>3, PageExcept
        <2> HIDE DEF r
        <2> QED BY <1>2, <1>3, <2>1, <2>4, ReaderStep DEF ListFiles, TypeInv, TypeOK
    <1>4. CASE FilesRead(c)
        <2> DEFINE r == [reader[c] EXCEPT !.kind = "touch"]
        <2>1. reader' = [reader EXCEPT ![c] = r]
            BY <1>4 DEF FilesRead
        <2>2. reader[c] \in Pages
            BY <1>1, <1>4 DEF FilesRead
        <2>3. r \in Pages
            BY <2>2, <1>2, PageExcept
        <2> HIDE DEF r
        <2> QED BY <1>2, <1>4, <2>1, <2>3, ReaderStep DEF FilesRead, TypeInv, TypeOK
    <1>5. CASE TouchMetadata(c)
        <2>1. AfterPage(reader[c]) \in Iterations
            BY <1>5, AfterPageType DEF TouchMetadata, TypeInv
        <2>2. reader' = [reader EXCEPT ![c] = AfterPage(reader[c])]
            BY <1>5 DEF TouchMetadata
        <2> QED BY <1>5, <2>1, <2>2, ReaderStep DEF TouchMetadata, WriteMetadata, TypeInv, TypeOK
    <1>6. ASSUME NEW i \in Numbers, ReadFile(c, i)
          PROVE  TypeInv'
        <2> DEFINE read == IF ~Exists(i) \/ (reader[c].how.skip /\ files[i].empty)
                           THEN reader[c].read ELSE Append(reader[c].read, files[i])
        <2> DEFINE r == [reader[c] EXCEPT !.todo = reader[c].todo \ {i}, !.read = read]
        <2>1. reader[c] \in Pages
            BY <1>1, <1>6 DEF ReadFile, ReadNext
        <2>2. read \in Seq(Items) /\ reader[c].todo \ {i} \in SUBSET Numbers
            <3>1. Exists(i) => files[i] \in Items
                BY DEF Exists, TypeInv, TypeOK
            <3> QED BY <1>2, <2>1, <3>1
        <2>3. reader' = [reader EXCEPT ![c] = r]
            BY <1>6 DEF ReadFile
        <2>4. r \in Pages
            <3> HIDE DEF read
            <3> QED BY <2>1, <2>2, PageExcept
        <2> HIDE DEF r
        <2> QED BY <1>2, <1>6, <2>3, <2>4, ReaderStep DEF ReadFile, TypeInv, TypeOK
    <1> QED BY <1>3, <1>4, <1>5, <1>6 DEF Reading

LEMMA FailKeepsType ==
    ASSUME TypeInv, BoundsAssumption, NEW c \in Clients, Fail(c)
    PROVE  TypeInv'
    <1>1. CASE Crash(c)
        <2>1. op' = [op EXCEPT ![c] = Closed] /\ reader' = [reader EXCEPT ![c] = Idle]
              /\ count' = [count EXCEPT ![c] = 0] /\ faults' \in Nat
            BY <1>1 DEF Crash, Go, MayFault, TypeInv, TypeOK
        <2>2. Closed \in Calls /\ Idle \in Iterations /\ 0 \in 0 .. MaxItem
            BY BoundsAssumption DEF Closed, Idle, Calls, Iterations, BoundsAssumption
        <2>3. BatchFits'
            BY <2>1 DEF TypeInv, TypeOK, BatchFits, Closed
        <2> QED BY <1>1, <2>1, <2>2, <2>3 DEF Crash, TypeInv, TypeOK
    <1>2. CASE WriteFails(c)
        <2>1. Closed \in Calls /\ Idle \in Calls /\ Closed.kind # "push" /\ Idle.kind # "push"
            BY DEF Closed, Idle, Calls
        <2>2. PICK call \in {Closed, Idle} : Go(c, call)
            BY <1>2 DEF WriteFails
        <2>3. faults' \in Nat
            BY <1>2 DEF WriteFails, MayFault, TypeInv, TypeOK
        <2> QED BY <1>2, <2>1, <2>2, <2>3, CallStep DEF WriteFails, TypeInv, TypeOK
    <1>3. CASE TouchFails(c)
        <2>1. Idle \in Iterations /\ faults' \in Nat
            BY <1>3 DEF TouchFails, MayFault, Idle, Iterations, TypeInv, TypeOK
        <2> QED BY <1>3, <2>1, ReaderStep DEF TouchFails, TypeInv, TypeOK
    <1>4. CASE RemoveFails(c)
        <2>1. Idle \in Calls /\ Idle.kind # "push" /\ faults' \in Nat
            BY <1>4 DEF RemoveFails, MayFault, Idle, Calls, TypeInv, TypeOK
        <2> QED BY <1>4, <2>1, CallStep DEF RemoveFails, TypeInv, TypeOK
    <1>5. ASSUME NEW i \in Numbers, ReadFails(c, i)
          PROVE  TypeInv'
        <2> DEFINE r == [reader[c] EXCEPT !.todo = reader[c].todo \ {i}, !.before = {0}]
        <2>1. reader[c] \in Pages /\ faults' \in Nat
            BY <1>5, IterationType DEF ReadFails, ReadNext, MayFault, TypeInv, TypeOK
        <2>2. reader' = [reader EXCEPT ![c] = r]
            BY <1>5 DEF ReadFails
        <2>3. reader[c].todo \ {i} \in SUBSET Numbers
            BY <2>1 DEF Pages
        <2>4. r \in Iterations
            <3>1. {0} \in SUBSET Nat
                OBVIOUS
            <3>2. r \in Pages
                BY <2>1, <2>3, <3>1, PageBefore
            <3> QED BY <3>2 DEF Iterations
        <2> HIDE DEF r
        <2> QED BY <1>5, <2>1, <2>2, <2>4, ReaderStep DEF ReadFails, TypeInv, TypeOK
    <1> QED BY <1>1, <1>2, <1>3, <1>4, <1>5 DEF Fail

LEMMA TypeStep == TypeInv /\ [Next]_vars => TypeInv'
    <1> SUFFICES ASSUME TypeInv, [Next]_vars PROVE TypeInv'
        OBVIOUS
    <1>1. CASE UNCHANGED vars
        BY <1>1 DEF vars, TypeInv, TypeOK, BatchFits
    <1>2. ASSUME NEW c \in Clients, Start(c) \/ Writing(c) \/ Reading(c) \/ Fail(c)
          PROVE  TypeInv'
        BY <1>2, StartKeepsType, WritingKeepsType, ReadingKeepsType, FailKeepsType,
           CallsAssumption, SentinelAssumption, BoundsAssumption
    <1> QED BY <1>1, <1>2 DEF Next

LEMMA TypeInvariant == Spec => []TypeInv
    <1>1. Init => TypeInv
        BY TypeInit, BoundsAssumption
    <1> QED BY <1>1, TypeStep, PTL DEF Spec

\* Every variable of a dataset keeps the shape of the code's data: item numbers
\* stay within their range, a caller is never given more than it wants.
THEOREM TypeCorrect == Spec => []TypeOK
    <1>1. TypeInv => TypeOK
        BY DEF TypeInv
    <1> QED BY <1>1, TypeInvariant, PTL

-------------------------------------------------------------------------------
(* AcknowledgedKept, for a dataset with one client.  The invariant says why:  *)
(* the number of an acknowledged item is covered by the item_count that was   *)
(* saved, so by the one a reopened client starts from, and pushes go past it. *)

\* An item is in a file whose number is at most n.
Within(s, n) == \E i \in Numbers : Exists(i) /\ files[i].stamp = s /\ i <= n

AckedInv ==
    /\ acked # {} => disk # Absent
    /\ \A s \in acked : Within(s, disk)
    /\ \A c \in Clients :
          /\ IsOpen(c) /\ acked # {} => disk <= count[c]
          /\ op[c].kind \in {"create", "purge", "persist"} => acked = {}
          /\ op[c].kind = "push" => \A s \in op[c].wrote : Within(s, count[c])

LEMMA AckedStutter ==
    ASSUME AckedInv, UNCHANGED <<files, disk, count, op, acked>>
    PROVE  AckedInv'
    BY DEF AckedInv, Within, Exists, IsOpen

\* A call of an open client begins, goes on or ends, and no file is touched.
LEMMA AckedQuiet ==
    ASSUME TypeInv, AckedInv, NEW c, Clients = {c}, NEW call, Go(c, call), IsOpen(c),
           call.kind = "push" => call.wrote = {},
           call.kind \in {"create", "purge", "persist"} => acked' = {},
           UNCHANGED <<files, disk, count>>, acked' = acked \/ acked' = {}
    PROVE  AckedInv'
    <1>1. op'[c] = call
        BY DEF TypeInv, TypeOK, Go
    <1> QED BY <1>1 DEF AckedInv, Within, Exists, IsOpen

\* While nothing is acknowledged, only the items of a push under way matter.
LEMMA AckedNothing ==
    ASSUME NEW c, Clients = {c}, acked' = {}, op'[c].kind = "push" => op'[c].wrote = {}
    PROVE  AckedInv'
    BY DEF AckedInv

LEMMA AckedStart ==
    ASSUME TypeInv, AckedInv, NEW c, Clients = {c}, Start(c)
    PROVE  AckedInv'
    <1>1. CASE Open(c)
        <2>1. op'[c].kind \in {"create", "idle"} /\ (op'[c].kind = "create" => disk = Absent)
            BY <1>1 DEF Open, Go, Idle, TypeInv, TypeOK
        <2>2. disk # Absent => count'[c] = disk
            BY <1>1 DEF Open, TypeInv, TypeOK
        <2>3. disk # Absent => disk <= count'[c]
            BY <2>2 DEF TypeInv, TypeOK
        <2> QED BY <1>1, <2>1, <2>3 DEF AckedInv, Within, Exists, IsOpen, Open
    <1>2. CASE Push(c)
        <2>1. PICK batch \in Batches : Go(c, [kind |-> "push", batch |-> batch, wrote |-> {}])
            BY <1>2 DEF Push
        <2>2. IsOpen(c)
            BY <1>2 DEF Push, MutexFree, IsOpen, Idle
        <2> QED BY <1>2, <2>1, <2>2, AckedQuiet DEF Push
    <1>3. CASE Purge(c)
        <2>1. IsOpen(c)
            BY <1>3 DEF Purge, MutexFree, IsOpen, Idle
        <2> QED BY <1>3, <2>1, AckedQuiet DEF Purge
    <1>4. CASE DropStorage(c)
        <2>1. op'[c] = IF op[c].kind = "push" THEN [op[c] EXCEPT !.wrote = {}] ELSE op[c]
            BY <1>4 DEF DropStorage
        <2>2. op[c].kind = "push" => op[c] \in Pushes
            BY CallType DEF TypeInv
        <2>3. op'[c].kind = "push" => op'[c].wrote = {}
            BY <2>1, <2>2 DEF Pushes
        <2> QED BY <1>4, <2>3, AckedNothing DEF DropStorage
    <1>5. CASE StartReading(c)
        BY <1>5, AckedStutter DEF StartReading
    <1> QED BY <1>1, <1>2, <1>3, <1>4, <1>5 DEF Start

\* A push writes past every number that item_count covers.
LEMMA WithinKept ==
    ASSUME TypeInv, NEW c \in Clients, PushItem(c), NEW s, NEW n \in Nat, n <= count[c], Within(s, n)
    PROVE  /\ Within(s, n)'
           /\ Within(s, count[c])'
    <1>1. PICK i \in Numbers : Exists(i) /\ files[i].stamp = s /\ i <= n
        BY DEF Within
    <1>2. count[c] \in Nat /\ i \in Nat /\ count'[c] = count[c] + 1
        BY BoundsAssumption DEF TypeInv, TypeOK, PushItem, CountAfter, Numbers, BoundsAssumption
    <1>3. i # count[c] + 1
        BY <1>1, <1>2
    <1>4. files'[i] = files[i]
        BY <1>3 DEF PushItem, WriteItem, TypeInv, TypeOK
    <1>5. i <= n /\ i <= count'[c]
        BY <1>1, <1>2
    <1> QED BY <1>1, <1>4, <1>5 DEF Within, Exists

LEMMA AckedPushItem ==
    ASSUME TypeInv, AckedInv, NEW c, Clients = {c}, PushItem(c)
    PROVE  AckedInv'
    <1>1. /\ op[c] \in Pushes
          /\ op[c].kind = "push"
          /\ op[c].batch \in Seq(BOOLEAN)
          /\ op[c].batch # << >>
        BY CallType DEF PushItem, TypeInv
    <1>2. IsOpen(c)
        BY <1>1 DEF IsOpen
    <1>3. count[c] \in Nat /\ count'[c] = count[c] + 1 /\ (disk # Absent => disk \in Nat)
        BY BoundsAssumption DEF TypeInv, TypeOK, PushItem, CountAfter, BoundsAssumption
    <1>4. op'[c].kind = "push" /\ op'[c].wrote = op[c].wrote \cup {stamp'}
        BY <1>1 DEF PushItem, Go, TypeInv, TypeOK, Pushes
    <1>5. \A s \in acked : Within(s, disk)'
        BY <1>2, <1>3, WithinKept DEF AckedInv, PushItem
    <1>6. \A s \in op[c].wrote : Within(s, count[c])'
        BY <1>1, <1>3, WithinKept DEF AckedInv
    <1>7. \A s : s = stamp' => Within(s, count[c])'
        <2>1. Len(op[c].batch) \in Nat /\ Len(op[c].batch) >= 1
            BY <1>1
        <2>2. count[c] + Len(op[c].batch) <= MaxItem /\ MaxItem \in Nat
            BY <1>1, BoundsAssumption DEF TypeInv, BatchFits, BoundsAssumption
        <2>3. count[c] + 1 \in Numbers
            BY <1>3, <2>1, <2>2 DEF Numbers
        <2>4. files'[count[c] + 1] = [stamp |-> stamp', empty |-> Head(op[c].batch)]
            BY <2>3 DEF PushItem, WriteItem, TypeInv, TypeOK
        <2>5. files'[count[c] + 1] # Absent
            <3>1. stamp' \in Nat /\ Head(op[c].batch) \in BOOLEAN
                BY <1>1, HeadTailProperties DEF PushItem, TypeInv, TypeOK
            <3>2. [stamp |-> stamp', empty |-> Head(op[c].batch)] \in Items
                BY <3>1 DEF Items
            <3> QED BY <2>4, <3>2, SentinelAssumption DEF SentinelAssumption
        <2>6. files'[count[c] + 1].stamp = stamp' /\ count[c] + 1 <= count'[c]
            BY <1>3, <2>4
        <2> QED BY <1>3, <2>3, <2>5, <2>6 DEF Within, Exists
    <1>8. acked # {} => disk <= count'[c]
        BY <1>2, <1>3 DEF AckedInv
    <1>9. \A s \in op'[c].wrote : Within(s, count[c])'
        BY <1>4, <1>6, <1>7
    <1>10. UNCHANGED <<disk, acked>>
        BY DEF PushItem
    <1> QED BY <1>4, <1>5, <1>8, <1>9, <1>10 DEF AckedInv

LEMMA AckedWriting ==
    ASSUME TypeInv, AckedInv, NEW c, Clients = {c}, Writing(c)
    PROVE  AckedInv'
    <1>1. CASE Create(c)
        <2>1. acked = {} /\ op'[c] = Idle /\ acked' = {}
            BY <1>1 DEF Create, Go, AckedInv, TypeInv, TypeOK
        <2> QED BY <2>1, AckedNothing DEF Idle
    <1>2. CASE PushItem(c)
        BY <1>2, AckedPushItem
    <1>3. CASE PushDone(c)
        <2>1. op[c].kind = "push" /\ IsOpen(c) /\ count[c] \in Nat
            BY <1>3, BoundsAssumption DEF PushDone, IsOpen, TypeInv, TypeOK, BoundsAssumption
        <2>2. op'[c] = Idle /\ disk' = count[c] /\ count' = count /\ acked' = acked \cup op[c].wrote
            BY <1>3 DEF PushDone, WriteMetadata, Go, TypeInv, TypeOK
        <2>3. disk' # Absent
            BY <2>1, <2>2, SentinelAssumption DEF SentinelAssumption
        <2>4. \A s \in op[c].wrote : Within(s, count[c])
            BY <2>1 DEF AckedInv
        <2>5. \A s \in acked : Within(s, count[c])
            <3> SUFFICES ASSUME NEW s \in acked PROVE Within(s, count[c])
                OBVIOUS
            <3>1. disk <= count[c] /\ disk # Absent /\ Within(s, disk)
                BY <2>1 DEF AckedInv
            <3>2. disk \in Nat
                BY <3>1, BoundsAssumption DEF TypeInv, TypeOK, BoundsAssumption
            <3> QED BY <2>1, <3>1, <3>2 DEF Within, Numbers
        <2>6. \A s \in acked' : Within(s, disk)'
            BY <1>3, <2>2, <2>4, <2>5 DEF PushDone, Within, Exists
        <2> QED BY <2>1, <2>2, <2>3, <2>6 DEF AckedInv, Idle
    <1>4. CASE PurgeDone(c)
        <2>1. acked' = {} /\ op'[c].kind = "persist"
            BY <1>4 DEF PurgeDone, Go, AckedInv, TypeInv, TypeOK
        <2> QED BY <2>1, AckedNothing
    <1>5. CASE Persist(c)
        <2>1. acked' = {} /\ op'[c] = Idle
            BY <1>5 DEF Persist, Go, AckedInv, TypeInv, TypeOK
        <2> QED BY <2>1, AckedNothing DEF Idle
    <1>6. ASSUME NEW i \in Numbers, PurgeFile(c, i) \/ PurgeStops(c, i)
          PROVE  AckedInv'
        <2>1. op[c].kind = "purge" /\ acked' = {}
            BY <1>6 DEF PurgeFile, PurgeStops, PurgeNext, AckedInv
        <2>2. op[c] \in Purges
            BY <2>1, CallType DEF TypeInv
        <2>3. CASE PurgeFile(c, i)
            <3>1. op'[c] = [op[c] EXCEPT !.todo = op[c].todo \ {i}]
                BY <2>3 DEF PurgeFile, Go, TypeInv, TypeOK
            <3>2. op'[c].kind # "push"
                BY <2>2, <3>1 DEF Purges
            <3> QED BY <2>1, <3>2, AckedNothing
        <2>4. CASE PurgeStops(c, i)
            <3>1. op'[c] = Idle
                BY <2>4 DEF PurgeStops, Go, TypeInv, TypeOK
            <3> QED BY <2>1, <3>1, AckedNothing DEF Idle
        <2> QED BY <1>6, <2>3, <2>4
    <1> QED BY <1>1, <1>2, <1>3, <1>4, <1>5, <1>6 DEF Writing

LEMMA AckedReading ==
    ASSUME TypeInv, AckedInv, NEW c, Clients = {c}, Reading(c)
    PROVE  AckedInv'
    <1>1. CASE TouchMetadata(c)
        <2>1. op[c] = Idle /\ disk' = count[c] /\ count[c] \in Nat
            BY <1>1, BoundsAssumption
               DEF TouchMetadata, WriteMetadata, MutexFree, TypeInv, TypeOK, BoundsAssumption
        <2>2. disk' # Absent
            BY <2>1, SentinelAssumption DEF SentinelAssumption
        <2>3. \A s \in acked : Within(s, count[c])
            <3> SUFFICES ASSUME NEW s \in acked PROVE Within(s, count[c])
                OBVIOUS
            <3>1. disk <= count[c] /\ disk # Absent /\ Within(s, disk)
                BY <2>1 DEF AckedInv, IsOpen, Idle
            <3>2. disk \in Nat
                BY <3>1, BoundsAssumption DEF TypeInv, TypeOK, BoundsAssumption
            <3> QED BY <2>1, <3>1, <3>2 DEF Within, Numbers
        <2>4. \A s \in acked' : Within(s, disk)'
            BY <1>1, <2>1, <2>3 DEF TouchMetadata, Within, Exists
        <2>5. UNCHANGED <<count, op, acked>>
            BY <1>1 DEF TouchMetadata
        <2> QED BY <2>1, <2>2, <2>4, <2>5 DEF AckedInv, Idle
    <1>2. CASE UNCHANGED <<files, disk, count, op, acked>>
        BY <1>2, AckedStutter
    <1> QED BY <1>1, <1>2 DEF Reading, ListFiles, FilesRead, ReadFile

LEMMA AckedFail ==
    ASSUME TypeInv, AckedInv, NEW c, Clients = {c}, Fail(c)
    PROVE  AckedInv'
    <1>1. CASE Crash(c)
        <2>1. op'[c] = Closed
            BY <1>1 DEF Crash, Go, TypeInv, TypeOK
        <2> QED BY <1>1, <2>1 DEF Crash, AckedInv, Closed, IsOpen, Within, Exists
    <1>2. CASE WriteFails(c)
        <2>1. op'[c] = IF op[c].kind = "create" THEN Closed ELSE Idle
            BY <1>2 DEF WriteFails, Go, TypeInv, TypeOK
        <2> QED BY <1>2, <2>1 DEF WriteFails, AckedInv, Closed, Idle, IsOpen, Within, Exists
    <1>3. CASE RemoveFails(c)
        <2>1. op'[c] = Idle
            BY <1>3 DEF RemoveFails, Go, TypeInv, TypeOK
        <2> QED BY <1>3, <2>1 DEF RemoveFails, AckedInv, Idle, IsOpen, Within, Exists
    <1>4. CASE UNCHANGED <<files, disk, count, op, acked>>
        BY <1>4, AckedStutter
    <1> QED BY <1>1, <1>2, <1>3, <1>4 DEF Fail, TouchFails, ReadFails

LEMMA AckedKept ==
    ASSUME NEW c, Clients = {c}
    PROVE  Spec => []AckedInv
    <1>1. Init => AckedInv
        BY DEF Init, AckedInv, IsOpen, Closed
    <1>2. TypeInv /\ AckedInv /\ [Next]_vars => AckedInv'
        <2> SUFFICES ASSUME TypeInv, AckedInv, [Next]_vars PROVE AckedInv'
            OBVIOUS
        <2>1. CASE UNCHANGED vars
            BY <2>1, AckedStutter DEF vars
        <2>2. CASE Next
            BY <2>2, AckedStart, AckedWriting, AckedReading, AckedFail DEF Next
        <2> QED BY <2>1, <2>2
    <1> QED BY <1>1, <1>2, TypeInvariant, PTL DEF Spec

\* What the only client of a dataset acknowledged stays in its file until a purge or
\* a drop begins, however many crashes, failed calls and reopenings come in between.
THEOREM AcknowledgedStay ==
    ASSUME NEW c, Clients = {c}
    PROVE  Spec => []AcknowledgedKept
    <1>1. AckedInv => AcknowledgedKept
        BY DEF AckedInv, AcknowledgedKept, Within, StampsIn, Exists
    <1> QED BY <1>1, AckedKept, PTL

-------------------------------------------------------------------------------
(* OverwritesOnlyBeyond, for a dataset with one client *)

\* The files past an open client's count are those it found there when it was
\* opened, and a purge knows of every file there is.
BeyondInv ==
    \A c \in Clients :
        /\ op[c].kind # "closed" => \A i \in Present : i > count[c] => i \in beyond
        /\ op[c].kind = "purge" => Present \subseteq op[c].todo

LEMMA BeyondStutter ==
    ASSUME BeyondInv, UNCHANGED <<files, count, op, beyond>>
    PROVE  BeyondInv'
    BY DEF BeyondInv, Present, Exists

\* A call begins or ends, and no file is touched.
LEMMA BeyondQuiet ==
    ASSUME TypeInv, BeyondInv, NEW c, Clients = {c}, NEW call, Go(c, call), op[c].kind # "closed",
           call.kind = "purge" => Present \subseteq call.todo, UNCHANGED <<files, count, beyond>>
    PROVE  BeyondInv'
    <1>1. op'[c] = call
        BY DEF TypeInv, TypeOK, Go
    <1> QED BY <1>1 DEF BeyondInv, Present, Exists

LEMMA BeyondStart ==
    ASSUME TypeInv, BeyondInv, NEW c, Clients = {c}, Start(c)
    PROVE  BeyondInv'
    <1>1. CASE Open(c)
        <2>1. op'[c].kind \in {"create", "idle"}
            BY <1>1 DEF Open, Go, Idle, TypeInv, TypeOK
        <2>2. beyond' = {i \in Present : i > count'[c]} /\ Present' = Present
            BY <1>1 DEF Open, Present, Exists
        <2> QED BY <2>1, <2>2 DEF BeyondInv
    <1>2. CASE Push(c)
        <2>1. PICK batch \in Batches : Go(c, [kind |-> "push", batch |-> batch, wrote |-> {}])
            BY <1>2 DEF Push
        <2>2. op[c].kind # "closed"
            BY <1>2 DEF Push, MutexFree, Idle
        <2> QED BY <1>2, <2>1, <2>2, BeyondQuiet DEF Push
    <1>3. CASE Purge(c)
        <2>1. op[c].kind # "closed"
            BY <1>3 DEF Purge, MutexFree, Idle
        <2> QED BY <1>3, <2>1, BeyondQuiet DEF Purge
    <1>4. CASE DropStorage(c)
        <2>1. Present' = {}
            BY <1>4 DEF DropStorage, Present, Exists
        <2> QED BY <2>1 DEF BeyondInv
    <1>5. CASE StartReading(c)
        BY <1>5, BeyondStutter DEF StartReading
    <1> QED BY <1>1, <1>2, <1>3, <1>4, <1>5 DEF Start

LEMMA BeyondPushItem ==
    ASSUME TypeInv, BeyondInv, NEW c, Clients = {c}, PushItem(c)
    PROVE  /\ BeyondInv'
           /\ \A i \in Numbers : Exists(i) /\ files'[i] # files[i] => i \in beyond
    <1>1. op[c].kind = "push" /\ op[c] \in Pushes /\ op[c].kind # "closed"
        BY CallType DEF PushItem, TypeInv
    <1>2. op'[c].kind = "push"
        BY <1>1 DEF PushItem, Go, TypeInv, TypeOK, Pushes
    <1>3. count[c] \in Nat /\ count'[c] = count[c] + 1 /\ Numbers \subseteq Nat
        BY BoundsAssumption DEF TypeInv, TypeOK, PushItem, CountAfter, BoundsAssumption, Numbers
    <1>4. \A i \in Numbers : i # count[c] + 1 => files'[i] = files[i]
        BY DEF PushItem, WriteItem, TypeInv, TypeOK
    <1>5. \A i \in Present : i > count[c] => i \in beyond
        BY <1>1 DEF BeyondInv
    <1>6. \A i \in Present' : i > count'[c] => i \in beyond'
        <2> SUFFICES ASSUME NEW i \in Numbers, Exists(i)', i > count'[c]
                     PROVE  i \in beyond'
            BY DEF Present
        <2>1. i > count[c] /\ i # count[c] + 1 /\ Exists(i)
            BY <1>3, <1>4 DEF Exists
        <2> QED BY <1>5, <2>1 DEF PushItem, Present
    <1>7. \A i \in Numbers : Exists(i) /\ files'[i] # files[i] => i \in beyond
        BY <1>3, <1>4, <1>5 DEF Present
    <1> QED BY <1>2, <1>6, <1>7 DEF BeyondInv

LEMMA BeyondWriting ==
    ASSUME TypeInv, BeyondInv, NEW c, Clients = {c}, Writing(c)
    PROVE  BeyondInv'
    <1>1. CASE Create(c)
        BY <1>1, BeyondQuiet DEF Create, Idle
    <1>2. CASE PushItem(c)
        BY <1>2, BeyondPushItem
    <1>3. CASE PushDone(c) \/ Persist(c)
        <2>1. op[c].kind # "closed" /\ Go(c, Idle) /\ UNCHANGED <<files, count, beyond>>
            BY <1>3 DEF PushDone, Persist
        <2> QED BY <2>1, BeyondQuiet DEF Idle
    <1>4. CASE PurgeDone(c)
        <2>1. Present' = {}
            BY <1>4 DEF PurgeDone, BeyondInv, Present, Exists
        <2> QED BY <2>1 DEF BeyondInv
    <1>5. ASSUME NEW i \in Numbers, PurgeFile(c, i)
          PROVE  BeyondInv'
        <2>1. op[c].kind = "purge" /\ op[c] \in Purges /\ op[c].kind # "closed"
            BY <1>5, CallType DEF PurgeFile, PurgeNext, TypeInv
        <2>2. op'[c].kind = "purge" /\ op'[c].todo = op[c].todo \ {i}
            BY <1>5, <2>1 DEF PurgeFile, Go, TypeInv, TypeOK, Purges
        <2>3. Present' = Present \ {i}
            BY <1>5 DEF PurgeFile, WriteItem, TypeInv, TypeOK, Present, Exists
        <2> QED BY <1>5, <2>1, <2>2, <2>3 DEF PurgeFile, BeyondInv
    <1>6. ASSUME NEW i \in Numbers, PurgeStops(c, i)
          PROVE  BeyondInv'
        <2>1. op[c].kind # "closed" /\ Go(c, Idle)
            BY <1>6 DEF PurgeStops, PurgeNext
        <2> QED BY <1>6, <2>1, BeyondQuiet DEF PurgeStops, Idle
    <1> QED BY <1>1, <1>2, <1>3, <1>4, <1>5, <1>6 DEF Writing

LEMMA BeyondReading ==
    ASSUME BeyondInv, NEW c, Reading(c)
    PROVE  BeyondInv'
    <1>1. UNCHANGED <<files, count, op, beyond>>
        BY DEF Reading, ListFiles, FilesRead, TouchMetadata, ReadFile
    <1> QED BY <1>1, BeyondStutter

LEMMA BeyondFail ==
    ASSUME TypeInv, BeyondInv, NEW c, Clients = {c}, Fail(c)
    PROVE  BeyondInv'
    <1>1. CASE Crash(c)
        <2>1. op'[c] = Closed
            BY <1>1 DEF Crash, Go, TypeInv, TypeOK
        <2> QED BY <2>1 DEF BeyondInv, Closed
    <1>2. CASE WriteFails(c)
        <2>1. CASE op[c].kind = "create"
            <3>1. op'[c] = Closed
                BY <1>2, <2>1 DEF WriteFails, Go, TypeInv, TypeOK
            <3> QED BY <3>1 DEF BeyondInv, Closed
        <2>2. CASE op[c].kind # "create"
            <3>1. Go(c, Idle) /\ op[c].kind # "closed" /\ UNCHANGED <<files, count, beyond>>
                BY <1>2, <2>2 DEF WriteFails
            <3> QED BY <3>1, BeyondQuiet DEF Idle
        <2> QED BY <2>1, <2>2
    <1>3. CASE RemoveFails(c)
        <2>1. Go(c, Idle) /\ op[c].kind # "closed" /\ UNCHANGED <<files, count, beyond>>
            BY <1>3 DEF RemoveFails
        <2> QED BY <2>1, BeyondQuiet DEF Idle
    <1>4. CASE UNCHANGED <<files, count, op, beyond>>
        BY <1>4, BeyondStutter
    <1> QED BY <1>1, <1>2, <1>3, <1>4 DEF Fail, TouchFails, ReadFails

LEMMA BeyondKept ==
    ASSUME NEW c, Clients = {c}
    PROVE  Spec => []BeyondInv
    <1>1. Init => BeyondInv
        BY DEF Init, BeyondInv, Closed
    <1>2. TypeInv /\ BeyondInv /\ [Next]_vars => BeyondInv'
        <2> SUFFICES ASSUME TypeInv, BeyondInv, [Next]_vars PROVE BeyondInv'
            OBVIOUS
        <2>1. CASE UNCHANGED vars
            BY <2>1, BeyondStutter DEF vars
        <2>2. CASE Next
            BY <2>2, BeyondStart, BeyondWriting, BeyondReading, BeyondFail DEF Next
        <2> QED BY <2>1, <2>2
    <1> QED BY <1>1, <1>2, TypeInvariant, PTL DEF Spec

\* A step that puts another item in the place of one is a push beyond the count.
LEMMA OnlyBeyond ==
    ASSUME TypeInv, BeyondInv, NEW c, Clients = {c}, [Next]_vars,
           NEW i \in Numbers, Exists(i), files'[i] \notin {files[i], Absent}
    PROVE  i \in beyond
    <1>1. CASE files' = files
        BY <1>1
    <1>2. CASE PushItem(c)
        BY <1>2, BeyondPushItem
    <1>3. CASE DropStorage(c)
        BY <1>3 DEF DropStorage
    <1>4. ASSUME NEW j \in Numbers, PurgeFile(c, j)
          PROVE  i \in beyond
        BY <1>4 DEF PurgeFile, WriteItem, TypeInv, TypeOK
    <1>5. \/ files' = files \/ PushItem(c) \/ DropStorage(c) \/ \E j \in Numbers : PurgeFile(c, j)
        <2>1. Start(c) => files' = files \/ DropStorage(c)
            BY DEF Start, Open, Push, Purge, StartReading
        <2>2. Writing(c) => files' = files \/ PushItem(c) \/ \E j \in Numbers : PurgeFile(c, j)
            BY DEF Writing, Create, PushDone, PurgeDone, Persist, PurgeStops
        <2>3. Reading(c) => files' = files
            BY DEF Reading, ListFiles, FilesRead, TouchMetadata, ReadFile
        <2>4. Fail(c) => files' = files
            BY DEF Fail, Crash, WriteFails, TouchFails, RemoveFails, ReadFails
        <2>5. UNCHANGED vars => files' = files
            BY DEF vars
        <2> QED BY <2>1, <2>2, <2>3, <2>4, <2>5 DEF Next
    <1> QED BY <1>1, <1>2, <1>3, <1>4, <1>5

\* The only item files a dataset's only client ever writes over are those a crashed or
\* failed push left past the item_count that was saved, for any batches, faults and
\* reopenings.
THEOREM OnlyBeyondIsOverwritten ==
    ASSUME NEW c, Clients = {c}
    PROVE  Spec => OverwritesOnlyBeyond
    <1>1. TypeInv /\ BeyondInv /\ [Next]_vars =>
              [\A i \in Numbers : Exists(i) /\ files'[i] \notin {files[i], Absent} => i \in beyond]_vars
        BY OnlyBeyond
    <1> QED BY <1>1, BeyondKept, TypeInvariant, PTL DEF Spec, OverwritesOnlyBeyond

-------------------------------------------------------------------------------
(* Numbers in order *)

LEMMA NumbersFinite ==
    ASSUME NEW S \in SUBSET Numbers
    PROVE  /\ IsFiniteSet(S)
           /\ S \subseteq Nat
           /\ Cardinality(S) \in Nat
    <1>1. MaxItem \in Int /\ Numbers \subseteq Nat
        BY BoundsAssumption DEF BoundsAssumption, Numbers
    <1>2. IsFiniteSet(Numbers)
        BY <1>1, FS_Interval DEF Numbers
    <1>3. IsFiniteSet(S)
        BY <1>2, FS_Subset
    <1> QED BY <1>1, <1>3, FS_CardinalityType

\* The numbers of S up to i.
UpTo(S, i) == {j \in S : j <= i}

LEMMA RankCounts ==
    ASSUME NEW S, NEW i
    PROVE  Rank(S, i) = Cardinality(UpTo(S, i))
    BY DEF Rank, UpTo

LEMMA PartIsSmaller ==
    ASSUME NEW T, IsFiniteSet(T), NEW S \in SUBSET T, S # T
    PROVE  Cardinality(S) < Cardinality(T)
    <1>1. Cardinality(S) <= Cardinality(T) /\ Cardinality(S) # Cardinality(T) /\ IsFiniteSet(S)
        BY FS_Subset
    <1> QED BY <1>1, FS_CardinalityType

LEMMA RankType ==
    ASSUME NEW S \in SUBSET Numbers, NEW i \in S
    PROVE  Rank(S, i) \in 1 .. Cardinality(S)
    <1>1. UpTo(S, i) \in SUBSET S /\ i \in UpTo(S, i)
        BY NumbersFinite DEF UpTo
    <1>2. Cardinality(UpTo(S, i)) <= Cardinality(S) /\ Cardinality(UpTo(S, i)) \in Nat
        BY <1>1, NumbersFinite, FS_Subset
    <1>3. IsFiniteSet(UpTo(S, i))
        BY <1>1, NumbersFinite
    <1>4. Cardinality(UpTo(S, i)) # 0
        BY <1>1, <1>3, FS_EmptySet
    <1> QED BY <1>2, <1>4, NumbersFinite DEF Rank, UpTo

LEMMA RankGrows ==
    ASSUME NEW S \in SUBSET Numbers, NEW i \in S, NEW j \in S, i < j
    PROVE  Rank(S, i) < Rank(S, j)
    <1>1. i \in Nat /\ j \in Nat /\ S \subseteq Nat
        BY NumbersFinite
    <1>2. UpTo(S, i) \subseteq UpTo(S, j) /\ j \in UpTo(S, j) /\ j \notin UpTo(S, i) /\ UpTo(S, j) \in SUBSET Numbers
        <2>1. \A k \in S : k <= i => k <= j
            BY <1>1
        <2>2. j <= j /\ ~(j <= i)
            BY <1>1
        <2> QED BY <2>1, <2>2 DEF UpTo
    <1>3. UpTo(S, i) # UpTo(S, j)
        BY <1>2
    <1>4. IsFiniteSet(UpTo(S, j)) /\ UpTo(S, i) \in SUBSET UpTo(S, j)
        BY <1>2, NumbersFinite
    <1> QED BY <1>3, <1>4, PartIsSmaller, RankCounts

\* Every position has a number, since ranks are distinct and none is above the cardinality.
LEMMA RankMeets ==
    ASSUME NEW S \in SUBSET Numbers, NEW n \in 1 .. Cardinality(S)
    PROVE  \E i \in S : Rank(S, i) = n
    <1> DEFINE N == Cardinality(S)
               f == [i \in S |-> Rank(S, i)]
    <1>1. N \in Nat /\ IsFiniteSet(S) /\ S \subseteq Nat
        BY NumbersFinite
    <1>2. IsFiniteSet(1 .. N) /\ Cardinality(1 .. N) = N
        BY <1>1, FS_Interval
    <1>3. f \in [S -> 1 .. N]
        BY RankType
    <1>4. \A i, j \in S : f[i] = f[j] => i = j
        <2> SUFFICES ASSUME NEW i \in S, NEW j \in S, i # j PROVE Rank(S, i) # Rank(S, j)
            OBVIOUS
        <2>1. i \in Nat /\ j \in Nat /\ (i < j \/ j < i)
            BY <1>1
        <2>2. Rank(S, i) \in 1 .. N /\ Rank(S, j) \in 1 .. N
            BY RankType
        <2>3. Rank(S, i) < Rank(S, j) \/ Rank(S, j) < Rank(S, i)
            BY <2>1, RankGrows
        <2> QED BY <1>1, <2>2, <2>3
    <1> HIDE DEF f
    <1>5. f \in Injection(S, 1 .. N)
        BY <1>3, <1>4 DEF Injection, IsInjective
    <1>6. f \in Surjection(S, 1 .. N)
        <2> HIDE DEF N
        <2>1. Cardinality(S) = Cardinality(1 .. N)
            BY <1>2 DEF N
        <2> QED BY <1>2, <1>5, <2>1, FS_Injection
    <1>7. \E i \in S : f[i] = n
        BY <1>6 DEF Surjection
    <1> QED BY <1>7 DEF f

LEMMA NthHasRank ==
    ASSUME NEW S \in SUBSET Numbers, NEW n \in 1 .. Cardinality(S)
    PROVE  /\ Nth(S, n) \in S
           /\ Rank(S, Nth(S, n)) = n
    BY RankMeets DEF Nth

LEMMA NthOfRank ==
    ASSUME NEW S \in SUBSET Numbers, NEW i \in S
    PROVE  Nth(S, Rank(S, i)) = i
    <1> DEFINE n == Rank(S, i)
               k == Nth(S, n)
    <1>1. n \in 1 .. Cardinality(S)
        BY RankType
    <1>2. k \in S /\ Rank(S, k) = n
        BY <1>1, NthHasRank
    <1>3. i \in Nat /\ k \in Nat /\ n \in Nat
        BY <1>1, <1>2, NumbersFinite
    <1>4. ~(i < k) /\ ~(k < i)
        <2>1. i < k => n < Rank(S, k)
            BY <1>2, RankGrows
        <2>2. k < i => Rank(S, k) < n
            BY <1>2, RankGrows
        <2> QED BY <1>2, <1>3, <2>1, <2>2
    <1> QED BY <1>3, <1>4

\* Larger numbers do not change the positions of smaller ones.
LEMMA NthBelow ==
    ASSUME NEW S \in SUBSET Numbers, NEW T \in SUBSET Numbers, S \subseteq T,
           \A i \in S, j \in T \ S : i < j
    PROVE  /\ Cardinality(S) <= Cardinality(T)
           /\ Cardinality(S) = Cardinality(T) => S = T
           /\ \A n \in 1 .. Cardinality(S) : Nth(T, n) = Nth(S, n)
           /\ \A n \in Cardinality(S) + 1 .. Cardinality(T) : Nth(T, n) \in T \ S
    <1>1. S \in SUBSET T /\ IsFiniteSet(T) /\ Cardinality(S) \in Nat /\ Cardinality(T) \in Nat /\ T \subseteq Nat
        BY NumbersFinite
    <1>2. Cardinality(S) <= Cardinality(T) /\ (Cardinality(S) = Cardinality(T) => S = T)
        BY <1>1, FS_Subset
    <1>3. \A i \in S : Rank(T, i) = Rank(S, i)
        <2> SUFFICES ASSUME NEW i \in S PROVE Rank(T, i) = Rank(S, i)
            OBVIOUS
        <2>1. \A j \in T : j <= i => j \in S
            BY <1>1
        <2>2. UpTo(T, i) = UpTo(S, i)
            BY <2>1 DEF UpTo
        <2> QED BY <2>2, RankCounts
    <1>4. \A n \in 1 .. Cardinality(S) : Nth(T, n) = Nth(S, n)
        <2> SUFFICES ASSUME NEW n \in 1 .. Cardinality(S) PROVE Nth(T, n) = Nth(S, n)
            OBVIOUS
        <2>1. Nth(S, n) \in S /\ Rank(S, Nth(S, n)) = n
            BY NthHasRank
        <2>2. Rank(T, Nth(S, n)) = n
            BY <1>3, <2>1
        <2>3. Nth(T, Rank(T, Nth(S, n))) = Nth(S, n)
            BY <2>1, NthOfRank
        <2> QED BY <2>2, <2>3
    <1>5. \A n \in Cardinality(S) + 1 .. Cardinality(T) : Nth(T, n) \in T \ S
        <2> SUFFICES ASSUME NEW n \in Cardinality(S) + 1 .. Cardinality(T) PROVE Nth(T, n) \in T \ S
            OBVIOUS
        <2>1. n \in 1 .. Cardinality(T)
            BY <1>1
        <2>2. Nth(T, n) \in T /\ Rank(T, Nth(T, n)) = n
            BY <2>1, NthHasRank
        <2>3. ASSUME Nth(T, n) \in S PROVE FALSE
            <3>1. Rank(S, Nth(T, n)) = n /\ Rank(S, Nth(T, n)) \in 1 .. Cardinality(S)
                BY <1>3, <2>2, <2>3, RankType
            <3> QED BY <1>1, <3>1
        <2> QED BY <2>2, <2>3
    <1> QED BY <1>2, <1>4, <1>5

-------------------------------------------------------------------------------
(* What the steps of a dataset with one client do to its files and to what is *)
(* acknowledged                                                               *)

LEMMA FileSteps ==
    ASSUME NEW c, Clients = {c}, [Next]_vars
    PROVE  \/ PushItem(c)
           \/ UNCHANGED <<files, stamp>>
           \/ DropStorage(c)
           \/ \E i \in Numbers : PurgeFile(c, i)
    <1>1. Start(c) => UNCHANGED <<files, stamp>> \/ DropStorage(c)
        BY DEF Start, Open, Push, Purge, StartReading
    <1>2. Writing(c) => PushItem(c) \/ UNCHANGED <<files, stamp>> \/ \E i \in Numbers : PurgeFile(c, i)
        BY DEF Writing, Create, PushDone, PurgeDone, Persist, PurgeStops
    <1>3. Reading(c) => UNCHANGED <<files, stamp>>
        BY DEF Reading, ListFiles, FilesRead, TouchMetadata, ReadFile
    <1>4. Fail(c) => UNCHANGED <<files, stamp>>
        BY DEF Fail, Crash, WriteFails, TouchFails, RemoveFails, ReadFails
    <1>5. UNCHANGED vars => UNCHANGED <<files, stamp>>
        BY DEF vars
    <1> QED BY <1>1, <1>2, <1>3, <1>4, <1>5 DEF Next

LEMMA AckSteps ==
    ASSUME NEW c, Clients = {c}, [Next]_vars
    PROVE  acked' = acked \/ acked' = {} \/ PushDone(c)
    <1>1. Start(c) => acked' = acked \/ acked' = {}
        BY DEF Start, Open, Push, Purge, DropStorage, StartReading
    <1>2. Writing(c) => acked' = acked \/ PushDone(c)
        BY DEF Writing, Create, PushItem, PurgeDone, Persist, PurgeFile, PurgeStops
    <1>3. Reading(c) => acked' = acked
        BY DEF Reading, ListFiles, FilesRead, TouchMetadata, ReadFile
    <1>4. Fail(c) => acked' = acked
        BY DEF Fail, Crash, WriteFails, TouchFails, RemoveFails, ReadFails
    <1>5. UNCHANGED vars => acked' = acked
        BY DEF vars
    <1> QED BY <1>1, <1>2, <1>3, <1>4, <1>5 DEF Next

\* Where and what a push writes.
LEMMA PushedItem ==
    ASSUME TypeInv, NEW c \in Clients, PushItem(c)
    PROVE  /\ count[c] + 1 \in Numbers
           /\ stamp \in Nat /\ stamp' = stamp + 1
           /\ files'[count[c] + 1] # Absent
           /\ files'[count[c] + 1] \in Items
           /\ files'[count[c] + 1].stamp = stamp'
           /\ \A i \in Numbers : i # count[c] + 1 => files'[i] = files[i]
    <1>1. /\ op[c] \in Pushes
          /\ op[c].kind = "push"
          /\ op[c].batch \in Seq(BOOLEAN)
          /\ op[c].batch # << >>
        BY CallType DEF PushItem, TypeInv
    <1>2. Len(op[c].batch) \in Nat /\ Len(op[c].batch) >= 1
        BY <1>1
    <1>3. count[c] + Len(op[c].batch) <= MaxItem /\ MaxItem \in Nat /\ count[c] \in Nat
        BY <1>1, BoundsAssumption DEF TypeInv, TypeOK, BatchFits, BoundsAssumption
    <1>4. count[c] + 1 \in Numbers
        BY <1>2, <1>3 DEF Numbers
    <1>5. files'[count[c] + 1] = [stamp |-> stamp', empty |-> Head(op[c].batch)]
        BY <1>4 DEF PushItem, WriteItem, TypeInv, TypeOK
    <1>6. stamp \in Nat /\ stamp' = stamp + 1 /\ Head(op[c].batch) \in BOOLEAN
        BY <1>1, HeadTailProperties DEF PushItem, TypeInv, TypeOK
    <1>7. files'[count[c] + 1] \in Items
        BY <1>5, <1>6 DEF Items
    <1>8. files'[count[c] + 1] # Absent
        BY <1>7, SentinelAssumption DEF SentinelAssumption
    <1>9. \A i \in Numbers : i # count[c] + 1 => files'[i] = files[i]
        BY DEF PushItem, WriteItem, TypeInv, TypeOK
    <1> QED BY <1>4, <1>5, <1>6, <1>7, <1>8, <1>9

-------------------------------------------------------------------------------
(* The items of some files *)

LEMMA ItemsType ==
    ASSUME NEW fs, NEW S \in SUBSET Numbers, \A i \in S : fs[i] \in Items
    PROVE  /\ ItemsOf(fs, S) \in Seq(Items)
           /\ Len(ItemsOf(fs, S)) = Cardinality(S)
           /\ \A n \in 1 .. Cardinality(S) : Nth(S, n) \in S /\ ItemsOf(fs, S)[n] = fs[Nth(S, n)]
    <1>1. Cardinality(S) \in Nat
        BY NumbersFinite
    <1>2. \A n \in 1 .. Cardinality(S) : Nth(S, n) \in S /\ fs[Nth(S, n)] \in Items
        BY NthHasRank
    <1>3. ItemsOf(fs, S) \in [1 .. Cardinality(S) -> Items]
        BY <1>2 DEF ItemsOf
    <1>4. ItemsOf(fs, S) \in Seq(Items) /\ Len(ItemsOf(fs, S)) = Cardinality(S)
        <2> DEFINE N == Cardinality(S)
                   s == ItemsOf(fs, S)
        <2>1. N \in Nat /\ s \in [1 .. N -> Items]
            BY <1>1, <1>3
        <2> HIDE DEF N, s
        <2>2. s \in Seq(Items) /\ Len(s) = N
            BY <2>1
        <2> QED BY <2>2 DEF N, s
    <1> QED BY <1>2, <1>4 DEF ItemsOf

\* Files with larger numbers put their items behind.
LEMMA ItemsBehind ==
    ASSUME NEW fs, NEW T \in SUBSET Numbers, \A i \in T : fs[i] \in Items,
           NEW S \in SUBSET T, \A i \in S, j \in T \ S : i < j
    PROVE  IsPrefix(ItemsOf(fs, S), ItemsOf(fs, T))
    <1> DEFINE s == ItemsOf(fs, S)
               t == ItemsOf(fs, T)
    <1>1. s \in Seq(Items) /\ t \in Seq(Items) /\ Len(s) = Cardinality(S) /\ Len(t) = Cardinality(T)
        BY ItemsType
    <1>2. Cardinality(S) <= Cardinality(T) /\ \A n \in 1 .. Cardinality(S) : Nth(T, n) = Nth(S, n)
        BY NthBelow
    <1>3. \A n \in 1 .. Len(s) : t[n] = s[n]
        <2> SUFFICES ASSUME NEW n \in 1 .. Len(s) PROVE t[n] = s[n]
            OBVIOUS
        <2>1. n \in 1 .. Cardinality(S) /\ n \in 1 .. Cardinality(T)
            BY <1>1, <1>2, NumbersFinite
        <2> QED BY <1>2, <2>1 DEF ItemsOf
    <1> HIDE DEF s, t
    <1>4. Len(s) <= Len(t)
        BY <1>1, <1>2
    <1>5. SubSeq(s, 1, Len(s)) = SubSeq(t, 1, Len(s))
        BY <1>1, <1>3, <1>4
    <1> QED BY <1>4, <1>5 DEF IsPrefix, s, t

LEMMA NoItems == \A fs : ItemsOf(fs, {}) = << >>
    <1>1. 1 .. Cardinality({}) = {}
        BY FS_EmptySet
    <1> QED BY <1>1 DEF ItemsOf

\* Only the items of the files matter.
LEMMA ItemsSame ==
    ASSUME NEW S \in SUBSET Numbers, NEW fs, NEW gs, \A i \in S : gs[i] = fs[i]
    PROVE  ItemsOf(gs, S) = ItemsOf(fs, S)
    <1>1. \A n \in 1 .. Cardinality(S) : Nth(S, n) \in S
        BY NthHasRank
    <1> QED BY <1>1 DEF ItemsOf

-------------------------------------------------------------------------------
(* The refinement of ItemLog, for a dataset with one client *)

\* No two files have the same item, and none has one that is still to be pushed.
StampsDistinct ==
    /\ \A i \in Present : files[i].stamp <= stamp
    /\ \A i, j \in Present : files[i].stamp = files[j].stamp => i = j

\* What a push under way has written lies behind all that was acknowledged before.
WroteBehind ==
    \A c \in Clients : op[c].kind = "push" /\ acked # {} =>
        \A i \in Present : files[i].stamp \in op[c].wrote => i > disk

LogInv == StampsDistinct /\ WroteBehind

LEMMA StampsStep ==
    ASSUME TypeInv, StampsDistinct, NEW c, Clients = {c}, [Next]_vars
    PROVE  StampsDistinct'
    <1>1. CASE \/ UNCHANGED <<files, stamp>>
               \/ DropStorage(c)
               \/ \E i \in Numbers : PurgeFile(c, i)
        <2>1. stamp' = stamp /\ \A i \in Numbers : files'[i] \in {files[i], Absent}
            BY <1>1 DEF DropStorage, PurgeFile, WriteItem, TypeInv, TypeOK
        <2>2. \A i \in Present' : i \in Present /\ files'[i] = files[i]
            BY <2>1 DEF Present, Exists
        <2> QED BY <2>1, <2>2 DEF StampsDistinct
    <1>2. CASE PushItem(c)
        <2> DEFINE k == count[c] + 1
        <2>1. /\ stamp \in Nat /\ stamp' = stamp + 1
              /\ files'[k].stamp = stamp'
              /\ \A i \in Numbers : i # k => files'[i] = files[i]
            BY <1>2, PushedItem
        <2>2. \A i \in Present' : i # k => i \in Present /\ files'[i] = files[i]
            BY <2>1 DEF Present, Exists
        <2>3. \A i \in Present : files[i].stamp \in Nat
            BY DEF TypeInv, TypeOK, Present, Exists, Items
        <2> HIDE DEF k
        <2>4. \A i \in Present' : files'[i].stamp <= stamp' /\ (i # k => files'[i].stamp # stamp')
            BY <2>1, <2>2, <2>3 DEF StampsDistinct
        <2>5. \A i, j \in Present' : files'[i].stamp = files'[j].stamp => i = j
            BY <2>1, <2>2, <2>4 DEF StampsDistinct
        <2> QED BY <2>4, <2>5 DEF StampsDistinct
    <1> QED BY <1>1, <1>2, FileSteps

LEMMA WroteStep ==
    ASSUME TypeInv, AckedInv, StampsDistinct, WroteBehind, NEW c, Clients = {c}, [Next]_vars
    PROVE  WroteBehind'
    <1>1. CASE op'[c].kind # "push" \/ acked' = {}
        BY <1>1 DEF WroteBehind
    <1>2. CASE UNCHANGED <<files, disk, op, acked>>
        BY <1>2 DEF WroteBehind, Present, Exists
    <1>3. CASE Push(c)
        <2>1. PICK batch \in Batches : Go(c, [kind |-> "push", batch |-> batch, wrote |-> {}])
            BY <1>3 DEF Push
        <2>2. op'[c].wrote = {}
            BY <2>1 DEF Go, TypeInv, TypeOK
        <2> QED BY <2>2 DEF WroteBehind
    <1>4. CASE PushItem(c)
        <2> DEFINE k == count[c] + 1
        <2>1. op[c].kind = "push" /\ op[c] \in Pushes /\ IsOpen(c)
            BY <1>4, CallType DEF PushItem, TypeInv, IsOpen
        <2>2. op'[c].wrote = op[c].wrote \cup {stamp'}
            BY <1>4, <2>1 DEF PushItem, Go, TypeInv, TypeOK, Pushes
        <2>3. /\ stamp \in Nat /\ stamp' = stamp + 1
              /\ \A i \in Numbers : i # k => files'[i] = files[i]
              /\ UNCHANGED <<disk, acked>>
            BY <1>4, PushedItem DEF PushItem
        <2>4. SUFFICES ASSUME acked # {}, NEW i \in Present', files'[i].stamp \in op'[c].wrote
                       PROVE  i > disk
            BY <2>3 DEF WroteBehind
        <2>5. disk \in Nat /\ count[c] \in Nat /\ disk <= count[c]
            BY <2>1, <2>4, BoundsAssumption DEF AckedInv, TypeInv, TypeOK, BoundsAssumption
        <2>6. CASE i = k
            BY <2>5, <2>6
        <2>7. CASE i # k
            <3>1. i \in Present /\ files'[i] = files[i]
                BY <2>3, <2>4, <2>7 DEF Present, Exists
            <3>2. files[i].stamp \in Nat /\ files[i].stamp <= stamp
                BY <3>1 DEF TypeInv, TypeOK, Present, Exists, Items, StampsDistinct
            <3>3. files[i].stamp \in op[c].wrote
                BY <2>2, <2>3, <2>4, <3>1, <3>2
            <3> QED BY <2>1, <2>4, <3>1, <3>3 DEF WroteBehind
        <2> QED BY <2>6, <2>7
    <1>5. Start(c) => op'[c].kind # "push" \/ acked' = {} \/ Push(c) \/ UNCHANGED <<files, disk, op, acked>>
        BY DEF Start, Open, Purge, DropStorage, StartReading, Go, Idle, TypeInv, TypeOK
    <1>6. Writing(c) => op'[c].kind # "push" \/ PushItem(c)
        <2>1. Create(c) \/ PushDone(c) \/ PurgeDone(c) \/ Persist(c) => op'[c].kind # "push"
            BY DEF Create, PushDone, PurgeDone, Persist, Go, Idle, TypeInv, TypeOK
        <2>2. ASSUME NEW i \in Numbers, PurgeFile(c, i) \/ PurgeStops(c, i)
              PROVE  op'[c].kind # "push"
            <3>1. op[c] \in Purges
                BY <2>2, CallType DEF PurgeFile, PurgeStops, PurgeNext, TypeInv
            <3>2. op'[c] = [op[c] EXCEPT !.todo = op[c].todo \ {i}] \/ op'[c] = Idle
                BY <2>2 DEF PurgeFile, PurgeStops, Go, TypeInv, TypeOK
            <3> QED BY <3>1, <3>2 DEF Purges, Idle
        <2> QED BY <2>1, <2>2 DEF Writing
    <1>7. Reading(c) => op'[c].kind # "push" \/ UNCHANGED <<files, disk, op, acked>>
        <2>1. ListFiles(c) \/ FilesRead(c) \/ (\E i \in Numbers : ReadFile(c, i)) => UNCHANGED <<files, disk, op, acked>>
            BY DEF ListFiles, FilesRead, ReadFile
        <2>2. TouchMetadata(c) => op'[c].kind # "push"
            BY DEF TouchMetadata, MutexFree, Idle
        <2> QED BY <2>1, <2>2 DEF Reading
    <1>8. Fail(c) => op'[c].kind # "push" \/ UNCHANGED <<files, disk, op, acked>>
        <2>1. Crash(c) \/ WriteFails(c) \/ RemoveFails(c) => op'[c] \in {Closed, Idle}
            BY DEF Crash, WriteFails, RemoveFails, Go, TypeInv, TypeOK
        <2>2. TouchFails(c) \/ (\E i \in Numbers : ReadFails(c, i)) => UNCHANGED <<files, disk, op, acked>>
            BY DEF TouchFails, ReadFails
        <2> QED BY <2>1, <2>2 DEF Fail, Closed, Idle
    <1>9. UNCHANGED vars => UNCHANGED <<files, disk, op, acked>>
        BY DEF vars
    <1> QED BY <1>1, <1>2, <1>3, <1>4, <1>5, <1>6, <1>7, <1>8, <1>9 DEF Next

\* The files of the acknowledged items.
AckedFiles == {i \in Present : files[i].stamp \in acked}

\* A push leaves the acknowledged items where they are.
LEMMA PushKeepsLog ==
    ASSUME TypeInv, AckedInv, StampsDistinct, NEW c, Clients = {c}, PushItem(c)
    PROVE  AckedFiles' = AckedFiles /\ \A i \in AckedFiles : files'[i] = files[i]
    <1> DEFINE k == count[c] + 1
    <1>1. /\ stamp \in Nat /\ stamp' = stamp + 1
          /\ files'[k].stamp = stamp'
          /\ \A i \in Numbers : i # k => files'[i] = files[i]
          /\ acked' = acked
        BY PushedItem DEF PushItem
    <1>2. IsOpen(c)
        BY DEF PushItem, IsOpen
    <1>3. ASSUME NEW s \in acked
          PROVE  \E i \in Present : files[i].stamp = s /\ i # k
        <2>1. disk \in Nat /\ count[c] \in Nat /\ disk <= count[c] /\ Within(s, disk)
            BY <1>2, <1>3, BoundsAssumption DEF AckedInv, TypeInv, TypeOK, BoundsAssumption
        <2>2. PICK i \in Numbers : Exists(i) /\ files[i].stamp = s /\ i <= disk
            BY <2>1 DEF Within
        <2>3. i \in Nat
            BY BoundsAssumption DEF Numbers
        <2> QED BY <2>1, <2>2, <2>3 DEF Present
    <1>4. \A i \in AckedFiles : i # k
        BY <1>3 DEF AckedFiles, StampsDistinct
    <1>5. stamp' \notin acked
        <2>1. \A i \in Present : files[i].stamp \in Nat /\ files[i].stamp <= stamp
            BY DEF TypeInv, TypeOK, Present, Exists, Items, StampsDistinct
        <2> QED BY <1>1, <1>3, <2>1
    <1> HIDE DEF k
    <1>6. \A i : i \in AckedFiles' => i \in AckedFiles
        BY <1>1, <1>5 DEF AckedFiles, Present, Exists
    <1>7. \A i : i \in AckedFiles => i \in AckedFiles' /\ files'[i] = files[i]
        BY <1>1, <1>4 DEF AckedFiles, Present, Exists
    <1> QED BY <1>6, <1>7

\* The end of a push adds its items to the log, behind all others.
LEMMA PushDoneExtendsLog ==
    ASSUME TypeInv, AckedInv, StampsDistinct, WroteBehind, NEW c, Clients = {c}, PushDone(c)
    PROVE  IsPrefix(AcknowledgedItems, AcknowledgedItems')
    <1> DEFINE T == {i \in Present : files[i].stamp \in acked'}
    <1>1. op[c].kind = "push" /\ IsOpen(c) /\ acked' = acked \cup op[c].wrote /\ files' = files
        BY DEF PushDone, IsOpen
    <1>2. AckedFiles \in SUBSET Present /\ T \in SUBSET Present /\ AckedFiles \subseteq T
        BY <1>1 DEF AckedFiles
    <1>3. ASSUME NEW i \in AckedFiles, NEW j \in T \ AckedFiles
          PROVE  i < j
        <2>1. acked # {} /\ files[j].stamp \in op[c].wrote
            BY <1>1, <1>3 DEF AckedFiles
        <2>2. j > disk
            BY <1>1, <1>3, <2>1 DEF WroteBehind
        <2>3. disk \in Nat /\ Within(files[i].stamp, disk)
            <3>1. files[i].stamp \in acked
                BY <1>3 DEF AckedFiles
            <3>2. Within(files[i].stamp, disk) /\ disk # Absent
                BY <3>1 DEF AckedInv
            <3> QED BY <3>2, BoundsAssumption DEF TypeInv, TypeOK, BoundsAssumption
        <2>4. i <= disk
            BY <1>3, <2>3 DEF Within, AckedFiles, StampsDistinct, Present
        <2>5. i \in Nat /\ j \in Nat
            BY <1>3, BoundsAssumption DEF AckedFiles, Present, Numbers
        <2> QED BY <2>2, <2>3, <2>4, <2>5
    <1>4. T \in SUBSET Numbers /\ AckedFiles \in SUBSET T /\ \A i \in T : files[i] \in Items
        BY <1>2 DEF TypeInv, TypeOK, Present, Exists
    <1>5. IsPrefix(ItemsOf(files, AckedFiles), ItemsOf(files, T))
        BY <1>3, <1>4, ItemsBehind
    <1>6. AcknowledgedItems' = ItemsOf(files, T)
        BY <1>1 DEF AcknowledgedItems, ItemsOf, Present, Exists
    <1> QED BY <1>5, <1>6 DEF AcknowledgedItems, AckedFiles

LEMMA LogStep ==
    ASSUME TypeInv, AckedInv, LogInv, NEW c, Clients = {c}, [Next]_vars
    PROVE  Log!Next \/ UNCHANGED AcknowledgedItems
    <1>1. CASE acked' = {}
        <2>1. AcknowledgedItems' = ItemsOf(files', {})
            BY <1>1 DEF AcknowledgedItems
        <2> QED BY <2>1, NoItems DEF Log!Next, Log!Clear
    <1>2. CASE PushDone(c)
        <2>1. IsPrefix(AcknowledgedItems, AcknowledgedItems')
            BY <1>2, PushDoneExtendsLog DEF LogInv
        <2> QED BY <2>1 DEF Log!Next, Log!Push, IsPrefix, Log!IsPrefix, Log!IsStrictPrefix
    <1>3. CASE acked' = acked /\ acked # {}
        <2>1. AckedFiles' = AckedFiles /\ \A i \in AckedFiles : files'[i] = files[i]
            <3>1. CASE PushItem(c)
                BY <3>1, PushKeepsLog DEF LogInv
            <3>2. CASE UNCHANGED <<files, stamp>>
                BY <1>3, <3>2 DEF AckedFiles, Present, Exists
            <3>3. CASE DropStorage(c)
                BY <1>3, <3>3 DEF DropStorage
            <3>4. ASSUME NEW i \in Numbers, PurgeFile(c, i) PROVE FALSE
                BY <1>3, <3>4 DEF PurgeFile, PurgeNext, AckedInv
            <3> QED BY <3>1, <3>2, <3>3, <3>4, FileSteps
        <2>2. AckedFiles \in SUBSET Numbers
            BY DEF AckedFiles, Present
        <2>3. AcknowledgedItems' = ItemsOf(files', AckedFiles)
            BY <2>1 DEF AcknowledgedItems, AckedFiles
        <2> QED BY <2>1, <2>2, <2>3, ItemsSame DEF AcknowledgedItems, AckedFiles
    <1> QED BY <1>1, <1>2, <1>3, AckSteps

\* The numbered files and the saved item_count implement the log: the acknowledged items
\* keep their place, those of a batch appear together behind all others, and only a
\* purge or a drop takes them away, whatever crashes, fails and is reopened.
THEOREM LogImplemented ==
    ASSUME NEW c, Clients = {c}
    PROVE  Spec => ImplementsItemLog
    <1>1. Init => Log!Init /\ LogInv
        <2> SUFFICES ASSUME Init PROVE Log!Init /\ LogInv
            OBVIOUS
        <2>1. Present = {} /\ op[c].kind # "push" /\ acked = {}
            BY DEF Init, Present, Exists, Closed
        <2>2. AcknowledgedItems = ItemsOf(files, {})
            BY <2>1 DEF AcknowledgedItems
        <2> QED BY <2>1, <2>2, NoItems DEF Log!Init, LogInv, StampsDistinct, WroteBehind
    <1>2. TypeInv /\ AckedInv /\ LogInv /\ [Next]_vars => LogInv'
        BY StampsStep, WroteStep DEF LogInv
    <1>3. TypeInv /\ AckedInv /\ LogInv /\ [Next]_vars => [Log!Next]_AcknowledgedItems
        BY LogStep
    <1> QED BY <1>1, <1>2, <1>3, AckedKept, TypeInvariant, PTL DEF Spec, ImplementsItemLog, Log!Spec

-------------------------------------------------------------------------------
(* Prefixes, and the pages cut out of a sequence *)

LEMMA PrefixAt ==
    ASSUME NEW S, NEW s \in Seq(S), NEW t \in Seq(S)
    PROVE  IsPrefix(s, t) <=> Len(s) <= Len(t) /\ \A n \in 1 .. Len(s) : s[n] = t[n]
    <1> DEFINE u == SubSeq(t, 1, Len(s))
    <1>1. SubSeq(s, 1, Len(s)) = s
        BY SubSeqFull
    <1>2. ASSUME Len(s) <= Len(t)
          PROVE  /\ u \in Seq(S) /\ Len(u) = Len(s)
                 /\ \A n \in 1 .. Len(s) : u[n] = t[n]
        BY <1>2
    <1>3. ASSUME Len(s) <= Len(t), s = u PROVE \A n \in 1 .. Len(s) : s[n] = t[n]
        <2> HIDE DEF u
        <2> QED BY <1>2, <1>3
    <1>4. ASSUME Len(s) <= Len(t), \A n \in 1 .. Len(s) : s[n] = t[n] PROVE s = u
        <2>1. u \in Seq(S) /\ Len(u) = Len(s) /\ \A n \in 1 .. Len(s) : u[n] = s[n]
            BY <1>2, <1>4
        <2> HIDE DEF u
        <2> QED BY <2>1, SeqEqual
    <1> QED BY <1>1, <1>3, <1>4 DEF IsPrefix

LEMMA PrefixOfPrefix ==
    ASSUME NEW S, NEW s \in Seq(S), NEW t \in Seq(S), NEW u \in Seq(S), IsPrefix(s, t), IsPrefix(t, u)
    PROVE  IsPrefix(s, u)
    <1>1. Len(s) <= Len(t) /\ \A n \in 1 .. Len(s) : s[n] = t[n]
        BY PrefixAt
    <1>2. Len(t) <= Len(u) /\ \A n \in 1 .. Len(t) : t[n] = u[n]
        BY PrefixAt
    <1>3. Len(s) <= Len(u) /\ \A n \in 1 .. Len(s) : s[n] = u[n]
        BY <1>1, <1>2
    <1> QED BY <1>3, PrefixAt

\* A page holds the items from its offset on, if it holds any.
LEMMA SliceAt ==
    ASSUME NEW S, NEW s \in Seq(S), NEW offset \in Nat, NEW limit \in Nat
    PROVE  LET page == Slice(s, offset, limit)
           IN  /\ page \in Seq(S)
               /\ Len(page) # 0 => offset + Len(page) <= Len(s)
               /\ \A n \in 1 .. Len(page) : page[n] = s[offset + n]
    <1> DEFINE first == Min({offset, Len(s)})
               last == Min({offset + limit, Len(s)})
               page == SubSeq(s, first + 1, last)
    <1>1. Len(s) \in Nat
        OBVIOUS
    <1>2. first \in Nat /\ first <= Len(s) /\ (first = offset \/ first = Len(s))
        BY <1>1, MinOfTwo
    <1>3. last \in Nat /\ last <= Len(s) /\ last <= offset + limit
        BY <1>1, MinOfTwo
    <1>4. Slice(s, offset, limit) = page
        BY DEF Slice
    <1> HIDE DEF first, last
    <1>5. page \in Seq(S)
        BY <1>1, <1>2, <1>3
    <1>6. Len(page) = IF first + 1 <= last THEN last - first ELSE 0
        BY <1>1, <1>2, <1>3
    <1>7. \A n \in 1 .. Len(page) : page[n] = s[first + n]
        BY <1>1, <1>2, <1>3, <1>6
    <1> HIDE DEF page
    <1>8. Len(page) # 0 => first = offset
        BY <1>1, <1>2, <1>3, <1>6
    <1>9. Len(page) # 0 => offset + Len(page) <= Len(s)
        BY <1>1, <1>2, <1>3, <1>6, <1>8
    <1>10. \A n \in 1 .. Len(page) : page[n] = s[offset + n]
        BY <1>5, <1>7, <1>8
    <1> QED BY <1>4, <1>5, <1>9, <1>10

\* What was given before it and the page that follows are again the beginning.
LEMMA SliceFollows ==
    ASSUME NEW S, NEW s \in Seq(S), NEW t \in Seq(S), NEW taken \in Seq(S), NEW limit \in Nat,
           IsPrefix(s, t), IsPrefix(taken, t)
    PROVE  IsPrefix(taken \o Slice(s, Len(taken), limit), t)
    <1> DEFINE page == Slice(s, Len(taken), limit)
               all == taken \o page
    <1>1. /\ page \in Seq(S)
          /\ Len(page) # 0 => Len(taken) + Len(page) <= Len(s)
          /\ \A n \in 1 .. Len(page) : page[n] = s[Len(taken) + n]
        BY SliceAt
    <1>2. Len(s) <= Len(t) /\ \A n \in 1 .. Len(s) : s[n] = t[n]
        BY PrefixAt
    <1>3. Len(taken) <= Len(t) /\ \A n \in 1 .. Len(taken) : taken[n] = t[n]
        BY PrefixAt
    <1> HIDE DEF page
    <1>4. /\ all \in Seq(S) /\ Len(all) = Len(taken) + Len(page)
          /\ \A n \in 1 .. Len(taken) : all[n] = taken[n]
          /\ \A n \in Len(taken) + 1 .. Len(taken) + Len(page) : all[n] = page[n - Len(taken)]
        BY <1>1
    <1>5. \A n \in Len(taken) + 1 .. Len(taken) + Len(page) : all[n] = t[n]
        <2> SUFFICES ASSUME NEW n \in Len(taken) + 1 .. Len(taken) + Len(page) PROVE all[n] = t[n]
            OBVIOUS
        <2> DEFINE k == n - Len(taken)
        <2>1. k \in 1 .. Len(page) /\ Len(taken) + k = n
            BY <1>1
        <2>2. all[n] = page[k] /\ page[k] = s[n]
            BY <1>1, <1>4, <2>1
        <2>3. n \in 1 .. Len(s)
            BY <1>1, <2>1
        <2> QED BY <1>2, <2>2, <2>3
    <1>6. Len(all) <= Len(t)
        BY <1>1, <1>2, <1>3, <1>4
    <1>7. \A n \in 1 .. Len(all) : all[n] = t[n]
        BY <1>1, <1>3, <1>4, <1>5
    <1> HIDE DEF all
    <1>8. IsPrefix(all, t)
        BY <1>4, <1>6, <1>7, PrefixAt
    <1> QED BY <1>8 DEF all, page

LEMMA ReverseAt ==
    ASSUME NEW S, NEW s \in Seq(S)
    PROVE  /\ Reverse(s) \in Seq(S)
           /\ Len(Reverse(s)) = Len(s)
           /\ \A n \in 1 .. Len(s) : Reverse(s)[n] = s[Len(s) - n + 1]
    <1>1. Reverse(s) \in Seq(S)
        BY ReverseType
    <1>2. Reverse(s) = [n \in 1 .. Len(s) |-> s[Len(s) - n + 1]]
        BY DEF Reverse
    <1>3. DOMAIN Reverse(s) = 1 .. Len(s)
        BY <1>2
    <1> QED BY <1>1, <1>2, <1>3, LenProperties

-------------------------------------------------------------------------------
(* Items in order *)

LEMMA ItemAt ==
    ASSUME NEW S \in SUBSET Numbers, NEW fs, NEW i \in S
    PROVE  Rank(S, i) \in 1 .. Cardinality(S) /\ ItemsOf(fs, S)[Rank(S, i)] = fs[i]
    <1>1. Rank(S, i) \in 1 .. Cardinality(S) /\ Nth(S, Rank(S, i)) = i
        BY RankType, NthOfRank
    <1> QED BY <1>1 DEF ItemsOf

LEMMA RankBelow ==
    ASSUME NEW T \in SUBSET Numbers, NEW S \in SUBSET T, \A i \in S, j \in T \ S : i < j, NEW i \in S
    PROVE  Rank(T, i) = Rank(S, i)
    <1>1. T \subseteq Nat
        BY NumbersFinite
    <1>2. \A j \in T : j <= i => j \in S
        BY <1>1
    <1>3. UpTo(T, i) = UpTo(S, i)
        BY <1>2 DEF UpTo
    <1> QED BY <1>3, RankCounts

\* One more file behind the others puts its item behind theirs.
LEMMA ItemsAppend ==
    ASSUME NEW S \in SUBSET Numbers, NEW k \in Numbers, \A i \in S : i < k, NEW fs,
           \A i \in S \cup {k} : fs[i] \in Items
    PROVE  ItemsOf(fs, S \cup {k}) = Append(ItemsOf(fs, S), fs[k])
    <1> DEFINE T == S \cup {k}
               N == Cardinality(S)
               s == ItemsOf(fs, S)
               t == ItemsOf(fs, T)
               u == Append(s, fs[k])
    <1>1. k \in Nat /\ k \notin S /\ IsFiniteSet(S) /\ N \in Nat
        BY NumbersFinite
    <1>2. Cardinality(T) = N + 1 /\ T \in SUBSET Numbers
        BY <1>1, FS_AddElement
    <1>3. \A i \in S, j \in T \ S : i < j
        OBVIOUS
    <1>4. (\A n \in 1 .. N : Nth(T, n) = Nth(S, n)) /\ Nth(T, N + 1) = k
        BY <1>1, <1>2, <1>3, NthBelow
    <1>5. /\ s \in Seq(Items) /\ Len(s) = N /\ \A n \in 1 .. N : s[n] = fs[Nth(S, n)]
          /\ t \in Seq(Items) /\ Len(t) = N + 1 /\ \A n \in 1 .. N + 1 : t[n] = fs[Nth(T, n)]
        BY <1>2, ItemsType
    <1>6. u \in Seq(Items) /\ Len(u) = N + 1 /\ u[N + 1] = fs[k] /\ \A n \in 1 .. N : u[n] = s[n]
        <2> HIDE DEF s, N
        <2> QED BY <1>1, <1>5
    <1> HIDE DEF s, t, u, N, T
    <1>7. \A n \in 1 .. N : t[n] = s[n]
        BY <1>1, <1>4, <1>5
    <1>8. t[N + 1] = fs[k]
        BY <1>1, <1>4, <1>5
    <1>9. \A n \in 1 .. Len(t) : t[n] = u[n]
        BY <1>1, <1>5, <1>6, <1>7, <1>8
    <1>10. t = u
        BY <1>5, <1>6, <1>9, SeqEqual
    <1> QED BY <1>10 DEF t, u, s, T

-------------------------------------------------------------------------------
(* IterationExact, for a dataset with one client: the parts of get_data on *)
(* files that stay as they are                                             *)

Here(fs) == {i \in Numbers : fs[i] # Absent}
InOrder(fs) == \A i, j \in Here(fs) : i < j => fs[i].stamp < fs[j].stamp

\* The files an iteration shows, and the stamps of what it still relies on.
Showing(fs, r) == {i \in Here(fs) : ~(r.how.skip /\ fs[i].empty)}
Due(r) == r.before \cup {r.taken[n].stamp : n \in DOMAIN r.taken}
Intact(fs, r) == Due(r) \subseteq StampsIn(fs) /\ InOrder(fs)

\* Of some files, those that were there at the start are given if they are among
\* the last, as many as the offset says.
Given(fs, r, S) ==
    \A i \in S : fs[i].stamp \in r.before /\ Cardinality(S) - Rank(S, i) < r.offset
                    => Contains(r.taken, fs[i])

\* The files up to l were listed, and those up to m are read.
ReadUpTo(fs, r, m, l) ==
    /\ {m, l} \subseteq Here(fs) \cup {0}
    /\ m <= l
    /\ r.todo = {i \in Here(fs) : m < i /\ i <= l}
    /\ r.read = ItemsOf(fs, UpTo(Showing(fs, r), m))
    /\ \A i \in Here(fs) : fs[i].stamp \in Due(r) => i <= l
    /\ r.how.desc => Given(fs, r, UpTo(Showing(fs, r), l))

PageSound(fs, r) ==
    /\ ~r.how.desc => IsPrefix(r.taken, ItemsOf(fs, Showing(fs, r)))
    /\ r.how.desc /\ r.before = StampsIn(fs)
          => IsPrefix(r.taken, Reverse(ItemsOf(fs, Showing(fs, r))))
    /\ r.kind = "list" /\ r.how.desc => Given(fs, r, Showing(fs, r))
    /\ r.kind \in {"read", "touch"} => \E m, l \in Nat : ReadUpTo(fs, r, m, l)
    /\ r.kind = "touch" => r.todo = {}
    /\ r.kind = "done" =>
          \/ r.left = 0
          \/ \A i \in Showing(fs, r) : fs[i].stamp \in r.before => Contains(r.taken, fs[i])

Tallied(r) ==
    /\ r.offset = Len(r.taken)
    /\ r.how.limit # NoLimit => r.left \in Nat /\ r.left + r.offset = r.how.limit

ItemFiles == [Numbers -> Items \cup {Absent}]

LEMMA HereType ==
    ASSUME NEW fs \in ItemFiles, NEW r
    PROVE  /\ Here(fs) \in SUBSET Numbers
           /\ Showing(fs, r) \in SUBSET Here(fs)
           /\ Here(fs) \subseteq Nat
           /\ \A i \in Here(fs) : fs[i] \in Items /\ fs[i].stamp \in StampsIn(fs)
           /\ \A s \in StampsIn(fs) : \E i \in Here(fs) : fs[i].stamp = s
    <1>1. Here(fs) \in SUBSET Numbers /\ Showing(fs, r) \in SUBSET Here(fs)
        BY DEF Here, Showing
    <1>2. Here(fs) \subseteq Nat
        BY <1>1, NumbersFinite
    <1>3. \A i \in Here(fs) : fs[i] \in Items
        BY DEF Here, ItemFiles
    <1>4. StampsIn(fs) = {fs[i].stamp : i \in Here(fs)}
        BY DEF StampsIn, Here
    <1> QED BY <1>1, <1>2, <1>3, <1>4

LEMMA UpToType ==
    ASSUME NEW S \in SUBSET Numbers, NEW i \in Nat
    PROVE  /\ UpTo(S, i) \in SUBSET S
           /\ \A j \in UpTo(S, i), k \in S \ UpTo(S, i) : j < k
    <1>1. S \subseteq Nat
        BY NumbersFinite
    <1> QED BY <1>1 DEF UpTo

\* Numbers have a last one.
LEMMA LastNumber ==
    ASSUME NEW S \in SUBSET Numbers, S # {}
    PROVE  \E l \in S : \A i \in S : i <= l
    <1> DEFINE N == Cardinality(S)
               l == Nth(S, N)
    <1>1. N \in Nat /\ IsFiniteSet(S) /\ S \subseteq Nat /\ N # 0
        BY NumbersFinite, FS_EmptySet
    <1>2. N \in 1 .. N
        BY <1>1
    <1>3. l \in S /\ Rank(S, l) = N
        BY <1>2, NthHasRank
    <1>4. \A i \in S : ~(l < i)
        <2> SUFFICES ASSUME NEW i \in S, l < i PROVE FALSE
            OBVIOUS
        <2>1. Rank(S, l) < Rank(S, i) /\ Rank(S, i) \in 1 .. N
            BY <1>3, RankGrows, RankType
        <2> QED BY <1>1, <1>3, <2>1
    <1> HIDE DEF l
    <1> QED BY <1>1, <1>3, <1>4

LEMMA ContainsBoth ==
    ASSUME NEW s \in Seq(Items), NEW t \in Seq(Items), NEW e
    PROVE  Contains(s, e) \/ Contains(t, e) => Contains(s \o t, e)
    <1>1. ASSUME NEW n \in 1 .. Len(s), s[n] = e PROVE Contains(s \o t, e)
        <2>1. n \in 1 .. Len(s \o t) /\ (s \o t)[n] = e
            BY <1>1
        <2> QED BY <2>1 DEF Contains
    <1>2. ASSUME NEW n \in 1 .. Len(t), t[n] = e PROVE Contains(s \o t, e)
        <2>1. Len(s) + n \in 1 .. Len(s \o t) /\ (s \o t)[Len(s) + n] = e
            BY <1>2
        <2> QED BY <2>1 DEF Contains
    <1> QED BY <1>1, <1>2 DEF Contains

\* The caller has nothing yet.
LEMMA StartIsSound ==
    ASSUME NEW fs \in ItemFiles, NEW how \in Readings
    PROVE  LET r == [kind |-> "list", how |-> how, offset |-> 0, left |-> how.limit, todo |-> {},
                     read |-> << >>, taken |-> << >>, before |-> StampsIn(fs)]
           IN  PageSound(fs, r) /\ Tallied(r)
    <1> DEFINE r == [kind |-> "list", how |-> how, offset |-> 0, left |-> how.limit, todo |-> {},
                     read |-> << >>, taken |-> << >>, before |-> StampsIn(fs)]
               S == Showing(fs, r)
               all == ItemsOf(fs, S)
    <1>1. r.kind = "list" /\ r.how = how /\ r.offset = 0 /\ r.left = how.limit /\ r.taken = << >>
        OBVIOUS
    <1> HIDE DEF r
    <1>2. S \in SUBSET Numbers /\ \A i \in S : fs[i] \in Items
        BY HereType
    <1>3. all \in Seq(Items) /\ Reverse(all) \in Seq(Items)
        BY <1>2, ItemsType, ReverseAt
    <1> HIDE DEF all
    <1>4. << >> \in Seq(Items) /\ Len(<< >>) = 0
        OBVIOUS
    <1>5. ASSUME NEW t \in Seq(Items) PROVE IsPrefix(<< >>, t)
        <2> DEFINE s == << >>
        <2>1. s \in Seq(Items) /\ Len(s) <= Len(t) /\ \A n \in 1 .. Len(s) : s[n] = t[n]
            OBVIOUS
        <2> HIDE DEF s
        <2>2. IsPrefix(s, t)
            BY <2>1, PrefixAt
        <2> QED BY <2>2 DEF s
    <1>6. Given(fs, r, S)
        <2>1. \A i \in S : ~(Cardinality(S) - Rank(S, i) < r.offset)
            BY <1>1, <1>2, RankType, NumbersFinite
        <2> QED BY <2>1 DEF Given
    <1>7. PageSound(fs, r)
        BY <1>1, <1>3, <1>5, <1>6 DEF PageSound, all
    <1>8. how.limit \in Nat \cup {NoLimit}
        BY CallsAssumption DEF CallsAssumption
    <1>9. Tallied(r)
        BY <1>1, <1>4, <1>8 DEF Tallied
    <1> QED BY <1>7, <1>9 DEF r

\* All files there are get listed.
LEMMA ListIsSound ==
    ASSUME NEW fs \in ItemFiles, NEW r, NEW q, r.kind = "list", PageSound(fs, r), Intact(fs, r),
           q.kind = "read", q.todo = Here(fs), q.read = << >>,
           q.how = r.how, q.offset = r.offset, q.taken = r.taken, q.before = r.before
    PROVE  PageSound(fs, q)
    <1> DEFINE S == Showing(fs, r)
    <1>1. S \in SUBSET Here(fs) /\ Here(fs) \in SUBSET Numbers /\ Here(fs) \subseteq Nat
        BY HereType
    <1>2. Showing(fs, q) = S /\ Due(q) = Due(r)
        BY DEF Showing, Due
    <1>3. PICK l \in Here(fs) \cup {0} : \A i \in Here(fs) : i <= l
        BY <1>1, LastNumber
    <1>4. \A i \in Here(fs) : i > 0 /\ ~(i <= 0)
        BY <1>1, BoundsAssumption DEF Numbers, BoundsAssumption
    <1>5. UpTo(S, 0) = {} /\ UpTo(S, l) = S
        BY <1>1, <1>3, <1>4 DEF UpTo
    <1>6. ItemsOf(fs, UpTo(S, 0)) = q.read
        BY <1>5, NoItems
    <1>7. r.how.desc => Given(fs, q, S)
        BY DEF PageSound, Given
    <1>8. q.todo = {i \in Here(fs) : 0 < i /\ i <= l}
        BY <1>3, <1>4
    <1>9. l \in Nat /\ 0 <= l
        BY <1>1, <1>3
    <1> HIDE DEF S
    <1>10. ReadUpTo(fs, q, 0, l)
        BY <1>2, <1>3, <1>5, <1>6, <1>7, <1>8, <1>9 DEF ReadUpTo
    <1>11. \E m, k \in Nat : ReadUpTo(fs, q, m, k)
        BY <1>9, <1>10
    <1> QED BY <1>2, <1>11 DEF PageSound, S

\* The next file is read, or is not shown.
LEMMA ReadIsSound ==
    ASSUME NEW fs \in ItemFiles, NEW r, NEW q, r.kind = "read", PageSound(fs, r), Intact(fs, r),
           NEW i \in r.todo, \A j \in r.todo : i <= j,
           q.kind = "read", q.todo = r.todo \ {i},
           q.read = IF r.how.skip /\ fs[i].empty THEN r.read ELSE Append(r.read, fs[i]),
           q.how = r.how, q.offset = r.offset, q.taken = r.taken, q.before = r.before
    PROVE  PageSound(fs, q)
    <1> DEFINE S == Showing(fs, r)
    <1>1. PICK m \in Nat, l \in Nat : ReadUpTo(fs, r, m, l)
        BY DEF PageSound
    <1>2. S \in SUBSET Here(fs) /\ Here(fs) \in SUBSET Numbers /\ Here(fs) \subseteq Nat
        BY HereType
    <1>3. Showing(fs, q) = S /\ Due(q) = Due(r)
        BY DEF Showing, Due
    <1>4. i \in Here(fs) /\ i \in Nat /\ m < i /\ i <= l /\ r.todo = {j \in Here(fs) : m < j /\ j <= l}
        BY <1>1, <1>2 DEF ReadUpTo
    <1>5. \A j \in Here(fs) : j <= i <=> j <= m \/ j = i
        BY <1>2, <1>4
    <1>6. q.todo = {j \in Here(fs) : i < j /\ j <= l}
        BY <1>2, <1>4
    <1>7. ItemsOf(fs, UpTo(S, i)) = q.read
        <2>1. i \in S <=> ~(r.how.skip /\ fs[i].empty)
            BY <1>4 DEF Showing
        <2>2. r.read = ItemsOf(fs, UpTo(S, m))
            BY <1>1 DEF ReadUpTo
        <2>3. CASE i \notin S
            <3>1. UpTo(S, i) = UpTo(S, m)
                BY <1>2, <1>5, <2>3 DEF UpTo
            <3> QED BY <2>1, <2>2, <2>3, <3>1
        <2>4. CASE i \in S
            <3>1. UpTo(S, i) = UpTo(S, m) \cup {i}
                BY <1>2, <1>5, <2>4 DEF UpTo
            <3>2. UpTo(S, m) \in SUBSET Numbers /\ \A j \in UpTo(S, m) : j < i
                BY <1>2, <1>4 DEF UpTo
            <3>3. \A j \in UpTo(S, m) \cup {i} : fs[j] \in Items
                BY <1>2, <1>4, HereType DEF UpTo
            <3>4. ItemsOf(fs, UpTo(S, m) \cup {i}) = Append(ItemsOf(fs, UpTo(S, m)), fs[i])
                BY <1>2, <1>4, <3>2, <3>3, ItemsAppend
            <3> QED BY <2>1, <2>2, <2>4, <3>1, <3>4
        <2> QED BY <2>3, <2>4
    <1>8. r.how.desc => Given(fs, q, UpTo(S, l))
        BY <1>1 DEF ReadUpTo, Given
    <1> HIDE DEF S
    <1>9. ReadUpTo(fs, q, i, l)
        BY <1>1, <1>3, <1>4, <1>6, <1>7, <1>8 DEF ReadUpTo
    <1>10. \E k, j \in Nat : ReadUpTo(fs, q, k, j)
        BY <1>4, <1>9
    <1> QED BY <1>3, <1>10 DEF PageSound, S

\* An item behind all others leaves the iteration as sound as it was.
LEMMA GrowthIsSound ==
    ASSUME NEW fs \in ItemFiles, NEW gs \in ItemFiles, NEW r \in Pages,
           PageSound(fs, r), Due(r) \subseteq StampsIn(fs),
           NEW k \in Numbers, k \notin Here(fs), \A i \in Here(fs) : i < k,
           \A i \in Numbers : i # k => gs[i] = fs[i],
           gs[k] # Absent, gs[k].stamp \notin StampsIn(fs)
    PROVE  PageSound(gs, r)
    <1> DEFINE S == Showing(fs, r)
               T == Showing(gs, r)
    <1>1. /\ S \in SUBSET Here(fs) /\ Here(fs) \in SUBSET Numbers /\ Here(fs) \subseteq Nat
          /\ T \in SUBSET Here(gs) /\ Here(gs) \in SUBSET Numbers /\ Here(gs) \subseteq Nat
          /\ k \in Nat /\ \A i \in Here(gs) : gs[i] \in Items
        BY HereType, NumbersFinite
    <1>2. Here(gs) = Here(fs) \cup {k} /\ \A i \in Here(fs) : gs[i] = fs[i]
        BY <1>1 DEF Here
    <1>3. S \subseteq T /\ T \subseteq S \cup {k} /\ \A i \in S : gs[i] = fs[i]
        BY <1>2 DEF Showing
    <1>4. \A i \in S, j \in T \ S : i < j
        BY <1>1, <1>3
    <1>5. ItemsOf(gs, S) = ItemsOf(fs, S)
        BY <1>1, <1>3, ItemsSame
    <1>6. gs[k].stamp \in StampsIn(gs) /\ r.before # StampsIn(gs)
        BY <1>2, HereType DEF Due
    <1>7. \A i \in T : i # k => i \in S
        BY <1>3
    <1>8. gs[k].stamp \notin Due(r) /\ gs[k].stamp \notin r.before
        BY DEF Due
    <1>9. ~r.how.desc => IsPrefix(r.taken, ItemsOf(gs, T))
        <2>1. T \in SUBSET Numbers /\ S \in SUBSET T /\ \A i \in T : gs[i] \in Items
            BY <1>1, <1>3
        <2>2. IsPrefix(ItemsOf(gs, S), ItemsOf(gs, T))
            BY <1>4, <2>1, ItemsBehind
        <2>3. ItemsOf(gs, S) \in Seq(Items) /\ ItemsOf(gs, T) \in Seq(Items) /\ r.taken \in Seq(Items)
            BY <2>1, ItemsType DEF Pages
        <2>4. ~r.how.desc => IsPrefix(r.taken, ItemsOf(gs, S))
            BY <1>5 DEF PageSound
        <2> HIDE DEF S, T
        <2> QED BY <2>2, <2>3, <2>4, PrefixOfPrefix
    <1>10. r.kind = "list" /\ r.how.desc => Given(gs, r, T)
        <2> SUFFICES ASSUME r.kind = "list", r.how.desc, NEW i \in T, gs[i].stamp \in r.before,
                            Cardinality(T) - Rank(T, i) < r.offset
                     PROVE  Contains(r.taken, gs[i])
            BY DEF Given
        <2>1. i \in S /\ gs[i] = fs[i]
            BY <1>3, <1>7, <1>8
        <2>2. T \in SUBSET Numbers /\ S \in SUBSET T /\ S \in SUBSET Numbers
            BY <1>1, <1>3
        <2>3. Rank(T, i) = Rank(S, i) /\ Rank(S, i) \in 1 .. Cardinality(S)
            BY <1>4, <2>1, <2>2, RankBelow, RankType
        <2>4. Cardinality(S) <= Cardinality(T) /\ Cardinality(S) \in Nat /\ Cardinality(T) \in Nat
            BY <1>4, <2>2, NthBelow, NumbersFinite
        <2>5. r.offset \in Nat
            BY DEF Pages
        <2>6. Cardinality(S) - Rank(S, i) < r.offset
            BY <2>3, <2>4, <2>5
        <2>7. Given(fs, r, S)
            BY DEF PageSound
        <2> QED BY <2>1, <2>6, <2>7 DEF Given
    <1>11. r.kind \in {"read", "touch"} => \E m, l \in Nat : ReadUpTo(gs, r, m, l)
        <2> SUFFICES ASSUME r.kind \in {"read", "touch"}
                     PROVE  \E m, l \in Nat : ReadUpTo(gs, r, m, l)
            OBVIOUS
        <2>1. PICK m \in Nat, l \in Nat : ReadUpTo(fs, r, m, l)
            BY DEF PageSound
        <2>2. {m, l} \subseteq Here(gs) \cup {0} /\ m < k /\ l < k
            <3>1. k > 0
                BY <1>1, BoundsAssumption DEF Numbers, BoundsAssumption
            <3> QED BY <1>1, <1>2, <2>1, <3>1 DEF ReadUpTo
        <2>3. UpTo(T, m) = UpTo(S, m) /\ UpTo(T, l) = UpTo(S, l)
            BY <1>1, <1>3, <2>2 DEF UpTo
        <2>4. r.todo = {i \in Here(gs) : m < i /\ i <= l}
            BY <1>1, <1>2, <2>1, <2>2 DEF ReadUpTo
        <2>5. UpTo(S, m) \in SUBSET Numbers /\ UpTo(S, l) \subseteq S
              /\ \A i \in UpTo(S, m) : gs[i] = fs[i]
            BY <1>1, <1>3 DEF UpTo
        <2>6. r.read = ItemsOf(gs, UpTo(T, m))
            BY <2>1, <2>3, <2>5, ItemsSame DEF ReadUpTo
        <2>7. \A i \in Here(gs) : gs[i].stamp \in Due(r) => i <= l
            BY <1>2, <1>8, <2>1 DEF ReadUpTo
        <2>8. r.how.desc => Given(gs, r, UpTo(T, l))
            BY <1>3, <2>1, <2>3, <2>5 DEF ReadUpTo, Given
        <2> HIDE DEF S, T
        <2>9. ReadUpTo(gs, r, m, l)
            BY <2>1, <2>2, <2>4, <2>6, <2>7, <2>8 DEF ReadUpTo, T
        <2> QED BY <2>9
    <1>12. r.kind = "done" =>
               \/ r.left = 0
               \/ \A i \in T : gs[i].stamp \in r.before => Contains(r.taken, gs[i])
        BY <1>3, <1>7, <1>8 DEF PageSound
    <1> QED BY <1>6, <1>9, <1>10, <1>11, <1>12 DEF PageSound

\* What a page adds, from the fields of what AfterPage returns.
LEMMA AfterPageFields ==
    ASSUME NEW r \in Pages
    PROVE  LET q == AfterPage(r)
               n == Len(Page(r))
           IN  /\ q.kind = IF HasMore(r, n) THEN "list" ELSE "done"
               /\ q.how = r.how /\ q.before = r.before /\ q.todo = r.todo
               /\ q.offset = r.offset + n
               /\ q.left = IF r.left = NoLimit THEN NoLimit ELSE r.left - n
               /\ q.read = << >>
               /\ q.taken = r.taken \o Page(r)
    BY DEF AfterPage, Pages

\* The page is cut out of what was read, in the order asked for.
LEMMA PageCut ==
    ASSUME NEW r \in Pages
    PROVE  /\ FetchLimit(r) \in Nat
           /\ r.left # NoLimit => FetchLimit(r) <= r.left
           /\ Page(r) = Slice(IF r.how.desc THEN Reverse(r.read) ELSE r.read, r.offset, FetchLimit(r))
           /\ Page(r) \in Seq(Items)
           /\ Len(Page(r)) <= FetchLimit(r)
    <1>1. /\ r.read \in Seq(Items) /\ r.offset \in Nat
          /\ r.left \in Nat \cup {NoLimit} /\ r.how \in Readings
        BY DEF Pages
    <1>2. r.how.size \in Nat
        BY <1>1, CallsAssumption DEF CallsAssumption
    <1>3. FetchLimit(r) \in Nat /\ (r.left # NoLimit => FetchLimit(r) <= r.left)
        BY <1>1, <1>2, SentinelAssumption DEF FetchLimit, SentinelAssumption
    <1>4. (IF r.how.desc THEN Reverse(r.read) ELSE r.read) \in Seq(Items)
        BY <1>1, ReverseType
    <1>5. Page(r) \in Seq(Items) /\ Len(Page(r)) <= FetchLimit(r)
        BY <1>1, <1>3, <1>4, SliceType DEF Page
    <1> QED BY <1>3, <1>5 DEF Page

LEMMA AfterPageTallied ==
    ASSUME NEW r \in Pages, Tallied(r)
    PROVE  Tallied(AfterPage(r))
    <1> DEFINE q == AfterPage(r)
               n == Len(Page(r))
    <1>1. Page(r) \in Seq(Items) /\ n <= FetchLimit(r) /\ FetchLimit(r) \in Nat
          /\ (r.left # NoLimit => FetchLimit(r) <= r.left)
        BY PageCut
    <1>2. /\ q.how = r.how /\ q.offset = r.offset + n
          /\ q.left = IF r.left = NoLimit THEN NoLimit ELSE r.left - n
          /\ q.taken = r.taken \o Page(r)
        BY AfterPageFields
    <1>3. r.taken \in Seq(Items) /\ r.offset \in Nat /\ n \in Nat
        BY <1>1 DEF Pages
    <1>4. Len(q.taken) = Len(r.taken) + n
        BY <1>1, <1>2, <1>3
    <1> HIDE DEF q, n
    <1>5. q.offset = Len(q.taken)
        BY <1>2, <1>4 DEF Tallied
    <1>6. ASSUME r.how.limit # NoLimit PROVE q.left \in Nat /\ q.left + q.offset = r.how.limit
        <2>1. r.left \in Nat /\ r.left + r.offset = r.how.limit /\ r.left # NoLimit
            BY <1>6, SentinelAssumption DEF Tallied, SentinelAssumption
        <2> QED BY <1>1, <1>2, <1>3, <2>1
    <1>7. Tallied(q)
        BY <1>2, <1>5, <1>6 DEF Tallied
    <1> QED BY <1>7 DEF q

\* In descending order: what lies among the last files, as many as were given and are
\* in the page, is given.
LEMMA PageGives ==
    ASSUME NEW fs \in ItemFiles, NEW r \in Pages, Tallied(r), r.how.desc,
           NEW L \in SUBSET Here(fs), r.read = ItemsOf(fs, L), Given(fs, r, L),
           NEW i \in L, fs[i].stamp \in r.before,
           Cardinality(L) - Rank(L, i) < r.offset + Len(Page(r))
    PROVE  Contains(r.taken \o Page(r), fs[i])
    <1> DEFINE N == Cardinality(L)
               d == N - Rank(L, i)
               s == r.read
               t == Reverse(s)
               page == Page(r)
    <1>1. L \in SUBSET Numbers /\ \A j \in L : fs[j] \in Items
        BY HereType
    <1>2. N \in Nat /\ Rank(L, i) \in 1 .. N /\ s[Rank(L, i)] = fs[i] /\ s \in Seq(Items) /\ Len(s) = N
        BY <1>1, ItemsType, ItemAt, NumbersFinite
    <1>3. t \in Seq(Items) /\ Len(t) = N /\ \A n \in 1 .. N : t[n] = s[N - n + 1]
        BY <1>2, ReverseAt
    <1>4. r.offset \in Nat /\ r.taken \in Seq(Items) /\ FetchLimit(r) \in Nat
        BY PageCut DEF Pages
    <1>5. page = Slice(t, r.offset, FetchLimit(r))
        BY PageCut
    <1>6. page \in Seq(Items) /\ \A n \in 1 .. Len(page) : page[n] = t[r.offset + n]
        <2> DEFINE o == r.offset
                   k == FetchLimit(r)
        <2>1. t \in Seq(Items) /\ o \in Nat /\ k \in Nat /\ page = Slice(t, o, k)
            BY <1>3, <1>4, <1>5
        <2> HIDE DEF t, o, k, page
        <2>2. page \in Seq(Items) /\ \A n \in 1 .. Len(page) : page[n] = t[o + n]
            BY <2>1, SliceAt
        <2> QED BY <2>2 DEF o
    <1>7. CASE d < r.offset
        <2>1. Contains(r.taken, fs[i])
            BY <1>7 DEF Given
        <2> QED BY <1>4, <1>6, <2>1, ContainsBoth
    <1>8. CASE ~(d < r.offset)
        <2> DEFINE n == d - r.offset + 1
        <2> HIDE DEF N, s, t, page
        <2>1. d \in Nat /\ d < N
            BY <1>2
        <2>2. n \in 1 .. Len(page) /\ r.offset + n = d + 1 /\ d + 1 \in 1 .. N
            <3>1. Len(page) \in Nat /\ d < r.offset + Len(page)
                BY <1>6 DEF page, N
            <3> DEFINE k == Len(page)
                       o == r.offset
            <3>2. k \in Nat /\ o \in Nat /\ d < o + k /\ ~(d < o)
                BY <1>4, <1>8, <3>1
            <3> HIDE DEF k, o, d
            <3>3. d - o + 1 \in 1 .. k /\ o + (d - o + 1) = d + 1 /\ d + 1 \in 1 .. N
                BY <1>2, <2>1, <3>2
            <3> QED BY <3>3 DEF k, o, d
        <2>3. page[n] = t[d + 1] /\ t[d + 1] = s[N - (d + 1) + 1]
            BY <1>3, <1>6, <2>2
        <2>4. N - (d + 1) + 1 = Rank(L, i)
            BY <1>2
        <2>5. page[n] = fs[i]
            BY <1>2, <2>3, <2>4
        <2>6. Contains(page, fs[i])
            BY <2>2, <2>5 DEF Contains
        <2> QED BY <1>4, <1>6, <2>6, ContainsBoth DEF page
    <1> QED BY <1>7, <1>8

\* In ascending order: a beginning of all items that is at least as long as what was
\* read holds everything that was read.
LEMMA PrefixHolds ==
    ASSUME NEW fs \in ItemFiles, NEW S \in SUBSET Here(fs), NEW L \in SUBSET S,
           \A i \in L, j \in S \ L : i < j,
           NEW taken \in Seq(Items), IsPrefix(taken, ItemsOf(fs, S)),
           Cardinality(L) <= Len(taken), NEW i \in L
    PROVE  Contains(taken, fs[i])
    <1> DEFINE all == ItemsOf(fs, S)
               n == Rank(S, i)
    <1>1. S \in SUBSET Numbers /\ L \in SUBSET Numbers /\ \A j \in S : fs[j] \in Items
        BY HereType
    <1>2. all \in Seq(Items) /\ all[n] = fs[i]
        BY <1>1, ItemsType, ItemAt
    <1>3. n = Rank(L, i) /\ n \in 1 .. Cardinality(L) /\ Cardinality(L) \in Nat
        BY <1>1, RankBelow, RankType, NumbersFinite
    <1> HIDE DEF n
    <1>4. n \in 1 .. Len(taken)
        <2>1. Len(taken) \in Nat
            OBVIOUS
        <2> HIDE DEF all
        <2> QED BY <1>3, <2>1
    <1>5. \A k \in 1 .. Len(taken) : taken[k] = all[k]
        BY <1>2, PrefixAt
    <1>6. taken[n] = fs[i]
        BY <1>2, <1>4, <1>5
    <1> QED BY <1>4, <1>6 DEF Contains

LEMMA AfterPageIsSound ==
    ASSUME NEW fs \in ItemFiles, NEW r \in Pages, r.kind = "touch", Tallied(r), PageSound(fs, r),
           Intact(fs, r)
    PROVE  PageSound(fs, AfterPage(r))
    <1> DEFINE S == Showing(fs, r)
               all == ItemsOf(fs, S)
               q == AfterPage(r)
               page == Page(r)
               n == Len(page)
    <1>1. PICK m \in Nat, l \in Nat : ReadUpTo(fs, r, m, l)
        BY DEF PageSound
    <1> DEFINE L == UpTo(S, l)
    <1>2. S \in SUBSET Here(fs) /\ Here(fs) \in SUBSET Numbers /\ Here(fs) \subseteq Nat
        BY HereType
    <1>3. L \in SUBSET S /\ \A i \in L, j \in S \ L : i < j
        BY <1>2, UpToType
    <1>4. r.read = ItemsOf(fs, L)
        <2>1. r.todo = {} /\ m <= l /\ r.todo = {i \in Here(fs) : m < i /\ i <= l}
            BY <1>1 DEF PageSound, ReadUpTo
        <2>2. UpTo(S, m) = L
            BY <1>2, <2>1 DEF UpTo
        <2> QED BY <1>1, <2>2 DEF ReadUpTo
    <1>5. \A i \in S : fs[i].stamp \in r.before => i \in L
        BY <1>1, <1>2 DEF ReadUpTo, Due, UpTo
    <1>6. /\ q.kind = IF HasMore(r, n) THEN "list" ELSE "done"
          /\ q.how = r.how /\ q.before = r.before
          /\ q.offset = r.offset + n
          /\ q.left = IF r.left = NoLimit THEN NoLimit ELSE r.left - n
          /\ q.taken = r.taken \o page
        BY AfterPageFields
    <1>7. /\ FetchLimit(r) \in Nat /\ page \in Seq(Items)
          /\ n <= FetchLimit(r) /\ (r.left # NoLimit => FetchLimit(r) <= r.left)
          /\ page = Slice(IF r.how.desc THEN Reverse(r.read) ELSE r.read, r.offset, FetchLimit(r))
        BY PageCut
    <1>8. r.offset = Len(r.taken) /\ r.taken \in Seq(Items) /\ n \in Nat /\ r.left \in Nat \cup {NoLimit}
        BY <1>7 DEF Tallied, Pages
    <1>9. all \in Seq(Items) /\ ItemsOf(fs, L) \in Seq(Items) /\ Len(ItemsOf(fs, L)) = Cardinality(L)
          /\ IsPrefix(ItemsOf(fs, L), all)
        <2>1. S \in SUBSET Numbers /\ L \in SUBSET Numbers /\ \A i \in S : fs[i] \in Items
            BY <1>2, <1>3, HereType
        <2>2. \A i \in L : fs[i] \in Items
            BY <1>3, <2>1
        <2> HIDE DEF S, L
        <2>3. IsPrefix(ItemsOf(fs, L), all)
            BY <1>3, <2>1, ItemsBehind
        <2> QED BY <2>1, <2>2, <2>3, ItemsType
    <1>10. Showing(fs, q) = S
        BY <1>6 DEF Showing
    <1>11. ~r.how.desc => IsPrefix(q.taken, all)
        <2> SUFFICES ASSUME ~r.how.desc PROVE IsPrefix(q.taken, all)
            OBVIOUS
        <2> DEFINE s == ItemsOf(fs, L)
                   taken == r.taken
                   k == FetchLimit(r)
        <2>1. s \in Seq(Items) /\ all \in Seq(Items) /\ taken \in Seq(Items) /\ k \in Nat
              /\ IsPrefix(s, all) /\ IsPrefix(taken, all)
            BY <1>7, <1>8, <1>9 DEF PageSound
        <2>2. q.taken = taken \o Slice(s, Len(taken), k)
            BY <1>4, <1>6, <1>7, <1>8
        <2> HIDE DEF s, taken, k, all, q
        <2> QED BY <2>1, <2>2, SliceFollows
    <1>12. r.how.desc /\ r.before = StampsIn(fs) => IsPrefix(q.taken, Reverse(all))
        <2> SUFFICES ASSUME r.how.desc, r.before = StampsIn(fs) PROVE IsPrefix(q.taken, Reverse(all))
            OBVIOUS
        <2>1. L = S
            BY <1>2, <1>3, <1>5, HereType
        <2> DEFINE t == Reverse(all)
                   taken == r.taken
                   k == FetchLimit(r)
        <2>2. t \in Seq(Items) /\ taken \in Seq(Items) /\ k \in Nat /\ IsPrefix(taken, t)
            BY <1>7, <1>8, <1>9, ReverseAt DEF PageSound
        <2>3. q.taken = taken \o Slice(t, Len(taken), k)
            BY <1>4, <1>6, <1>7, <1>8, <2>1
        <2> HIDE DEF t, taken, k, q
        <2>4. IsPrefix(t, t)
            BY <2>2, PrefixAt
        <2>5. IsPrefix(q.taken, t)
            BY <2>2, <2>3, <2>4, SliceFollows
        <2> QED BY <2>5 DEF t
    <1>13. ASSUME r.how.desc, NEW i \in L, fs[i].stamp \in r.before,
                  Cardinality(L) - Rank(L, i) < q.offset
           PROVE  Contains(q.taken, fs[i])
        <2>1. Given(fs, r, L)
            BY <1>1, <1>13 DEF ReadUpTo
        <2>2. L \in SUBSET Here(fs)
            BY <1>2, <1>3
        <2>3. Cardinality(L) - Rank(L, i) < r.offset + Len(Page(r))
            BY <1>6, <1>13
        <2> HIDE DEF L
        <2>4. Contains(r.taken \o Page(r), fs[i])
            BY <1>4, <1>13, <2>1, <2>2, <2>3, PageGives
        <2> QED BY <1>6, <2>4
    <1>14. \A i \in L : /\ Rank(S, i) = Rank(L, i) /\ Rank(L, i) \in 1 .. Cardinality(L)
                        /\ Cardinality(L) \in Nat /\ Cardinality(S) \in Nat
                        /\ Cardinality(L) <= Cardinality(S)
        <2>1. S \in SUBSET Numbers /\ L \in SUBSET S /\ L \in SUBSET Numbers
            BY <1>2, <1>3
        <2> HIDE DEF S, L
        <2> QED BY <1>3, <2>1, RankBelow, RankType, NthBelow, NumbersFinite
    <1>15. r.how.desc => Given(fs, q, S)
        <2> SUFFICES ASSUME r.how.desc, NEW i \in S, fs[i].stamp \in r.before,
                            Cardinality(S) - Rank(S, i) < q.offset
                     PROVE  Contains(q.taken, fs[i])
            BY <1>6 DEF Given
        <2>1. i \in L
            BY <1>5
        <2>2. q.offset \in Nat
            BY <1>6, <1>8
        <2>3. Cardinality(L) - Rank(L, i) < q.offset
            <3> HIDE DEF S, L, q
            <3> QED BY <1>14, <2>1, <2>2
        <2> QED BY <1>13, <2>1, <2>3
    <1>16. ~HasMore(r, n) =>
               \/ q.left = 0
               \/ \A i \in S : fs[i].stamp \in r.before => Contains(q.taken, fs[i])
        <2> SUFFICES ASSUME ~HasMore(r, n), q.left # 0, NEW i \in S, fs[i].stamp \in r.before
                     PROVE  Contains(q.taken, fs[i])
            OBVIOUS
        <2>1. i \in L
            BY <1>5
        <2>2. ~(r.offset + n < Len(r.read))
            <3>1. r.left = NoLimit \/ (r.left \in Nat /\ q.left = r.left - n /\ n <= r.left)
                BY <1>6, <1>7, <1>8
            <3>2. r.left # NoLimit => n < r.left
                BY <1>8, <3>1
            <3> QED BY <3>2 DEF HasMore
        <2>3. q.offset \in Nat /\ Cardinality(L) <= q.offset /\ Cardinality(L) \in Nat
            BY <1>4, <1>6, <1>8, <1>9, <1>14, <2>1, <2>2
        <2>4. CASE r.how.desc
            <3>1. Cardinality(L) - Rank(L, i) < q.offset
                <4> HIDE DEF S, L, q
                <4> QED BY <1>14, <2>1, <2>3
            <3> QED BY <1>13, <2>1, <2>4, <3>1
        <2>5. CASE ~r.how.desc
            <3>1. q.taken \in Seq(Items) /\ Len(q.taken) = q.offset
                BY <1>6, <1>7, <1>8
            <3>2. Cardinality(L) <= Len(q.taken) /\ IsPrefix(q.taken, ItemsOf(fs, S))
                BY <1>11, <2>3, <2>5, <3>1
            <3> HIDE DEF S, L, q
            <3> QED BY <1>2, <1>3, <2>1, <3>1, <3>2, PrefixHolds
        <2> QED BY <2>4, <2>5
    <1> HIDE DEF S, q, n, page
    <1>17. PageSound(fs, q)
        BY <1>6, <1>10, <1>11, <1>12, <1>15, <1>16 DEF PageSound
    <1> QED BY <1>17 DEF q

-------------------------------------------------------------------------------
(* IterationExact: its inductive invariant *)

StampsOf(s) == {s[n].stamp : n \in DOMAIN s}

\* What an iteration knows was pushed before.
Known(r) == \A s \in Due(r) \cup StampsOf(r.read) : s <= stamp

\* The iteration relies on all of these files, or on nothing any more.
Covered(r, S) == 0 \in r.before \/ \A i \in S : Exists(i) => files[i].stamp \in r.before

\* Files that a push may write over and files that a purge removes are among those an
\* iteration relies on; if they are still there, it has been right so far.
IterSound(c) ==
    /\ IsOpen(c)
    /\ Known(reader[c])
    /\ Tallied(reader[c])
    /\ Covered(reader[c], beyond)
    /\ op[c].kind = "purge" => Covered(reader[c], Present)
    /\ Intact(files, reader[c]) => PageSound(files, reader[c])

Stamped == \A i \in Present : files[i].stamp # 0

IterInv == Stamped /\ \A c \in Clients : reader[c].kind # "idle" => IterSound(c)

LEMMA StampedStep ==
    ASSUME TypeInv, Stamped, NEW c, Clients = {c}, [Next]_vars
    PROVE  Stamped'
    <1>1. CASE UNCHANGED files
        BY <1>1 DEF Stamped, Present, Exists
    <1>2. CASE DropStorage(c) \/ \E i \in Numbers : PurgeFile(c, i)
        <2>1. \A i \in Numbers : files'[i] \in {files[i], Absent}
            BY <1>2 DEF DropStorage, PurgeFile, WriteItem, TypeInv, TypeOK
        <2> QED BY <2>1 DEF Stamped, Present, Exists
    <1>3. CASE PushItem(c)
        <2>1. /\ stamp \in Nat /\ stamp' = stamp + 1 /\ files'[count[c] + 1].stamp = stamp'
              /\ \A i \in Numbers : i # count[c] + 1 => files'[i] = files[i]
            BY <1>3, PushedItem
        <2>2. stamp' # 0
            BY <2>1
        <2> QED BY <2>1, <2>2 DEF Stamped, Present, Exists
    <1> QED BY <1>1, <1>2, <1>3, FileSteps

\* An iteration that relies on what was never pushed relies on nothing.
LEMMA NothingOwed ==
    ASSUME NEW fs \in ItemFiles, \A i \in Here(fs) : fs[i].stamp # 0, NEW r, 0 \in r.before
    PROVE  ~Intact(fs, r)
    <1>1. 0 \notin StampsIn(fs)
        BY HereType
    <1> QED BY <1>1 DEF Intact, Due

LEMMA IterStutter ==
    ASSUME IterInv, UNCHANGED <<files, op, reader, stamp, beyond>>
    PROVE  IterInv'
    BY Zenon DEF IterInv, Stamped, IterSound, IsOpen, Known, Covered, Present, Exists

\* A call begins, goes on or ends, and no file and no iteration is touched.
LEMMA IterQuiet ==
    ASSUME TypeInv, IterInv, NEW c, Clients = {c}, NEW call, Go(c, call),
           IsOpen(c) => call.kind \notin {"closed", "create"},
           call.kind = "purge" => op[c].kind = "purge",
           UNCHANGED <<files, reader, stamp, beyond>>
    PROVE  IterInv'
    <1>1. op'[c] = call
        BY DEF TypeInv, TypeOK, Go
    <1>2. ASSUME reader[c].kind # "idle" PROVE IterSound(c)'
        <2>1. IterSound(c)
            BY <1>2 DEF IterInv
        <2>2. Known(reader[c])' /\ Covered(reader[c], beyond)'
              /\ (Covered(reader[c], Present) => Covered(reader[c], Present)')
            BY <2>1 DEF IterSound, Known, Covered, Present, Exists
        <2>3. IsOpen(c)'
            BY <1>1, <2>1 DEF IterSound, IsOpen
        <2> QED BY <1>1, <2>1, <2>2, <2>3 DEF IterSound
    <1>3. Stamped'
        BY DEF IterInv, Stamped, Present, Exists
    <1> QED BY <1>2, <1>3 DEF IterInv

\* A part of get_data.
LEMMA IterReads ==
    ASSUME TypeInv, IterInv, NEW c, Clients = {c}, IsOpen(c), NEW q,
           reader' = [reader EXCEPT ![c] = q], UNCHANGED <<files, op, stamp, beyond>>,
           Known(q), Tallied(q),
           Covered(q, Numbers) \/ (reader[c].kind # "idle" /\ reader[c].before \subseteq q.before),
           Intact(files, q) => PageSound(files, q)
    PROVE  IterInv'
    <1>1. reader'[c] = q
        BY DEF TypeInv, TypeOK
    <1>2. Covered(q, beyond) /\ (op[c].kind = "purge" => Covered(q, Present))
        <2>1. beyond \subseteq Numbers /\ Present \subseteq Numbers
            BY DEF TypeInv, TypeOK, Present
        <2>2. CASE Covered(q, Numbers)
            BY <2>1, <2>2 DEF Covered
        <2>3. CASE reader[c].kind # "idle" /\ reader[c].before \subseteq q.before
            BY <2>3 DEF IterInv, IterSound, Covered
        <2> QED BY <2>2, <2>3
    <1>3. IterSound(c)'
        BY <1>1, <1>2 DEF IterSound, IsOpen, Known, Covered, Present, Exists
    <1>4. Stamped'
        BY DEF IterInv, Stamped, Present, Exists
    <1> QED BY <1>3, <1>4 DEF IterInv

\* The iteration has come to an end, or has none.
LEMMA IterIdle ==
    ASSUME NEW c, Clients = {c}, reader'[c].kind = "idle", Stamped'
    PROVE  IterInv'
    BY DEF IterInv

\* A purge and a drop owe nothing to the iterations they run into.
LEMMA IterOwed ==
    ASSUME TypeInv, TypeInv', IterInv, Stamped', NEW c, Clients = {c},
           OweNothing, IsOpen(c), IsOpen(c)', UNCHANGED stamp
    PROVE  IterInv'
    <1> DEFINE r == reader[c]
               q == reader'[c]
    <1>1. CASE r.kind = "idle"
        <2>1. q.kind = "idle"
            BY <1>1 DEF OweNothing
        <2> QED BY <2>1, IterIdle
    <1>2. CASE r.kind # "idle"
        <2>1. r \in Pages
            BY <1>2, IterationType DEF TypeInv
        <2>2. q = [r EXCEPT !.before = {0}]
            BY <1>2 DEF OweNothing
        <2>3. /\ q.before = {0} /\ q.how = r.how /\ q.offset = r.offset /\ q.left = r.left
              /\ q.taken = r.taken /\ q.read = r.read
            BY <2>1, <2>2 DEF Pages
        <2>4. IterSound(c) /\ stamp \in Nat
            BY <1>2 DEF IterInv, TypeInv, TypeOK
        <2>5. Known(q)
            BY <2>3, <2>4 DEF IterSound, Known, Due
        <2>6. Tallied(q)
            BY <2>3, <2>4 DEF IterSound, Tallied
        <2>7. ~Intact(files', q)
            <3>1. files' \in ItemFiles /\ \A i \in Here(files') : files'[i].stamp # 0
                BY DEF TypeInv, TypeOK, ItemFiles, Here, Stamped, Present, Exists
            <3> QED BY <2>3, <3>1, NothingOwed
        <2>8. 0 \in q.before
            BY <2>3
        <2>9. IterSound(c)'
            BY <2>5, <2>6, <2>7, <2>8 DEF IterSound, Known, Covered
        <2> QED BY <2>9 DEF IterInv
    <1> QED BY <1>1, <1>2

LEMMA FilesTyped ==
    ASSUME TypeInv
    PROVE  files \in ItemFiles /\ Here(files) = Present
    BY DEF TypeInv, TypeOK, ItemFiles, Here, Present, Exists

LEMMA IterStart ==
    ASSUME TypeInv, TypeInv', IterInv, StampsDistinct, Stamped', NEW c, Clients = {c}, Start(c)
    PROVE  IterInv'
    <1>1. CASE Open(c)
        <2>1. ~IsOpen(c) /\ reader' = reader
            BY <1>1 DEF Open, IsOpen, Closed
        <2>2. reader'[c].kind = "idle"
            BY <2>1 DEF IterInv, IterSound
        <2> QED BY <2>2, IterIdle
    <1>2. CASE Push(c)
        <2>1. PICK batch \in Batches : Go(c, [kind |-> "push", batch |-> batch, wrote |-> {}])
            BY <1>2 DEF Push
        <2> QED BY <1>2, <2>1, IterQuiet DEF Push
    <1>3. CASE Purge(c) \/ DropStorage(c)
        <2>1. IsOpen(c) /\ OweNothing /\ stamp' = stamp
            BY <1>3 DEF Purge, DropStorage, MutexFree, IsOpen, Idle
        <2>2. CASE Purge(c)
            <3>1. op'[c].kind = "purge"
                BY <2>2 DEF Purge, Go, TypeInv, TypeOK
            <3> QED BY <2>1, <3>1, IterOwed DEF IsOpen
        <2>3. CASE DropStorage(c)
            <3>1. op'[c].kind = op[c].kind
                <4>1. CASE op[c].kind = "push"
                    <5>1. op'[c] = [op[c] EXCEPT !.wrote = {}] /\ op[c] \in Pushes
                        BY <2>3, <4>1, CallType DEF DropStorage, TypeInv
                    <5> QED BY <5>1 DEF Pushes
                <4>2. CASE op[c].kind # "push"
                    BY <2>3, <4>2 DEF DropStorage
                <4> QED BY <4>1, <4>2
            <3> QED BY <2>1, <3>1, IterOwed DEF IsOpen
        <2> QED BY <1>3, <2>2, <2>3
    <1>4. CASE StartReading(c)
        <2>1. PICK how \in Readings :
                  reader' = [reader EXCEPT ![c] =
                      [kind |-> "list", how |-> how, offset |-> 0, left |-> how.limit, todo |-> {},
                       read |-> << >>, taken |-> << >>, before |-> StampsIn(files)]]
            BY <1>4 DEF StartReading
        <2> DEFINE q == [kind |-> "list", how |-> how, offset |-> 0, left |-> how.limit, todo |-> {},
                         read |-> << >>, taken |-> << >>, before |-> StampsIn(files)]
        <2>2. PageSound(files, q) /\ Tallied(q)
            BY FilesTyped, StartIsSound
        <2>3. q.before = StampsIn(files) /\ q.taken = << >> /\ q.read = << >>
            OBVIOUS
        <2> HIDE DEF q
        <2>4. Known(q)
            BY <2>3, FilesTyped, HereType DEF StampsDistinct, Known, Due, StampsOf
        <2>5. Covered(q, Numbers)
            BY <2>3, FilesTyped, HereType DEF Covered, Present
        <2>6. reader' = [reader EXCEPT ![c] = q]
            BY <2>1 DEF q
        <2> QED BY <1>4, <2>2, <2>4, <2>5, <2>6, IterReads DEF StartReading
    <1> QED BY <1>1, <1>2, <1>3, <1>4 DEF Start

\* A push writes over nothing an iteration relies on, or it no longer relies on anything.
LEMMA IterPushItem ==
    ASSUME TypeInv, TypeInv', IterInv, BeyondInv, StampsDistinct, Stamped',
           NEW c, Clients = {c}, PushItem(c)
    PROVE  IterInv'
    <1> DEFINE r == reader[c]
               k == count[c] + 1
    <1>1. r.kind = "idle" => IterInv'
        <2>1. r.kind = "idle" => reader'[c].kind = "idle"
            BY DEF PushItem
        <2> QED BY <2>1, IterIdle
    <1>2. SUFFICES ASSUME r.kind # "idle" PROVE IterSound(c)'
        BY <1>1 DEF IterInv
    <1>3. r \in Pages /\ IterSound(c)
        BY <1>2, IterationType DEF TypeInv, IterInv
    <1>4. /\ k \in Numbers /\ stamp \in Nat /\ stamp' = stamp + 1
          /\ files'[k] # Absent /\ files'[k] \in Items /\ files'[k].stamp = stamp'
          /\ \A i \in Numbers : i # k => files'[i] = files[i]
        BY PushedItem
    <1>5. /\ op[c].kind = "push" /\ reader' = reader
          /\ beyond' = beyond \ {k} /\ count[c] \in Nat /\ op'[c].kind = "push"
        <2>1. op[c] \in Pushes /\ op[c].kind = "push"
            BY CallType DEF PushItem, TypeInv
        <2>2. op'[c].kind = "push"
            BY <2>1 DEF PushItem, Go, TypeInv, TypeOK, Pushes
        <2> QED BY <2>1, <2>2, BoundsAssumption DEF PushItem, TypeInv, TypeOK, BoundsAssumption
    <1>6. IsOpen(c)'
        BY <1>5 DEF IsOpen
    <1>7. Known(r) /\ (\A s \in Due(r) \cup StampsOf(r.read) : s \in Nat /\ s <= stamp)
        <2>1. \A s \in Due(r) \cup StampsOf(r.read) : s \in Nat
            <3>1. r.before \subseteq Nat /\ r.taken \in Seq(Items) /\ r.read \in Seq(Items)
                BY <1>3 DEF Pages
            <3>2. \A s \in Seq(Items) : \A n \in DOMAIN s : s[n] \in Items
                OBVIOUS
            <3>3. \A item \in Items : item.stamp \in Nat
                BY DEF Items
            <3> QED BY <3>1, <3>2, <3>3 DEF Due, StampsOf
        <2> QED BY <1>3, <2>1 DEF IterSound, Known
    <1>8. Known(r)'
        BY <1>4, <1>5, <1>7 DEF Known
    <1>9. Covered(r, beyond)'
        <2>1. \A i \in Numbers : i # k => (Exists(i)' <=> Exists(i)) /\ files'[i] = files[i]
            BY <1>4 DEF Exists
        <2>2. beyond' \subseteq beyond /\ k \notin beyond' /\ beyond \subseteq Numbers
            BY <1>5 DEF TypeInv, TypeOK
        <2> QED BY <1>3, <1>5, <2>1, <2>2 DEF IterSound, Covered
    <1>10. ASSUME Intact(files', r) PROVE PageSound(files', r)
        <2>1. /\ files \in ItemFiles /\ files' \in ItemFiles /\ Here(files) = Present
              /\ Here(files) \subseteq Nat /\ Here(files') \subseteq Nat /\ k \in Nat
            BY <1>4, FilesTyped, HereType, NumbersFinite DEF TypeInv, TypeOK, ItemFiles
        <2>2. Here(files') = Here(files) \cup {k}
            BY <1>4 DEF Here
        <2>3. \A i \in Here(files) : files[i].stamp \in Nat /\ files[i].stamp <= stamp
            BY <2>1, HereType DEF StampsDistinct, Items
        <2>4. \A i \in Here(files) : ~(k < i)
            <3> SUFFICES ASSUME NEW i \in Here(files), k < i PROVE FALSE
                OBVIOUS
            <3>1. i # k /\ i \in Here(files')
                BY <2>1, <2>2
            <3>2. files'[i] = files[i] /\ files'[k].stamp < files'[i].stamp
                BY <1>4, <1>10, <2>1, <2>2, <3>1 DEF Intact, InOrder, Here
            <3> QED BY <1>4, <2>3, <3>2
        <2>5. 0 \notin r.before
            <3>1. \A i \in Here(files') : files'[i].stamp # 0
                BY DEF Here, Stamped, Present, Exists
            <3> QED BY <1>10, <2>1, <3>1, NothingOwed
        <2>6. Due(r) \subseteq StampsIn(files)
            <3> SUFFICES ASSUME NEW s \in Due(r), s \notin StampsIn(files) PROVE FALSE
                OBVIOUS
            <3>1. PICK i \in Here(files') : files'[i].stamp = s
                BY <1>10, <2>1, HereType DEF Intact
            <3>2. i = k
                BY <1>4, <2>1, <2>2, <3>1, HereType
            <3> QED BY <1>4, <1>7, <3>1, <3>2
        <2>7. k \notin Here(files)
            <3> SUFFICES ASSUME k \in Here(files) PROVE FALSE
                OBVIOUS
            <3>1. k \in beyond
                BY <1>5, <2>1 DEF BeyondInv
            <3>2. files[k].stamp \in r.before
                BY <1>3, <2>1, <2>5, <3>1 DEF IterSound, Covered, Present
            <3>3. PICK i \in Here(files') : files'[i].stamp = files[k].stamp
                BY <1>10, <2>1, <3>2, HereType DEF Intact, Due
            <3>4. i # k
                BY <1>4, <2>3, <3>3
            <3>5. i \in Present /\ files[i].stamp = files[k].stamp
                BY <1>4, <2>1, <2>2, <3>3, <3>4 DEF Present
            <3> QED BY <2>1, <3>4, <3>5 DEF StampsDistinct
        <2>8. \A i \in Here(files) : i < k
            BY <2>1, <2>4, <2>7
        <2>9. \A i \in Here(files) : files'[i] = files[i]
            BY <1>4, <2>7 DEF Here
        <2>10. Intact(files, r)
            BY <1>10, <2>2, <2>6, <2>9 DEF Intact, InOrder
        <2>11. PageSound(files, r)
            BY <1>3, <2>10 DEF IterSound
        <2>12. files'[k].stamp \notin StampsIn(files)
            BY <1>4, <2>1, <2>3, HereType
        <2> HIDE DEF r, k
        <2> QED BY <1>3, <1>4, <2>1, <2>6, <2>7, <2>8, <2>11, <2>12, GrowthIsSound DEF r
    <1> QED BY <1>3, <1>5, <1>6, <1>8, <1>9, <1>10 DEF IterSound

\* Without a file it relies on, an iteration is owed nothing.
LEMMA IterPurgeFile ==
    ASSUME TypeInv, TypeInv', IterInv, StampsDistinct, Stamped', NEW c, Clients = {c},
           NEW i \in Numbers, PurgeFile(c, i)
    PROVE  IterInv'
    <1> DEFINE r == reader[c]
    <1>1. r.kind = "idle" => IterInv'
        <2>1. r.kind = "idle" => reader'[c].kind = "idle"
            BY DEF PurgeFile
        <2> QED BY <2>1, IterIdle
    <1>2. SUFFICES ASSUME r.kind # "idle" PROVE IterSound(c)'
        BY <1>1 DEF IterInv
    <1>3. IterSound(c)
        BY <1>2 DEF IterInv
    <1>4. /\ op[c].kind = "purge" /\ i \in Present /\ files' = [files EXCEPT ![i] = Absent]
          /\ UNCHANGED <<reader, stamp, beyond>>
        BY DEF PurgeFile, PurgeNext, WriteItem, Present
    <1>5. op'[c].kind = "purge"
        <2>1. op[c] \in Purges
            BY <1>4, CallType DEF TypeInv
        <2> QED BY <2>1 DEF PurgeFile, Go, TypeInv, TypeOK, Purges
    <1>6. files'[i] = Absent /\ \A j \in Numbers : j # i => files'[j] = files[j]
        BY <1>4 DEF TypeInv, TypeOK
    <1>7. Known(r)' /\ IsOpen(c)'
        BY <1>3, <1>4, <1>5 DEF IterSound, Known, IsOpen
    <1>8. Covered(r, beyond)' /\ Covered(r, Present)'
        <2>1. \A j \in Numbers : Exists(j)' => Exists(j) /\ files'[j] = files[j]
            BY <1>6 DEF Exists
        <2>2. beyond \subseteq Numbers /\ Present' \subseteq Present /\ Present' \subseteq Numbers
            BY <2>1 DEF TypeInv, TypeOK, Present
        <2> QED BY <1>3, <1>4, <2>1, <2>2 DEF IterSound, Covered
    <1>9. ~Intact(files', r)
        <2>1. files' \in ItemFiles /\ \A j \in Here(files') : files'[j].stamp # 0
            BY DEF TypeInv, TypeOK, ItemFiles, Here, Stamped, Present, Exists
        <2>2. CASE 0 \in r.before
            BY <2>1, <2>2, NothingOwed
        <2>3. CASE 0 \notin r.before
            <3>1. files[i].stamp \in r.before
                BY <1>3, <1>4, <2>3 DEF IterSound, Covered, Present
            <3> SUFFICES ASSUME Intact(files', r) PROVE FALSE
                OBVIOUS
            <3>2. PICK j \in Here(files') : files'[j].stamp = files[i].stamp
                BY <2>1, <3>1, HereType DEF Intact, Due
            <3>3. j # i /\ j \in Present /\ files[j].stamp = files[i].stamp
                BY <1>6, <3>2 DEF Here, Present, Exists
            <3> QED BY <1>4, <3>3 DEF StampsDistinct
        <2> QED BY <2>2, <2>3
    <1> QED BY <1>3, <1>4, <1>5, <1>7, <1>8, <1>9 DEF IterSound

LEMMA IterWriting ==
    ASSUME TypeInv, TypeInv', IterInv, BeyondInv, StampsDistinct, Stamped',
           NEW c, Clients = {c}, Writing(c)
    PROVE  IterInv'
    <1>1. CASE Create(c)
        <2>1. ~IsOpen(c) /\ reader' = reader
            BY <1>1 DEF Create, IsOpen
        <2>2. reader'[c].kind = "idle"
            BY <2>1 DEF IterInv, IterSound
        <2> QED BY <2>2, IterIdle
    <1>2. CASE PushItem(c)
        BY <1>2, IterPushItem
    <1>3. CASE PushDone(c) \/ Persist(c) \/ \E i \in Numbers : PurgeStops(c, i)
        <2>1. Idle.kind = "idle"
            BY DEF Idle
        <2> QED BY <1>3, <2>1, IterQuiet DEF PushDone, Persist, PurgeStops
    <1>4. CASE PurgeDone(c)
        BY <1>4, IterQuiet DEF PurgeDone
    <1>5. CASE \E i \in Numbers : PurgeFile(c, i)
        BY <1>5, IterPurgeFile
    <1> QED BY <1>1, <1>2, <1>3, <1>4, <1>5 DEF Writing

LEMMA IterListFiles ==
    ASSUME TypeInv, IterInv, NEW c, Clients = {c}, ListFiles(c)
    PROVE  IterInv'
    <1> DEFINE r == reader[c]
               q == [r EXCEPT !.kind = "read", !.todo = Present, !.read = << >>]
    <1>1. r.kind = "list" /\ r \in Pages /\ IterSound(c)
        BY IterationType DEF ListFiles, TypeInv, IterInv
    <1>2. reader' = [reader EXCEPT ![c] = q] /\ UNCHANGED <<files, op, stamp, beyond>>
        BY DEF ListFiles
    <1>3. /\ q.kind = "read" /\ q.todo = Present /\ q.read = << >> /\ q.how = r.how
          /\ q.offset = r.offset /\ q.left = r.left /\ q.taken = r.taken /\ q.before = r.before
        BY <1>1 DEF Pages
    <1> HIDE DEF q
    <1>4. Due(q) = Due(r) /\ Tallied(q)
        BY <1>1, <1>3 DEF IterSound, Due, Tallied
    <1>5. Known(q)
        BY <1>1, <1>3, <1>4 DEF IterSound, Known, StampsOf
    <1>6. Intact(files, q) => PageSound(files, q)
        <2> SUFFICES ASSUME Intact(files, q) PROVE PageSound(files, q)
            OBVIOUS
        <2>1. Intact(files, r) /\ PageSound(files, r)
            BY <1>1, <1>4 DEF Intact, IterSound
        <2> HIDE DEF r
        <2> QED BY <1>1, <1>3, <2>1, FilesTyped, ListIsSound
    <1>7. IsOpen(c) /\ r.kind # "idle" /\ r.before \subseteq q.before
        BY <1>1, <1>3 DEF IterSound
    <1> QED BY <1>2, <1>4, <1>5, <1>6, <1>7, IterReads

LEMMA IterReadFile ==
    ASSUME TypeInv, IterInv, StampsDistinct, NEW c, Clients = {c}, NEW i \in Numbers, ReadFile(c, i)
    PROVE  IterInv'
    <1> DEFINE r == reader[c]
               read == IF ~Exists(i) \/ (r.how.skip /\ files[i].empty)
                       THEN r.read ELSE Append(r.read, files[i])
               q == [r EXCEPT !.todo = r.todo \ {i}, !.read = read]
    <1>1. /\ r.kind = "read" /\ i \in r.todo /\ (\A j \in r.todo : i <= j)
          /\ r \in Pages /\ IterSound(c)
        BY IterationType DEF ReadFile, ReadNext, TypeInv, IterInv
    <1>2. reader' = [reader EXCEPT ![c] = q] /\ UNCHANGED <<files, op, stamp, beyond>>
        BY DEF ReadFile
    <1>3. /\ q.kind = "read" /\ q.todo = r.todo \ {i} /\ q.read = read /\ q.how = r.how
          /\ q.offset = r.offset /\ q.left = r.left /\ q.taken = r.taken /\ q.before = r.before
        BY <1>1 DEF Pages
    <1> HIDE DEF q
    <1>4. Due(q) = Due(r) /\ Tallied(q)
        BY <1>1, <1>3 DEF IterSound, Due, Tallied
    <1>5. Known(q)
        <2>1. r.read \in Seq(Items) /\ (Exists(i) => files[i] \in Items)
            BY <1>1 DEF Pages, Exists, TypeInv, TypeOK
        <2>2. Exists(i) => files[i].stamp <= stamp
            BY DEF StampsDistinct, Present
        <2>3. \A s \in StampsOf(read) : s <= stamp
            <3>1. \A s \in StampsOf(r.read) : s <= stamp
                BY <1>1 DEF IterSound, Known
            <3>2. CASE read = r.read
                BY <3>1, <3>2
            <3>3. CASE Exists(i) /\ read = Append(r.read, files[i])
                <4>1. \A n \in DOMAIN read : \/ n \in DOMAIN r.read /\ read[n] = r.read[n]
                                            \/ read[n] = files[i]
                    BY <2>1, <3>3
                <4> QED BY <2>2, <3>1, <3>3, <4>1 DEF StampsOf
            <3> QED BY <3>2, <3>3
        <2> HIDE DEF read
        <2> QED BY <1>1, <1>3, <1>4, <2>3 DEF IterSound, Known
    <1>6. Intact(files, q) => PageSound(files, q)
        <2> SUFFICES ASSUME Intact(files, q) PROVE PageSound(files, q)
            OBVIOUS
        <2>1. Intact(files, r) /\ PageSound(files, r)
            BY <1>1, <1>4 DEF Intact, IterSound
        <2>2. PICK m \in Nat, l \in Nat : ReadUpTo(files, r, m, l)
            BY <1>1, <2>1 DEF PageSound
        <2>3. Exists(i)
            BY <1>1, <2>2 DEF ReadUpTo, Here, Exists
        <2>4. q.read = IF r.how.skip /\ files[i].empty THEN r.read ELSE Append(r.read, files[i])
            BY <1>3, <2>3
        <2> HIDE DEF r
        <2> QED BY <1>1, <1>3, <2>1, <2>4, FilesTyped, ReadIsSound
    <1>7. IsOpen(c) /\ r.kind # "idle" /\ r.before \subseteq q.before
        BY <1>1, <1>3 DEF IterSound
    <1> QED BY <1>2, <1>4, <1>5, <1>6, <1>7, IterReads

LEMMA IterFilesRead ==
    ASSUME TypeInv, IterInv, NEW c, Clients = {c}, FilesRead(c)
    PROVE  IterInv'
    <1> DEFINE r == reader[c]
               q == [r EXCEPT !.kind = "touch"]
    <1>1. r.kind = "read" /\ r.todo = {} /\ r \in Pages /\ IterSound(c)
        BY IterationType DEF FilesRead, TypeInv, IterInv
    <1>2. reader' = [reader EXCEPT ![c] = q] /\ UNCHANGED <<files, op, stamp, beyond>>
        BY DEF FilesRead
    <1>3. /\ q.kind = "touch" /\ q.todo = r.todo /\ q.read = r.read /\ q.how = r.how
          /\ q.offset = r.offset /\ q.left = r.left /\ q.taken = r.taken /\ q.before = r.before
        BY <1>1 DEF Pages
    <1> HIDE DEF q
    <1>4. Due(q) = Due(r) /\ Tallied(q)
        BY <1>1, <1>3 DEF IterSound, Due, Tallied
    <1>5. Known(q)
        BY <1>1, <1>3, <1>4 DEF IterSound, Known
    <1>6. Intact(files, q) => PageSound(files, q)
        <2> SUFFICES ASSUME Intact(files, q) PROVE PageSound(files, q)
            OBVIOUS
        <2>1. PageSound(files, r)
            BY <1>1, <1>4 DEF Intact, IterSound
        <2>2. PICK m \in Nat, l \in Nat : ReadUpTo(files, r, m, l)
            BY <1>1, <2>1 DEF PageSound
        <2>3. Showing(files, q) = Showing(files, r)
            BY <1>3 DEF Showing
        <2>4. ReadUpTo(files, q, m, l)
            BY <1>3, <1>4, <2>2, <2>3 DEF ReadUpTo, Given
        <2>5. \E k, j \in Nat : ReadUpTo(files, q, k, j)
            BY <2>4
        <2> HIDE DEF r
        <2> QED BY <1>1, <1>3, <2>1, <2>3, <2>5 DEF PageSound
    <1>7. IsOpen(c) /\ r.kind # "idle" /\ r.before \subseteq q.before
        BY <1>1, <1>3 DEF IterSound
    <1> QED BY <1>2, <1>4, <1>5, <1>6, <1>7, IterReads

LEMMA IterTouch ==
    ASSUME TypeInv, IterInv, NEW c, Clients = {c}, TouchMetadata(c)
    PROVE  IterInv'
    <1> DEFINE r == reader[c]
               q == AfterPage(r)
    <1>1. r.kind = "touch" /\ r \in Pages /\ IterSound(c)
        BY IterationType DEF TouchMetadata, TypeInv, IterInv
    <1>2. reader' = [reader EXCEPT ![c] = q] /\ UNCHANGED <<files, op, stamp, beyond>>
        BY DEF TouchMetadata
    <1>3. q.how = r.how /\ q.before = r.before /\ q.read = << >> /\ q.taken = r.taken \o Page(r)
        BY <1>1, AfterPageFields
    <1>4. Tallied(q)
        BY <1>1, AfterPageTallied DEF IterSound
    <1>5. r.taken \in Seq(Items) /\ r.read \in Seq(Items) /\ Page(r) \in Seq(Items) /\ r.offset \in Nat
        BY <1>1, PageCut DEF Pages
    <1>6. Due(r) \subseteq Due(q) /\ Due(q) \subseteq Due(r) \cup StampsOf(Page(r))
        <2> DEFINE s == r.taken
                   t == Page(r)
        <2>1. /\ \A n \in DOMAIN s : n \in DOMAIN (s \o t) /\ (s \o t)[n] = s[n]
              /\ \A n \in DOMAIN (s \o t) : \/ n \in DOMAIN s /\ (s \o t)[n] = s[n]
                                            \/ n - Len(s) \in DOMAIN t /\ (s \o t)[n] = t[n - Len(s)]
            <3> DEFINE u == s \o t
            <3>1. s \in Seq(Items) /\ t \in Seq(Items)
                BY <1>5
            <3> HIDE DEF s, t
            <3>2. /\ Len(s) \in Nat /\ Len(t) \in Nat
                  /\ DOMAIN s = 1 .. Len(s) /\ DOMAIN t = 1 .. Len(t) /\ DOMAIN u = 1 .. Len(s) + Len(t)
                  /\ \A n \in 1 .. Len(s) + Len(t) : u[n] = IF n <= Len(s) THEN s[n] ELSE t[n - Len(s)]
                BY <3>1
            <3> HIDE DEF u
            <3>3. /\ \A n \in DOMAIN s : n \in DOMAIN u /\ u[n] = s[n]
                  /\ \A n \in DOMAIN u : \/ n \in DOMAIN s /\ u[n] = s[n]
                                         \/ n - Len(s) \in DOMAIN t /\ u[n] = t[n - Len(s)]
                BY <3>2
            <3> QED BY <3>3 DEF u
        <2>2. q.taken = s \o t /\ q.before = r.before
            BY <1>3
        <2> HIDE DEF t, q
        <2>3. Due(r) \subseteq Due(q)
            BY <2>1, <2>2 DEF Due
        <2>4. Due(q) \subseteq Due(r) \cup StampsOf(t)
            <3> SUFFICES ASSUME NEW n \in DOMAIN (s \o t)
                         PROVE  (s \o t)[n].stamp \in Due(r) \cup StampsOf(t)
                BY <2>2 DEF Due
            <3> QED BY <2>1 DEF Due, StampsOf
        <2> QED BY <2>3, <2>4 DEF t, q
    <1>7. StampsOf(Page(r)) \subseteq StampsOf(r.read)
        <2> DEFINE t == IF r.how.desc THEN Reverse(r.read) ELSE r.read
                   o == r.offset
                   k == FetchLimit(r)
                   page == Page(r)
        <2>1. /\ t \in Seq(Items) /\ Len(t) = Len(r.read)
              /\ \A n \in 1 .. Len(t) : \E j \in 1 .. Len(r.read) : t[n] = r.read[j]
            <3> DEFINE s == r.read
            <3>1. s \in Seq(Items)
                BY <1>5
            <3> HIDE DEF s
            <3>2. Reverse(s) \in Seq(Items) /\ Len(Reverse(s)) = Len(s)
                  /\ \A n \in 1 .. Len(s) : Reverse(s)[n] = s[Len(s) - n + 1]
                BY <3>1, ReverseAt
            <3>3. \A n \in 1 .. Len(s) : Len(s) - n + 1 \in 1 .. Len(s)
                BY <3>1
            <3> QED BY <3>1, <3>2, <3>3 DEF s
        <2>2. o \in Nat /\ k \in Nat /\ page = Slice(t, o, k) /\ page \in Seq(Items)
            BY <1>1, <1>5, PageCut
        <2> HIDE DEF t, o, k, page
        <2>3. /\ Len(page) # 0 => o + Len(page) <= Len(t)
              /\ \A n \in 1 .. Len(page) : page[n] = t[o + n]
            BY <2>1, <2>2, SliceAt
        <2>4. \A n \in 1 .. Len(page) : o + n \in 1 .. Len(t)
            BY <2>1, <2>2, <2>3
        <2>5. \A n \in 1 .. Len(page) : \E j \in 1 .. Len(r.read) : page[n] = r.read[j]
            <3> SUFFICES ASSUME NEW n \in 1 .. Len(page)
                         PROVE  \E j \in 1 .. Len(r.read) : page[n] = r.read[j]
                OBVIOUS
            <3>1. PICK j \in 1 .. Len(r.read) : t[o + n] = r.read[j]
                BY <2>1, <2>4
            <3> QED BY <2>3, <3>1
        <2>6. StampsOf(page) \subseteq StampsOf(r.read)
            <3>1. DOMAIN page = 1 .. Len(page) /\ DOMAIN r.read = 1 .. Len(r.read)
                BY <1>5, <2>2
            <3> QED BY <2>5, <3>1, Zenon DEF StampsOf
        <2> QED BY <2>6 DEF page
    <1> HIDE DEF q
    <1>8. Known(q)
        <2>1. StampsOf(q.read) = {}
            BY <1>3 DEF StampsOf
        <2> QED BY <1>1, <1>6, <1>7, <2>1 DEF IterSound, Known
    <1>9. Intact(files, q) => PageSound(files, q)
        <2> SUFFICES ASSUME Intact(files, q) PROVE PageSound(files, q)
            OBVIOUS
        <2>1. Intact(files, r) /\ PageSound(files, r) /\ Tallied(r)
            BY <1>1, <1>6 DEF Intact, IterSound
        <2> HIDE DEF r
        <2>2. PageSound(files, AfterPage(r))
            BY <1>1, <2>1, FilesTyped, AfterPageIsSound
        <2> QED BY <2>2 DEF q
    <1>10. IsOpen(c) /\ r.kind # "idle" /\ r.before \subseteq q.before
        BY <1>1, <1>3 DEF IterSound
    <1> QED BY <1>2, <1>4, <1>8, <1>9, <1>10, IterReads

LEMMA IterReading ==
    ASSUME TypeInv, IterInv, StampsDistinct, NEW c, Clients = {c}, Reading(c)
    PROVE  IterInv'
    BY IterListFiles, IterReadFile, IterFilesRead, IterTouch DEF Reading

LEMMA IterReadFails ==
    ASSUME TypeInv, IterInv, NEW c, Clients = {c}, NEW i \in Numbers, ReadFails(c, i)
    PROVE  IterInv'
    <1> DEFINE r == reader[c]
               q == [r EXCEPT !.todo = r.todo \ {i}, !.before = {0}]
    <1>1. r.kind = "read" /\ r \in Pages /\ IterSound(c) /\ stamp \in Nat
        BY IterationType DEF ReadFails, ReadNext, TypeInv, TypeOK, IterInv
    <1>2. reader' = [reader EXCEPT ![c] = q] /\ UNCHANGED <<files, op, stamp, beyond>>
        BY DEF ReadFails
    <1>3. /\ q.read = r.read /\ q.how = r.how /\ q.offset = r.offset /\ q.left = r.left
          /\ q.taken = r.taken /\ q.before = {0}
        BY <1>1 DEF Pages
    <1> HIDE DEF q
    <1>4. Known(q) /\ Tallied(q)
        BY <1>1, <1>3 DEF IterSound, Known, Due, Tallied
    <1>5. ~Intact(files, q)
        <2>1. \A j \in Here(files) : files[j].stamp # 0
            BY FilesTyped DEF IterInv, Stamped
        <2> QED BY <1>3, <2>1, FilesTyped, NothingOwed
    <1>6. Covered(q, Numbers) /\ IsOpen(c)
        BY <1>1, <1>3 DEF Covered, IterSound
    <1> QED BY <1>2, <1>4, <1>5, <1>6, IterReads

LEMMA IterFail ==
    ASSUME TypeInv, IterInv, Stamped', NEW c, Clients = {c}, Fail(c)
    PROVE  IterInv'
    <1>1. CASE Crash(c) \/ TouchFails(c)
        <2>1. reader'[c] = Idle
            BY <1>1 DEF Crash, TouchFails, TypeInv, TypeOK
        <2> QED BY <2>1, IterIdle DEF Idle
    <1>2. CASE WriteFails(c)
        <2>1. CASE op[c].kind = "create"
            <3>1. ~IsOpen(c) /\ reader' = reader
                BY <1>2, <2>1 DEF WriteFails, IsOpen
            <3>2. reader'[c].kind = "idle"
                BY <3>1 DEF IterInv, IterSound
            <3> QED BY <3>2, IterIdle
        <2>2. CASE op[c].kind # "create"
            <3>1. Idle.kind = "idle" /\ Go(c, Idle)
                BY <1>2, <2>2 DEF WriteFails, Idle
            <3> QED BY <1>2, <3>1, IterQuiet DEF WriteFails
        <2> QED BY <2>1, <2>2
    <1>3. CASE RemoveFails(c)
        <2>1. Idle.kind = "idle"
            BY DEF Idle
        <2> QED BY <1>3, <2>1, IterQuiet DEF RemoveFails
    <1>4. CASE \E i \in Numbers : ReadFails(c, i)
        BY <1>4, IterReadFails
    <1> QED BY <1>1, <1>2, <1>3, <1>4 DEF Fail

LEMMA IterStep ==
    ASSUME TypeInv, TypeInv', IterInv, BeyondInv, StampsDistinct, NEW c, Clients = {c}, [Next]_vars
    PROVE  IterInv'
    <1>1. Stamped'
        BY StampedStep DEF IterInv
    <1>2. Start(c) => IterInv'
        BY <1>1, IterStart
    <1>3. Writing(c) => IterInv'
        BY <1>1, IterWriting
    <1>4. Reading(c) => IterInv'
        BY IterReading
    <1>5. Fail(c) => IterInv'
        BY <1>1, IterFail
    <1>6. UNCHANGED vars => IterInv'
        BY IterStutter DEF vars
    <1> QED BY <1>2, <1>3, <1>4, <1>5, <1>6 DEF Next

\* An iteration that is done and was not disturbed gave what it was asked for.
LEMMA SoundIsExact ==
    ASSUME TypeInv, IterInv
    PROVE  IterationExact
    <1> SUFFICES ASSUME NEW c \in Clients, reader[c].kind = "done", Undisturbed(reader[c])
                 PROVE  LET r == reader[c] IN
                        /\ ~r.how.desc => IsPrefix(r.taken, Stored(r.how.skip))
                        /\ r.how.desc /\ r.before = StampsIn(files)
                              => IsPrefix(r.taken, Reverse(Stored(r.how.skip)))
                        /\ \/ r.left = 0
                           \/ \A n \in DOMAIN Stored(r.how.skip) :
                                 LET item == Stored(r.how.skip)[n]
                                 IN  item.stamp \in r.before => Contains(r.taken, item)
                        /\ r.how.limit = NoLimit \/ Len(r.taken) <= r.how.limit
        BY DEF IterationExact
    <1> DEFINE r == reader[c]
               S == Showing(files, r)
    <1>1. IterSound(c) /\ r \in Pages
        BY IterationType DEF IterInv, TypeInv
    <1>2. Intact(files, r)
        BY FilesTyped DEF Undisturbed, Intact, Due, InOrder
    <1>3. PageSound(files, r) /\ Tallied(r)
        BY <1>1, <1>2 DEF IterSound
    <1>4. Shown(r.how.skip) = S
        BY FilesTyped DEF Shown, Showing
    <1>5. Stored(r.how.skip) = ItemsOf(files, S)
        BY <1>4 DEF Stored
    <1>6. S \in SUBSET Numbers /\ \A i \in S : files[i] \in Items
        BY FilesTyped, HereType
    <1>7. ASSUME r.left # 0, NEW n \in DOMAIN ItemsOf(files, S), ItemsOf(files, S)[n].stamp \in r.before
          PROVE  Contains(r.taken, ItemsOf(files, S)[n])
        <2>1. n \in 1 .. Cardinality(S)
            BY <1>7 DEF ItemsOf
        <2>2. Nth(S, n) \in S /\ ItemsOf(files, S)[n] = files[Nth(S, n)]
            BY <1>6, <2>1, ItemsType
        <2>3. \A i \in S : files[i].stamp \in r.before => Contains(r.taken, files[i])
            BY <1>3, <1>7 DEF PageSound
        <2> QED BY <1>7, <2>2, <2>3
    <1>8. r.how.limit = NoLimit \/ Len(r.taken) <= r.how.limit
        <2>1. r.offset \in Nat
            BY <1>1 DEF Pages
        <2> QED BY <1>3, <2>1 DEF Tallied
    <1>9. /\ ~r.how.desc => IsPrefix(r.taken, ItemsOf(files, S))
          /\ r.how.desc /\ r.before = StampsIn(files) => IsPrefix(r.taken, Reverse(ItemsOf(files, S)))
        BY <1>3 DEF PageSound
    <1> HIDE DEF S
    <1> QED BY <1>5, <1>7, <1>8, <1>9

\* The only client of a dataset answers every iteration exactly, whatever is pushed while
\* it goes on: in ascending order the first items of the dataset, in descending order the
\* last if none was pushed, and all that were there when it began unless it is limited.
THEOREM IterationsAreExact ==
    ASSUME NEW c, Clients = {c}
    PROVE  Spec => []IterationExact
    <1>1. Init => IterInv /\ StampsDistinct
        BY DEF Init, IterInv, Stamped, StampsDistinct, Present, Exists, Idle
    <1>2. TypeInv /\ TypeInv' /\ BeyondInv /\ IterInv /\ StampsDistinct /\ [Next]_vars
              => IterInv' /\ StampsDistinct'
        BY IterStep, StampsStep
    <1>3. TypeInv /\ IterInv => IterationExact
        BY SoundIsExact
    <1> QED BY <1>1, <1>2, <1>3, TypeInvariant, BeyondKept, PTL DEF Spec

=============================================================================
