-------------------------- MODULE RequestQueueProofs --------------------------
(***************************************************************************)
(* Theorems about RequestQueue for any number of keys and clients, any     *)
(* bounds and any interleaving: the shape of the state, and what the       *)
(* request files on disk never show, a request that is pending and handled *)
(* at once, or a lock further ahead than one lock window.                  *)
(***************************************************************************)
EXTENDS RequestQueue, FiniteSetTheorems, TLAPS

-------------------------------------------------------------------------------
(* Helpers keep their types *)

LEMMA OrdersType ==
    ASSUME NEW n \in Int, NEW m \in Int, NEW t \in Int, NEW f \in BOOLEAN
    PROVE  /\ CalculateOrderNo(f, t) \in Int
           /\ WithSignOf(n, m) \in Int
           /\ LockOrder(n, t, m) \in Int
           /\ ExtendedOrder(n, m) \in Int
    BY DEF CalculateOrderNo, WithSignOf, LockOrder, ExtendedOrder

LEMMA CountType ==
    ASSUME NEW S \in SUBSET Keys
    PROVE  Cardinality(S) \in Nat
    BY KeysAssumption, FS_Subset, FS_CardinalityType

LEMMA KeepType ==
    ASSUME NEW ff \in [Keys -> Nat], NEW S \in SUBSET Keys
    PROVE  Keep(ff, S) \in [Keys -> Nat]
    <1>1. \A k \in Keys : Cardinality({j \in S : ff[j] > 0 /\ ff[j] <= ff[k]}) \in Nat
        BY CountType
    <1> QED BY <1>1 DEF Keep

LEMMA PushType ==
    ASSUME NEW ff \in [Keys -> Nat], NEW k \in Keys
    PROVE  Push(ff, k) \in [Keys -> Nat]
    <1>1. Keep(ff, Keys \ {k}) \in [Keys -> Nat]
        BY KeepType
    <1>2. Cardinality({j \in Keys : Keep(ff, Keys \ {k})[j] > 0}) \in Nat
        BY CountType
    <1>3. 1 + Cardinality({j \in Keys : Keep(ff, Keys \ {k})[j] > 0}) \in Nat
        BY <1>2
    <1> QED BY <1>1, <1>3, Zenon DEF Push

LEMMA InnerWithType ==
    ASSUME NEW m \in Metadata
    PROVE  InnerWith(m) \in InnerStates
    BY DurationsAssumption DEF InnerWith, InnerStates, Orders

LEMMA NewMetadataType == NewMetadata \in Metadata
    BY DEF NewMetadata, Metadata

\* Updates of the fields of a metadata record and of an InnerState.
LEMMA MetadataUpdate ==
    ASSUME NEW m \in Metadata, NEW ff \in [Keys -> Nat], NEW h \in Nat, NEW p \in Nat, NEW t \in Nat
    PROVE  /\ [m EXCEPT !.forefront = ff] \in Metadata
           /\ [m EXCEPT !.handled = h, !.pending = p] \in Metadata
           /\ [m EXCEPT !.total = t, !.handled = h, !.pending = p] \in Metadata
           /\ [m EXCEPT !.forefront = ff, !.total = t] \in Metadata
    BY DEF Metadata

LEMMA InnerUpdate ==
    ASSUME NEW s \in InnerStates, NEW m \in Metadata, NEW r \in [Keys -> Entries \cup {Absent}],
           NEW h \in [Keys -> Orders], NEW n \in Nat
    PROVE  /\ [s EXCEPT !.metadata = m] \in InnerStates
           /\ [s EXCEPT !.requests = r] \in InnerStates
           /\ [s EXCEPT !.held = h] \in InnerStates
           /\ [s EXCEPT !.counter = n] \in InnerStates
           /\ [s EXCEPT !.lockMillis = n] \in InnerStates
           /\ [s EXCEPT !.requests = r, !.metadata = m] \in InnerStates
           /\ [s EXCEPT !.requests = r, !.held = h] \in InnerStates
           /\ [s EXCEPT !.held = h, !.requests = r] \in InnerStates
           /\ [s EXCEPT !.requests = r, !.counter = n, !.metadata = m] \in InnerStates
           /\ [s EXCEPT !.held = h, !.requests = r, !.metadata = m] \in InnerStates
           /\ [s EXCEPT !.held = h, !.requests = r, !.counter = n, !.metadata = m] \in InnerStates
    BY DEF InnerStates

LEMMA CountsType ==
    ASSUME NEW m \in Metadata, NEW order \in Orders, NEW present \in BOOLEAN, NEW handled \in BOOLEAN,
           NEW S \in SUBSET Keys
    PROVE  /\ CountRestored(m, order) \in Metadata
           /\ CountAdded(m, present, handled) \in Metadata
           /\ CountHandled(m) \in Metadata
           /\ Pruned(m, S) \in Metadata
    <1>1. m.handled \in Nat /\ m.pending \in Nat /\ m.total \in Nat /\ m.forefront \in [Keys -> Nat]
        BY DEF Metadata
    <1>2. CountRestored(m, order) \in Metadata
        <2>1. (IF order = None THEN m.handled + 1 ELSE m.handled) \in Nat
            BY <1>1
        <2>2. (IF order = None THEN m.pending ELSE m.pending + 1) \in Nat
            BY <1>1
        <2> QED BY <1>1, <2>1, <2>2, MetadataUpdate, Zenon DEF CountRestored
    <1>3. CountAdded(m, present, handled) \in Metadata
        <2>1. (IF handled THEN m.handled + 1 ELSE m.handled) \in Nat
            BY <1>1
        <2>2. (IF handled THEN m.pending ELSE m.pending + 1) \in Nat
            BY <1>1
        <2>3. m.total + 1 \in Nat
            BY <1>1
        <2> QED BY <2>1, <2>2, <2>3, <1>1, MetadataUpdate, Zenon DEF CountAdded
    <1>4. CountHandled(m) \in Metadata
        <2>1. m.handled + 1 \in Nat
            BY <1>1
        <2>2. (IF m.pending = 0 THEN 0 ELSE m.pending - 1) \in Nat
            BY <1>1
        <2> QED BY <2>1, <2>2, <1>1, MetadataUpdate, Zenon DEF CountHandled
    <1>5. Pruned(m, S) \in Metadata
        <2>1. m.handled + m.pending \in Nat
            BY <1>1
        <2> QED BY <2>1, <1>1, KeepType, MetadataUpdate, Zenon DEF Pruned
    <1> QED BY <1>2, <1>3, <1>4, <1>5

\* What TypeOK says of the client a step is about.
LEMMA ClientType ==
    ASSUME TypeOK, NEW c \in Clients
    PROVE  /\ op[c] \in Calls
           /\ inner[c] \in InnerStates
           /\ inner[c].metadata \in Metadata
           /\ inner[c].metadata.forefront \in [Keys -> Nat]
           /\ inner[c].requests \in [Keys -> Entries \cup {Absent}]
           /\ inner[c].held \in [Keys -> Orders]
           /\ inner[c].counter \in Nat
           /\ inner[c].lockMillis \in Nat
           /\ inner[c].metadata.handled \in Nat
           /\ inner[c].metadata.pending \in Nat
           /\ inner[c].metadata.total \in Nat
    BY DEF TypeOK, InnerStates, Metadata

\* A step that keeps to the vocabulary of Go and Become keeps op and inner typed.
LEMMA GoType ==
    ASSUME TypeOK, NEW c \in Clients, NEW call \in Calls, Go(c, call)
    PROVE  op' \in [Clients -> Calls]
    BY DEF TypeOK, Go

LEMMA BecomeType ==
    ASSUME TypeOK, NEW c \in Clients, NEW state \in InnerStates, Become(c, state)
    PROVE  inner' \in [Clients -> InnerStates]
    BY DEF TypeOK, Become

LEMMA WriteRequestType ==
    ASSUME TypeOK, NEW k \in Keys, NEW file \in Files \cup {Absent}, WriteRequest(k, file)
    PROVE  files' \in [Keys -> Files \cup {Absent}]
    BY DEF TypeOK, WriteRequest

LEMMA WriteMetadataType ==
    ASSUME TypeOK, NEW c \in Clients, WriteMetadata(c)
    PROVE  disk' \in Metadata \cup {Absent}
    BY ClientType DEF WriteMetadata

LEMMA IdleType == Closed \in Calls /\ Idle \in Calls
    BY DEF Closed, Idle, Calls

LEMMA PersistType ==
    ASSUME NEW S \in SUBSET Keys
    PROVE  [kind |-> "persist", done |-> S] \in Calls
    BY DEF Calls

-------------------------------------------------------------------------------
(* open_with_clock and rebuild_index *)

LEMMA OpenStartType ==
    ASSUME TypeOK, NEW c \in Clients, Open(c)
    PROVE  TypeOK'
    <1>1. PICK sole \in AccessModes :
              Go(c, [kind |-> IF disk = Absent THEN "create" ELSE "list", sole |-> sole])
        BY DEF Open
    <1>2. [kind |-> IF disk = Absent THEN "create" ELSE "list", sole |-> sole] \in Calls
        BY CallsAssumption DEF Calls
    <1>3. op' \in [Clients -> Calls]
        BY <1>1, <1>2, GoType
    <1>4. (IF disk = Absent THEN NewMetadata ELSE disk) \in Metadata
        BY NewMetadataType DEF TypeOK
    <1>5. inner' \in [Clients -> InnerStates]
        BY <1>4, InnerWithType, BecomeType DEF Open
    <1> QED BY <1>3, <1>5 DEF Open, TypeOK

LEMMA CreateType ==
    ASSUME TypeOK, NEW c \in Clients, Create(c)
    PROVE  TypeOK'
    <1>1. [kind |-> "list", sole |-> op[c].sole] \in Calls
        BY ClientType DEF Create, Calls
    <1>2. op' \in [Clients -> Calls]
        BY <1>1, GoType DEF Create
    <1> QED BY <1>2, WriteMetadataType DEF Create, TypeOK

LEMMA ListType ==
    ASSUME TypeOK, NEW c \in Clients, List(c)
    PROVE  TypeOK'
    <1>1. [kind |-> "clear", sole |-> op[c].sole, todo |-> {k \in Keys : Exists(k)}] \in Calls
        BY ClientType DEF List, Calls
    <1>2. op' \in [Clients -> Calls]
        BY <1>1, GoType DEF List
    <1> QED BY <1>2 DEF List, TypeOK

LEMMA ClearType ==
    ASSUME TypeOK, NEW c \in Clients, Clear(c)
    PROVE  TypeOK'
    <1>1. [kind |-> "rebuild", sole |-> op[c].sole, todo |-> op[c].todo, at |-> now] \in Calls
        BY ClientType DEF Clear, Calls, TypeOK
    <1>2. op' \in [Clients -> Calls]
        BY <1>1, GoType DEF Clear
    <1>3. [NewMetadata EXCEPT !.forefront = inner[c].metadata.forefront] \in Metadata
        BY ClientType, NewMetadataType DEF Metadata
    <1>4. inner' \in [Clients -> InnerStates]
        BY <1>3, InnerWithType, BecomeType DEF Clear
    <1> QED BY <1>2, <1>4 DEF Clear, TypeOK

\* One index entry set.
LEMMA EntryType ==
    ASSUME NEW r \in [Keys -> Entries \cup {Absent}], NEW k \in Keys, NEW order \in Orders, NEW n \in Nat
    PROVE  [r EXCEPT ![k] = [order |-> order, seq |-> n]] \in [Keys -> Entries \cup {Absent}]
    BY DEF Entries

LEMMA RestoreType ==
    ASSUME TypeOK, NEW c \in Clients, NEW k \in Keys, NEW order \in Orders, Restore(c, k, order)
    PROVE  inner' \in [Clients -> InnerStates]
    <1> DEFINE s == inner[c]
               r == [s.requests EXCEPT ![k] = [order |-> order, seq |-> s.counter]]
    <1>1. s \in InnerStates /\ s.counter \in Nat /\ s.held \in [Keys -> Orders]
        BY ClientType
    <1>2. r \in [Keys -> Entries \cup {Absent}]
        BY ClientType, EntryType
    <1>3. CountRestored(s.metadata, order) \in Metadata
        BY ClientType, CountsType
    <1>4. s.counter + 1 \in Nat
        BY <1>1
    <1>5. [s EXCEPT !.requests = r, !.counter = s.counter + 1,
                    !.metadata = CountRestored(s.metadata, order)] \in InnerStates
        <2> HIDE DEF s, r
        <2> QED BY <1>1, <1>2, <1>3, <1>4, InnerUpdate, Zenon
    <1> QED BY <1>5, BecomeType, Zenon DEF Restore

LEMMA RestoredOrderType ==
    ASSUME NEW file \in Files, NEW at \in Nat
    PROVE  RestoredOrder(file, at) \in Orders
    BY DEF RestoredOrder, Files, Orders

\* A call that works through a set of keys drops one of them.
LEMMA DropKeyType ==
    ASSUME TypeOK, NEW c \in Clients, NEW k \in Keys, op[c].kind \in {"rebuild", "fetch", "purge"},
           Go(c, [op[c] EXCEPT !.todo = @ \ {k}])
    PROVE  op' \in [Clients -> Calls]
    <1>1. [op[c] EXCEPT !.todo = @ \ {k}] \in Calls
        BY ClientType DEF Calls
    <1> QED BY <1>1, GoType

LEMMA RebuildType ==
    ASSUME TypeOK, NEW c \in Clients, NEW k \in Keys, Rebuild(c, k)
    PROVE  TypeOK'
    <1> DEFINE order == RestoredOrder(files[k], op[c].at)
               todo == op[c].todo \ {k}
               rewrite == [kind |-> "rewrite", sole |-> op[c].sole, todo |-> todo, at |-> op[c].at,
                           key |-> k, order |-> WithSignOf(order, op[c].at)]
    <1>1. op[c].sole \in BOOLEAN /\ op[c].todo \in SUBSET Keys /\ op[c].at \in Nat
        BY ClientType DEF Rebuild, RebuildNext, Calls
    <1>2. order \in Orders
        BY <1>1, RestoredOrderType DEF Rebuild, Exists, TypeOK
    <1>3. CASE MustReclaim(op[c].sole, order, op[c].at)
        <2>1. order \in Int
            BY <1>2, <1>3 DEF MustReclaim, Orders
        <2>2. WithSignOf(order, op[c].at) \in Int
            BY <2>1, <1>1 DEF WithSignOf
        <2>3. rewrite \in Calls
            BY <2>2, <1>1 DEF Calls
        <2>4. op' \in [Clients -> Calls]
            BY <2>3, <1>3, GoType DEF Rebuild
        <2> QED BY <2>4, <1>3 DEF Rebuild, TypeOK
    <1>4. CASE ~MustReclaim(op[c].sole, order, op[c].at)
        <2>1. op' \in [Clients -> Calls]
            BY <1>4, DropKeyType DEF Rebuild, RebuildNext, Go
        <2>2. inner' \in [Clients -> InnerStates]
            BY <1>2, <1>4, RestoreType DEF Rebuild
        <2> QED BY <2>1, <2>2 DEF Rebuild, TypeOK
    <1> QED BY <1>3, <1>4

LEMMA RebuildSkipType ==
    ASSUME TypeOK, NEW c \in Clients, NEW k \in Keys, RebuildSkip(c, k)
    PROVE  TypeOK'
    <1>1. op' \in [Clients -> Calls]
        BY DropKeyType DEF RebuildSkip, RebuildNext
    <1> QED BY <1>1 DEF RebuildSkip, TypeOK

LEMMA AfterRewriteType ==
    ASSUME TypeOK, NEW c \in Clients, op[c].kind = "rewrite"
    PROVE  /\ AfterRewrite(c) \in Calls
           /\ op[c].key \in Keys
           /\ op[c].order \in Int
    BY ClientType DEF AfterRewrite, Calls

LEMMA RewriteType ==
    ASSUME TypeOK, NEW c \in Clients, Rewrite(c)
    PROVE  TypeOK'
    <1>1. op' \in [Clients -> Calls]
        BY AfterRewriteType, GoType DEF Rewrite
    <1>2. inner' \in [Clients -> InnerStates]
        BY AfterRewriteType, RestoreType DEF Rewrite, Orders
    <1>3. [order |-> op[c].order, handledAt |-> FALSE] \in Files
        BY AfterRewriteType DEF Rewrite, Files, Orders
    <1>4. files' \in [Keys -> Files \cup {Absent}]
        BY <1>3, AfterRewriteType, WriteRequestType DEF Rewrite
    <1> QED BY <1>1, <1>2, <1>4 DEF Rewrite, TypeOK

LEMMA RebuildDoneType ==
    ASSUME TypeOK, NEW c \in Clients, RebuildDone(c)
    PROVE  TypeOK'
    <1> DEFINE S == {k \in Keys : Indexed(c, k) /\ ~IndexHandled(c, k)}
    <1>1. Pruned(inner[c].metadata, S) \in Metadata
        BY ClientType, CountsType, S \in SUBSET Keys, None \in Orders DEF Orders
    <1>2. [inner[c] EXCEPT !.metadata = Pruned(@, S)] \in InnerStates
        BY <1>1, ClientType, InnerUpdate
    <1>3. inner' \in [Clients -> InnerStates]
        BY <1>2, BecomeType DEF RebuildDone
    <1>4. [kind |-> "ready", sole |-> op[c].sole] \in Calls
        BY ClientType DEF RebuildDone, Calls
    <1>5. op' \in [Clients -> Calls]
        BY <1>4, GoType DEF RebuildDone
    <1> QED BY <1>3, <1>5 DEF RebuildDone, TypeOK

LEMMA ReadyType ==
    ASSUME TypeOK, NEW c \in Clients, Ready(c)
    PROVE  TypeOK'
    <1>1. op' \in [Clients -> Calls]
        BY IdleType, GoType DEF Ready
    <1> QED BY <1>1, WriteMetadataType DEF Ready, TypeOK

-------------------------------------------------------------------------------
(* add_batch_of_requests *)

LEMMA AddBatchType ==
    ASSUME TypeOK, NEW c \in Clients, AddBatch(c)
    PROVE  TypeOK'
    <1>1. PICK call \in Adds : Go(c, [kind |-> "add", batch |-> call.batch, forefront |-> call.forefront])
        BY DEF AddBatch
    <1>2. call.batch \in Seq(Items) /\ call.forefront \in BOOLEAN
        BY CallsAssumption
    <1>3. [kind |-> "add", batch |-> call.batch, forefront |-> call.forefront] \in Calls
        BY <1>2 DEF Calls
    <1>4. op' \in [Clients -> Calls]
        BY <1>1, <1>3, GoType
    <1> QED BY <1>4 DEF AddBatch, TypeOK

\* The fields of an add call that has items left.
LEMMA AddCallType ==
    ASSUME TypeOK, NEW c \in Clients, op[c].kind = "add"
    PROVE  /\ op[c].batch \in Seq(Items)
           /\ op[c].forefront \in BOOLEAN
           /\ op[c].batch # << >> => /\ Head(op[c].batch) \in Items
                                     /\ Tail(op[c].batch) \in Seq(Items)
    <1>1. op[c].batch \in Seq(Items) /\ op[c].forefront \in BOOLEAN
        BY ClientType DEF Calls
    <1> HIDE DEF Items
    <1> QED BY <1>1

LEMMA AddEndType ==
    ASSUME TypeOK, NEW c \in Clients, AddMalformed(c) \/ AddDone(c)
    PROVE  TypeOK'
    <1>1. op' \in [Clients -> Calls]
        BY IdleType, PersistType, GoType DEF AddMalformed, AddDone
    <1> QED BY <1>1 DEF AddMalformed, AddDone, TypeOK

LEMMA AddSkipType ==
    ASSUME TypeOK, NEW c \in Clients, AddSkip(c)
    PROVE  TypeOK'
    <1>1. op[c] \in [kind : {"add"}, batch : Seq(Items), forefront : BOOLEAN]
        BY ClientType DEF AddSkip, Calls
    <1>2. Tail(op[c].batch) \in Seq(Items)
        BY AddCallType DEF AddSkip
    <1>3. [op[c] EXCEPT !.batch = Tail(@)] \in Calls
        BY <1>1, <1>2 DEF Calls
    <1>4. op' \in [Clients -> Calls]
        BY <1>3, GoType DEF AddSkip
    <1> QED BY <1>4 DEF AddSkip, TypeOK

LEMMA AddItemType ==
    ASSUME TypeOK, NEW c \in Clients, AddItem(c)
    PROVE  TypeOK'
    <1> DEFINE item == Head(op[c].batch)
               order == AddedOrder(item, op[c].forefront, now)
               call == [kind |-> "addWrite", key |-> item.key, handledAt |-> item.handledAt,
                        order |-> order, seq |-> inner[c].counter,
                        batch |-> Tail(op[c].batch), forefront |-> op[c].forefront]
    <1>1. /\ item \in Items
          /\ Tail(op[c].batch) \in Seq(Items)
          /\ op[c].forefront \in BOOLEAN
        BY AddCallType DEF AddItem
    <1>2. item.key \in Keys /\ item.handledAt \in BOOLEAN
        BY <1>1 DEF AddItem, Items
    <1>3. order \in Orders
        BY <1>1 DEF AddedOrder, CalculateOrderNo, Orders, TypeOK
    <1>4. inner[c].counter \in Nat /\ inner[c] \in InnerStates
        BY ClientType
    <1>5. call \in Calls
        <2> HIDE DEF item, order
        <2> QED BY <1>1, <1>2, <1>3, <1>4 DEF Calls
    <1>6. op' \in [Clients -> Calls]
        BY <1>5, GoType, Zenon DEF AddItem
    <1>7. [inner[c] EXCEPT !.counter = @ + 1] \in InnerStates
        BY <1>4 DEF InnerStates
    <1>8. inner' \in [Clients -> InnerStates]
        BY <1>7, BecomeType DEF AddItem
    <1> QED BY <1>6, <1>8 DEF AddItem, TypeOK

LEMMA AddWriteType ==
    ASSUME TypeOK, NEW c \in Clients, AddWrite(c)
    PROVE  TypeOK'
    <1> DEFINE k == op[c].key
               m == CountAdded(MovedForward(c, k), Indexed(c, k), op[c].handledAt)
               r == [inner[c].requests EXCEPT ![k] = [order |-> op[c].order, seq |-> op[c].seq]]
    <1>1. op[c] \in [kind : {"addWrite"}, key : Keys, handledAt : BOOLEAN, order : Orders, seq : Nat,
                     batch : Seq(Items), forefront : BOOLEAN]
        BY ClientType DEF AddWrite, Calls
    <1>2. /\ inner[c] \in InnerStates
          /\ inner[c].metadata \in Metadata
          /\ inner[c].metadata.forefront \in [Keys -> Nat]
          /\ inner[c].requests \in [Keys -> Entries \cup {Absent}]
          /\ inner[c].held \in [Keys -> Orders]
        BY ClientType
    <1>3. MovedForward(c, k) \in Metadata
        <2>1. Push(inner[c].metadata.forefront, k) \in [Keys -> Nat]
            BY <1>1, <1>2, PushType
        <2>2. [inner[c].metadata EXCEPT !.forefront = Push(@, k)] \in Metadata
            BY <1>2, <2>1 DEF Metadata
        <2> QED BY <1>2, <2>2 DEF MovedForward
    <1>4. m \in Metadata
        <2>1. Indexed(c, k) \in BOOLEAN /\ op[c].handledAt \in BOOLEAN
            BY <1>1 DEF Indexed
        <2> QED BY <1>3, <2>1, CountsType, None \in Orders, Zenon DEF Orders
    <1>5. r \in [Keys -> Entries \cup {Absent}]
        BY <1>1, <1>2, EntryType
    <1>6. [inner[c] EXCEPT !.requests = r, !.metadata = m] \in InnerStates
        <2> HIDE DEF m, r
        <2> QED BY <1>2, <1>4, <1>5, 0 \in Nat, InnerUpdate, Zenon
    <1>7. inner' \in [Clients -> InnerStates]
        BY <1>6, BecomeType, Zenon DEF AddWrite
    <1>8. [order |-> op[c].order, handledAt |-> op[c].handledAt] \in Files
        BY <1>1 DEF Files
    <1>9. files' \in [Keys -> Files \cup {Absent}]
        BY <1>1, <1>8, WriteRequestType DEF AddWrite
    <1>10. [kind |-> "add", batch |-> op[c].batch, forefront |-> op[c].forefront] \in Calls
        BY <1>1 DEF Calls
    <1>11. op' \in [Clients -> Calls]
        BY <1>10, GoType DEF AddWrite
    <1> QED BY <1>7, <1>9, <1>11 DEF AddWrite, TypeOK

-------------------------------------------------------------------------------
(* fetch_next_request *)

LEMMA ResyncType ==
    ASSUME TypeOK, NEW c \in Clients, NEW k \in Keys, NEW order \in Orders
    PROVE  Resync(c, k, order) \in [Keys -> Entries \cup {Absent}]
    <1>1. inner[c].requests \in [Keys -> Entries \cup {Absent}]
        BY ClientType
    <1> QED BY <1>1 DEF Resync, Indexed, Entries

LEMMA ResyncStateType ==
    ASSUME TypeOK, NEW c \in Clients, NEW k \in Keys, NEW order \in Orders
    PROVE  [inner[c] EXCEPT !.requests = Resync(c, k, order)] \in InnerStates
    <1>1. inner[c] \in InnerStates
        BY ClientType
    <1> QED BY <1>1, ResyncType DEF InnerStates

LEMMA ForgetType ==
    ASSUME TypeOK, NEW c \in Clients, NEW k \in Keys
    PROVE  [inner[c] EXCEPT !.requests[k] = Absent] \in InnerStates
    <1>1. inner[c] \in InnerStates
        BY ClientType
    <1> QED BY <1>1 DEF InnerStates

LEMMA FetchBeginType ==
    ASSUME TypeOK, NEW c \in Clients, Fetch(c)
    PROVE  TypeOK'
    <1>1. [kind |-> "fetch", todo |-> Candidates(c, now), at |-> now] \in Calls
        BY DEF Calls, Candidates, TypeOK
    <1>2. op' \in [Clients -> Calls]
        BY <1>1, GoType DEF Fetch
    <1> QED BY <1>2 DEF Fetch, TypeOK

LEMMA FetchVanishedType ==
    ASSUME TypeOK, NEW c \in Clients, NEW k \in Keys, FetchVanished(c, k) \/ FetchReadFails(c, k)
    PROVE  TypeOK'
    <1>1. op' \in [Clients -> Calls]
        BY DropKeyType DEF FetchVanished, FetchReadFails, FetchNext
    <1>2. inner' \in [Clients -> InnerStates]
        BY ForgetType, BecomeType DEF FetchVanished, FetchReadFails
    <1>3. faults' \in Nat
        BY DEF FetchVanished, FetchReadFails, TypeOK
    <1> QED BY <1>1, <1>2, <1>3 DEF FetchVanished, FetchReadFails, TypeOK

LEMMA FetchSkipType ==
    ASSUME TypeOK, NEW c \in Clients, NEW k \in Keys, FetchSkip(c, k)
    PROVE  TypeOK'
    <1>1. op' \in [Clients -> Calls]
        BY DropKeyType DEF FetchSkip, FetchNext
    <1>2. files[k].order \in Orders
        BY DEF FetchSkip, Exists, TypeOK, Files
    <1>3. inner' \in [Clients -> InnerStates]
        BY <1>2, ResyncStateType, BecomeType DEF FetchSkip
    <1> QED BY <1>1, <1>3 DEF FetchSkip, TypeOK

LEMMA FetchFreeType ==
    ASSUME TypeOK, NEW c \in Clients, NEW k \in Keys, FetchFree(c, k)
    PROVE  TypeOK'
    <1> DEFINE order == LockOrder(files[k].order, op[c].at, inner[c].lockMillis)
    <1>1. files[k] \in Files /\ files[k].order \in Int
        BY DEF FetchFree, Exists, MustSkip, TypeOK, Files, Orders
    <1>2. op[c].at \in Nat /\ inner[c].lockMillis \in Nat
        BY ClientType DEF FetchFree, FetchNext, Calls
    <1>3. order \in Int
        BY <1>1, <1>2 DEF LockOrder, WithSignOf
    <1>4. [kind |-> "lock", key |-> k, handledAt |-> files[k].handledAt, order |-> order] \in Calls
        <2> HIDE DEF order
        <2> QED BY <1>1, <1>3 DEF Calls, Files
    <1>5. op' \in [Clients -> Calls]
        BY <1>4, GoType DEF FetchFree
    <1> QED BY <1>5 DEF FetchFree, TypeOK

LEMMA FetchNothingType ==
    ASSUME TypeOK, NEW c \in Clients, FetchNothing(c)
    PROVE  TypeOK'
    <1>1. op' \in [Clients -> Calls]
        BY IdleType, GoType DEF FetchNothing
    <1> QED BY <1>1 DEF FetchNothing, TypeOK

LEMMA FetchLockType ==
    ASSUME TypeOK, NEW c \in Clients, FetchLock(c)
    PROVE  TypeOK'
    <1>1. op[c].key \in Keys /\ op[c].order \in Int /\ op[c].handledAt \in BOOLEAN
        BY ClientType DEF FetchLock, Calls
    <1>2. [order |-> op[c].order, handledAt |-> op[c].handledAt] \in Files
        BY <1>1 DEF Files, Orders
    <1>3. files' \in [Keys -> Files \cup {Absent}]
        BY <1>1, <1>2, WriteRequestType DEF FetchLock
    <1>4. inner' \in [Clients -> InnerStates]
        BY <1>1, ResyncStateType, BecomeType DEF FetchLock, Orders
    <1>5. [kind |-> "deliver", key |-> op[c].key, order |-> op[c].order] \in Calls
        BY <1>1 DEF Calls
    <1>6. op' \in [Clients -> Calls]
        BY <1>5, GoType DEF FetchLock
    <1> QED BY <1>3, <1>4, <1>6 DEF FetchLock, TypeOK

LEMMA HoldType ==
    ASSUME TypeOK, NEW c \in Clients, NEW k \in Keys, NEW order \in Orders
    PROVE  [inner[c] EXCEPT !.held[k] = order] \in InnerStates
    <1>1. inner[c] \in InnerStates
        BY ClientType
    <1> QED BY <1>1 DEF InnerStates

LEMMA DeliverType ==
    ASSUME TypeOK, NEW c \in Clients, Deliver(c)
    PROVE  TypeOK'
    <1>1. op[c].key \in Keys /\ op[c].order \in Int
        BY ClientType DEF Deliver, Calls
    <1>2. inner' \in [Clients -> InnerStates]
        BY <1>1, HoldType, BecomeType DEF Deliver, Orders
    <1>3. op' \in [Clients -> Calls]
        BY IdleType, GoType DEF Deliver
    <1>4. working' \in [Clients -> SUBSET Keys]
        BY <1>1 DEF Deliver, TypeOK
    <1> QED BY <1>2, <1>3, <1>4, WriteMetadataType DEF Deliver, TypeOK

-------------------------------------------------------------------------------
(* mark_request_as_handled, reclaim_request *)

LEMMA GiveUpType ==
    ASSUME TypeOK, NEW c \in Clients, NEW k \in Keys, GiveUp(c, k)
    PROVE  TypeOK'
    <1>1. inner' \in [Clients -> InnerStates]
        BY HoldType, BecomeType DEF GiveUp, Orders
    <1>2. working' \in [Clients -> SUBSET Keys]
        BY DEF GiveUp, LetGo, TypeOK
    <1> QED BY <1>1, <1>2 DEF GiveUp, TypeOK

LEMMA MarkType ==
    ASSUME TypeOK, NEW c \in Clients, NEW k \in Keys, Mark(c, k)
    PROVE  TypeOK'
    <1>1. [kind |-> "mark", key |-> k] \in Calls
        BY DEF Calls
    <1>2. op' \in [Clients -> Calls]
        BY <1>1, GoType DEF Mark
    <1> QED BY <1>2 DEF Mark, TypeOK

LEMMA MarkWriteType ==
    ASSUME TypeOK, NEW c \in Clients, MarkWrite(c)
    PROVE  TypeOK'
    <1> DEFINE k == op[c].key
               r == [inner[c].requests EXCEPT ![k] = HandledEntry(c, k)]
               h == [inner[c].held EXCEPT ![k] = None]
               m == CountHandled(Unlisted(inner[c].metadata, k))
    <1>1. k \in Keys
        BY ClientType DEF MarkWrite, Calls
    <1>2. /\ inner[c] \in InnerStates
          /\ inner[c].metadata \in Metadata
          /\ inner[c].metadata.forefront \in [Keys -> Nat]
          /\ inner[c].requests \in [Keys -> Entries \cup {Absent}]
          /\ inner[c].held \in [Keys -> Orders]
        BY ClientType
    <1>3. HandledEntry(c, k) \in Entries
        BY <1>1, <1>2 DEF HandledEntry, Seq0, Indexed, Entries, Orders
    <1>4. r \in [Keys -> Entries \cup {Absent}] /\ h \in [Keys -> Orders]
        BY <1>1, <1>2, <1>3 DEF Orders
    <1>5. Unlisted(inner[c].metadata, k) \in Metadata
        <2>1. Keep(inner[c].metadata.forefront, Keys \ {k}) \in [Keys -> Nat]
            BY <1>2, KeepType
        <2> QED BY <1>2, <2>1 DEF Metadata, Unlisted
    <1>6. m \in Metadata
        BY <1>5, CountsType, None \in Orders DEF Orders
    <1>7. [inner[c] EXCEPT !.held = h, !.requests = r, !.metadata = m] \in InnerStates
        <2> HIDE DEF h, r, m
        <2> QED BY <1>2, <1>4, <1>6, 0 \in Nat, InnerUpdate, Zenon
    <1>8. inner' \in [Clients -> InnerStates]
        BY <1>7, BecomeType, Zenon DEF MarkWrite
    <1>9. HandledFile(k) \in Files
        BY DEF HandledFile, Files, Orders
    <1>10. files' \in [Keys -> Files \cup {Absent}]
        BY <1>1, <1>9, WriteRequestType DEF MarkWrite
    <1>11. op' \in [Clients -> Calls]
        BY <1>1, PersistType, GoType DEF MarkWrite
    <1> QED BY <1>8, <1>10, <1>11 DEF MarkWrite, TypeOK

LEMMA ReclaimBeginType ==
    ASSUME TypeOK, NEW c \in Clients, NEW k \in Keys, Reclaim(c, k)
    PROVE  TypeOK'
    <1>1. PICK forefront \in BOOLEAN, handledAt \in ReclaimStamped :
              Go(c, [kind |-> "reclaim", key |-> k, forefront |-> forefront, handledAt |-> handledAt,
                     order |-> CalculateOrderNo(forefront, now)])
        BY DEF Reclaim
    <1>2. CalculateOrderNo(forefront, now) \in Int
        BY DEF CalculateOrderNo, TypeOK
    <1>3. [kind |-> "reclaim", key |-> k, forefront |-> forefront, handledAt |-> handledAt,
           order |-> CalculateOrderNo(forefront, now)] \in Calls
        BY <1>2, CallsAssumption DEF Calls
    <1>4. op' \in [Clients -> Calls]
        BY <1>1, <1>3, GoType
    <1> QED BY <1>4 DEF Reclaim, TypeOK

LEMMA ReclaimWriteType ==
    ASSUME TypeOK, NEW c \in Clients, ReclaimWrite(c)
    PROVE  TypeOK'
    <1> DEFINE k == op[c].key
               r == [inner[c].requests EXCEPT ![k] = [order |-> op[c].order, seq |-> ReclaimedSeq(c, k)]]
               h == [inner[c].held EXCEPT ![k] = None]
               n == IF Indexed(c, k) THEN inner[c].counter ELSE inner[c].counter + 1
               ff == IF op[c].forefront /\ inner[c].metadata.forefront[k] = 0
                     THEN Push(inner[c].metadata.forefront, k) ELSE inner[c].metadata.forefront
               m == [inner[c].metadata EXCEPT !.forefront = ff]
    <1>1. op[c] \in [kind : {"reclaim"}, key : Keys, forefront : BOOLEAN, order : Int, handledAt : BOOLEAN]
        BY ClientType DEF ReclaimWrite, Calls
    <1>2. /\ inner[c] \in InnerStates
          /\ inner[c].metadata \in Metadata
          /\ inner[c].metadata.forefront \in [Keys -> Nat]
          /\ inner[c].requests \in [Keys -> Entries \cup {Absent}]
          /\ inner[c].held \in [Keys -> Orders]
          /\ inner[c].counter \in Nat
        BY ClientType
    <1>3. ReclaimedSeq(c, k) \in Nat
        BY <1>1, <1>2 DEF ReclaimedSeq, Indexed, Entries
    <1>4. op[c].order \in Orders
        BY <1>1 DEF Orders
    <1>5. r \in [Keys -> Entries \cup {Absent}]
        BY <1>1, <1>2, <1>3, <1>4, EntryType
    <1>6. h \in [Keys -> Orders] /\ n \in Nat
        BY <1>1, <1>2 DEF Orders
    <1>7. m \in Metadata
        <2>1. ff \in [Keys -> Nat]
            BY <1>1, <1>2, PushType
        <2> HIDE DEF ff
        <2> QED BY <1>2, <2>1 DEF Metadata
    <1>8. [inner[c] EXCEPT !.held = h, !.requests = r, !.counter = n, !.metadata = m] \in InnerStates
        <2> HIDE DEF h, r, n, m
        <2> QED BY <1>2, <1>5, <1>6, <1>7, InnerUpdate, Zenon
    <1>9. inner' \in [Clients -> InnerStates]
        BY <1>8, BecomeType, Zenon DEF ReclaimWrite
    <1>10. [order |-> op[c].order, handledAt |-> op[c].handledAt] \in Files
        BY <1>1, <1>4 DEF Files
    <1>11. files' \in [Keys -> Files \cup {Absent}]
        BY <1>1, <1>10, WriteRequestType DEF ReclaimWrite
    <1>12. op' \in [Clients -> Calls]
        BY <1>1, PersistType, GoType DEF ReclaimWrite
    <1> QED BY <1>9, <1>11, <1>12 DEF ReclaimWrite, TypeOK

-------------------------------------------------------------------------------
(* prolong_request_lock *)

LEMMA ProlongRefusedType ==
    ASSUME TypeOK, NEW c \in Clients, NEW k \in Keys, ProlongRefused(c, k)
    PROVE  TypeOK'
    <1> DEFINE h == [inner[c].held EXCEPT ![k] = None]
               gone == [inner[c].requests EXCEPT ![k] = Absent]
    <1>1. /\ inner[c] \in InnerStates
          /\ inner[c].requests \in [Keys -> Entries \cup {Absent}]
          /\ inner[c].held \in [Keys -> Orders]
          /\ inner[c].metadata \in Metadata
        BY ClientType
    <1>2. h \in [Keys -> Orders]
        BY <1>1 DEF Orders
    <1>3. inner' \in [Clients -> InnerStates]
        <2>1. CASE Exists(k)
            <3> DEFINE r == Resync(c, k, files[k].order)
            <3>1. r \in [Keys -> Entries \cup {Absent}]
                BY <2>1, ResyncType DEF Exists, TypeOK, Files
            <3>2. [inner[c] EXCEPT !.held = h, !.requests = r] \in InnerStates
                <4> HIDE DEF h, r
                <4> QED BY <1>1, <1>2, <3>1, 0 \in Nat, InnerUpdate, Zenon
            <3> QED BY <2>1, <3>2, BecomeType, Zenon DEF ProlongRefused
        <2>2. CASE ~Exists(k)
            <3>1. gone \in [Keys -> Entries \cup {Absent}]
                BY <1>1
            <3>2. [inner[c] EXCEPT !.held = h, !.requests = gone] \in InnerStates
                <4> HIDE DEF h, gone
                <4> QED BY <1>1, <1>2, <3>1, 0 \in Nat, InnerUpdate, Zenon
            <3> QED BY <2>2, <3>2, BecomeType, Zenon DEF ProlongRefused
        <2> QED BY <2>1, <2>2
    <1> QED BY <1>3 DEF ProlongRefused, TypeOK

LEMMA ProlongBeginType ==
    ASSUME TypeOK, NEW c \in Clients, NEW k \in Keys, Prolong(c, k)
    PROVE  TypeOK'
    <1>1. PICK extension \in Extensions :
              Go(c, [kind |-> "prolong", key |-> k, order |-> ExtendedOrder(inner[c].held[k], extension),
                     handledAt |-> files[k].handledAt])
        BY DEF Prolong
    <1>2. inner[c].held[k] \in Int /\ files[k].handledAt \in BOOLEAN
        BY ClientType DEF Prolong, Orders, Exists, TypeOK, Files
    <1>3. ExtendedOrder(inner[c].held[k], extension) \in Int
        BY <1>2, DurationsAssumption DEF ExtendedOrder, WithSignOf
    <1>4. op' \in [Clients -> Calls]
        <2> DEFINE order == ExtendedOrder(inner[c].held[k], extension)
        <2>1. [kind |-> "prolong", key |-> k, order |-> order, handledAt |-> files[k].handledAt] \in Calls
            <3>1. order \in Int
                BY <1>3
            <3> HIDE DEF order
            <3> QED BY <1>2, <3>1 DEF Calls
        <2> QED BY <1>1, <2>1, GoType
    <1> QED BY <1>4 DEF Prolong, TypeOK

LEMMA ProlongWriteType ==
    ASSUME TypeOK, NEW c \in Clients, ProlongWrite(c)
    PROVE  TypeOK'
    <1> DEFINE k == op[c].key
               h == [inner[c].held EXCEPT ![k] = op[c].order]
               r == Resync(c, k, op[c].order)
    <1>1. /\ k \in Keys
          /\ op[c].order \in Orders
          /\ [order |-> op[c].order, handledAt |-> op[c].handledAt] \in Files
        BY ClientType DEF ProlongWrite, Calls, Orders, Files
    <1>2. inner[c] \in InnerStates /\ inner[c].held \in [Keys -> Orders] /\ inner[c].metadata \in Metadata
        BY ClientType
    <1>3. h \in [Keys -> Orders] /\ r \in [Keys -> Entries \cup {Absent}]
        BY <1>1, <1>2, ResyncType
    <1>4. [inner[c] EXCEPT !.held = h, !.requests = r] \in InnerStates
        <2> HIDE DEF h, r
        <2> QED BY <1>2, <1>3, 0 \in Nat, InnerUpdate, Zenon
    <1>5. inner' \in [Clients -> InnerStates]
        BY <1>4, BecomeType, Zenon DEF ProlongWrite
    <1>6. files' \in [Keys -> Files \cup {Absent}]
        BY <1>1, WriteRequestType DEF ProlongWrite
    <1>7. op' \in [Clients -> Calls]
        BY PersistType, GoType DEF ProlongWrite
    <1> QED BY <1>5, <1>6, <1>7 DEF ProlongWrite, TypeOK

-------------------------------------------------------------------------------
(* The other calls *)

LEMMA PersistStepType ==
    ASSUME TypeOK, NEW c \in Clients, Persist(c)
    PROVE  TypeOK'
    <1>1. op' \in [Clients -> Calls]
        BY IdleType, GoType DEF Persist
    <1>2. working' \in [Clients -> SUBSET Keys]
        BY DEF Persist, LetGo, TypeOK
    <1> QED BY <1>1, <1>2, WriteMetadataType DEF Persist, TypeOK

LEMMA TouchType ==
    ASSUME TypeOK, NEW c \in Clients, Touch(c)
    PROVE  TypeOK'
    <1>1. op' \in [Clients -> Calls]
        BY PersistType, GoType DEF Touch
    <1> QED BY <1>1 DEF Touch, TypeOK

LEMMA RaiseType ==
    ASSUME TypeOK, NEW c \in Clients, Raise(c)
    PROVE  TypeOK'
    <1>1. PICK d \in Raises : Become(c, [inner[c] EXCEPT !.lockMillis = d])
        BY DEF Raise
    <1>2. [inner[c] EXCEPT !.lockMillis = d] \in InnerStates
        BY ClientType, DurationsAssumption DEF InnerStates
    <1>3. inner' \in [Clients -> InnerStates]
        BY <1>1, <1>2, BecomeType
    <1> QED BY <1>3 DEF Raise, TypeOK

LEMMA PurgeBeginType ==
    ASSUME TypeOK, NEW c \in Clients, Purge(c)
    PROVE  TypeOK'
    <1>1. [kind |-> "purge", todo |-> {j \in Keys : Exists(j)}] \in Calls
        BY DEF Calls
    <1>2. op' \in [Clients -> Calls]
        BY <1>1, GoType DEF Purge
    <1> QED BY <1>2 DEF Purge, TypeOK

LEMMA PurgeFileType ==
    ASSUME TypeOK, NEW c \in Clients, NEW k \in Keys, PurgeFile(c, k)
    PROVE  TypeOK'
    <1>1. op' \in [Clients -> Calls]
        BY DropKeyType DEF PurgeFile
    <1>2. files' \in [Keys -> Files \cup {Absent}]
        BY WriteRequestType DEF PurgeFile
    <1> QED BY <1>1, <1>2 DEF PurgeFile, TypeOK

LEMMA PurgeFailsType ==
    ASSUME TypeOK, NEW c \in Clients, NEW k \in Keys, PurgeFails(c, k)
    PROVE  TypeOK'
    <1>1. op' \in [Clients -> Calls]
        BY IdleType, GoType DEF PurgeFails
    <1> QED BY <1>1 DEF PurgeFails, TypeOK

LEMMA RemoveFailsType ==
    ASSUME TypeOK, NEW c \in Clients, RemoveFails(c)
    PROVE  TypeOK'
    <1>1. op' \in [Clients -> Calls]
        BY IdleType, GoType DEF RemoveFails
    <1> QED BY <1>1 DEF RemoveFails, TypeOK

LEMMA PurgeDoneType ==
    ASSUME TypeOK, NEW c \in Clients, PurgeDone(c)
    PROVE  TypeOK'
    <1> DEFINE s == InnerWith(NewMetadata)
               n == inner[c].lockMillis
    <1>1. [s EXCEPT !.lockMillis = n] \in InnerStates
        <2>1. s \in InnerStates /\ n \in Nat
            BY InnerWithType, NewMetadataType, ClientType
        <2> HIDE DEF s, n
        <2> QED BY <2>1 DEF InnerStates
    <1>2. inner' \in [Clients -> InnerStates]
        BY <1>1, BecomeType, Zenon DEF PurgeDone, Purged
    <1>3. op' \in [Clients -> Calls]
        BY PersistType, GoType DEF PurgeDone
    <1> QED BY <1>2, <1>3 DEF PurgeDone, TypeOK

LEMMA DropType ==
    ASSUME TypeOK, NEW c \in Clients, DropDirectory(c) \/ DropClear(c)
    PROVE  TypeOK'
    <1>1. CASE DropDirectory(c)
        BY <1>1 DEF DropDirectory, TypeOK
    <1>2. CASE DropClear(c)
        <2> DEFINE r == [k \in Keys |-> Absent]
                   h == [k \in Keys |-> None]
        <2>1. inner[c] \in InnerStates /\ inner[c].metadata \in Metadata
            BY ClientType
        <2>2. r \in [Keys -> Entries \cup {Absent}] /\ h \in [Keys -> Orders]
            BY DEF Orders
        <2>3. [inner[c] EXCEPT !.requests = r, !.held = h] \in InnerStates
            <3> HIDE DEF r, h
            <3> QED BY <2>1, <2>2, 0 \in Nat, InnerUpdate, Zenon
        <2>4. inner' \in [Clients -> InnerStates]
            BY <1>2, <2>3, BecomeType, Zenon DEF DropClear
        <2> QED BY <1>2, <2>4 DEF DropClear, TypeOK
    <1> QED BY <1>1, <1>2

-------------------------------------------------------------------------------
(* Faults *)

LEMMA StopType ==
    ASSUME TypeOK, NEW c \in Clients, Crash(c) \/ OpenFails(c)
    PROVE  TypeOK'
    <1>1. Stop(c) /\ faults' = faults + 1 /\ UNCHANGED <<now, files, disk>>
        BY DEF Crash, OpenFails
    <1>2. op' \in [Clients -> Calls]
        BY <1>1, IdleType, GoType DEF Stop
    <1>3. inner' \in [Clients -> InnerStates]
        BY <1>1, InnerWithType, NewMetadataType, BecomeType DEF Stop
    <1>4. working' \in [Clients -> SUBSET Keys] /\ dropping' \subseteq Clients /\ faults' \in Nat
        BY <1>1 DEF Stop, TypeOK
    <1> QED BY <1>1, <1>2, <1>3, <1>4 DEF TypeOK

LEMMA RewriteFailsType ==
    ASSUME TypeOK, NEW c \in Clients, RewriteFails(c)
    PROVE  TypeOK'
    <1>1. op' \in [Clients -> Calls]
        BY AfterRewriteType, GoType DEF RewriteFails
    <1>2. inner' \in [Clients -> InnerStates]
        BY AfterRewriteType, RestoreType DEF RewriteFails, Orders
    <1>3. faults' \in Nat
        BY DEF RewriteFails, TypeOK
    <1> QED BY <1>1, <1>2, <1>3 DEF RewriteFails, TypeOK

LEMMA WriteFailsType ==
    ASSUME TypeOK, NEW c \in Clients, WriteFails(c)
    PROVE  TypeOK'
    <1>1. op' \in [Clients -> Calls]
        BY IdleType, GoType DEF WriteFails
    <1> QED BY <1>1 DEF WriteFails, TypeOK

LEMMA RebuildReadFailsType ==
    ASSUME TypeOK, NEW c \in Clients, NEW k \in Keys, RebuildReadFails(c, k)
    PROVE  TypeOK'
    <1>1. op' \in [Clients -> Calls]
        BY DropKeyType DEF RebuildReadFails, RebuildNext
    <1> QED BY <1>1 DEF RebuildReadFails, TypeOK

-------------------------------------------------------------------------------
(* Type correctness *)

LEMMA InitType == Init => TypeOK
    <1> SUFFICES ASSUME Init PROVE TypeOK
        OBVIOUS
    <1>1. files \in [Keys -> Files \cup {Absent}]
        BY DEF Init, Files, Orders
    <1>2. op \in [Clients -> Calls] /\ inner \in [Clients -> InnerStates]
        BY IdleType, InnerWithType, NewMetadataType DEF Init
    <1> QED BY <1>1, <1>2 DEF Init, TypeOK

LEMMA StartType ==
    ASSUME TypeOK, NEW c \in Clients, Start(c)
    PROVE  TypeOK'
    <1>1. ASSUME NEW k \in Keys, GiveUp(c, k) \/ Mark(c, k) \/ Reclaim(c, k) \/ ProlongRefused(c, k) \/ Prolong(c, k)
          PROVE  TypeOK'
        BY <1>1, GiveUpType, MarkType, ReclaimBeginType, ProlongRefusedType, ProlongBeginType
    <1>2. CASE Purge(c)
        BY <1>2, PurgeBeginType
    <1> QED BY <1>1, <1>2, OpenStartType, AddBatchType, FetchBeginType, TouchType, RaiseType, DropType DEF Start

LEMMA ContinueType ==
    ASSUME TypeOK, NEW c \in Clients, Continue(c)
    PROVE  TypeOK'
    <1>1. CASE Opening(c)
        BY <1>1, CreateType, ListType, ClearType, RewriteType, RebuildDoneType, ReadyType, RebuildType,
           RebuildSkipType DEF Opening
    <1>2. CASE AddMalformed(c) \/ AddSkip(c) \/ AddItem(c) \/ AddWrite(c) \/ AddDone(c)
        BY <1>2, AddEndType, AddSkipType, AddItemType, AddWriteType
    <1>3. CASE FetchNothing(c) \/ FetchLock(c) \/ Deliver(c) \/ MarkWrite(c) \/ ReclaimWrite(c) \/ ProlongWrite(c)
        BY <1>3, FetchNothingType, FetchLockType, DeliverType, MarkWriteType, ReclaimWriteType, ProlongWriteType
    <1>4. CASE Persist(c) \/ PurgeDone(c) \/ DropClear(c)
        BY <1>4, PersistStepType, PurgeDoneType, DropType
    <1>5. ASSUME NEW k \in Keys, FetchVanished(c, k) \/ FetchSkip(c, k) \/ FetchFree(c, k)
          PROVE  TypeOK'
        BY <1>5, FetchVanishedType, FetchSkipType, FetchFreeType
    <1>6. ASSUME NEW k \in Keys, PurgeFile(c, k) \/ PurgeFails(c, k)
          PROVE  TypeOK'
        BY <1>6, PurgeFileType, PurgeFailsType
    <1> QED BY <1>1, <1>2, <1>3, <1>4, <1>5, <1>6 DEF Continue

LEMMA FailType ==
    ASSUME TypeOK, NEW c \in Clients, Fail(c)
    PROVE  TypeOK'
    <1>1. CASE RemoveFails(c)
        BY <1>1, RemoveFailsType
    <1> QED BY <1>1, StopType, RewriteFailsType, WriteFailsType, FetchVanishedType, RebuildReadFailsType DEF Fail

\* Every variable keeps the shape of the code's data under any interleaving of
\* calls, faults and the clock, for any number of keys and clients.
THEOREM TypeCorrect == Spec => []TypeOK
    <1>1. TypeOK /\ [Next]_vars => TypeOK'
        <2> SUFFICES ASSUME TypeOK, [Next]_vars PROVE TypeOK'
            OBVIOUS
        <2>1. CASE Tick
            BY <2>1 DEF Tick, TypeOK
        <2>2. ASSUME NEW c \in Clients, Start(c) \/ Continue(c) \/ Fail(c) PROVE TypeOK'
            BY <2>2, StartType, ContinueType, FailType
        <2>3. CASE UNCHANGED vars
            BY <2>3 DEF vars, TypeOK
        <2> QED BY <2>1, <2>2, <2>3 DEF Next
    <1> QED BY <1>1, InitType, PTL DEF Spec

-------------------------------------------------------------------------------
(* FilesCoherent.  Calls write what they decided on before another client's
   write, so the invariant speaks of the files and of the writes under way. *)

Coherent(file) == file.handledAt <=> file.order = None

\* The file a call in progress is about to write, if it is one that writes.
Writes(call) == call.kind \in {"addWrite", "lock", "reclaim", "prolong"}

CoherentInv ==
    /\ FilesCoherent
    /\ \A c \in Clients : Writes(op[c]) => Coherent(op[c])

\* A step of c that leaves the files alone and begins no write.
LEMMA CoherentQuiet ==
    ASSUME TypeOK, CoherentInv, NEW c \in Clients, NEW call, Go(c, call), ~Writes(call), UNCHANGED files
    PROVE  CoherentInv'
    BY DEF TypeOK, CoherentInv, FilesCoherent, Exists, Go

\* A step of c that leaves the files alone and begins to write a coherent file.
LEMMA CoherentBegin ==
    ASSUME TypeOK, CoherentInv, NEW c \in Clients, NEW call, Go(c, call), Coherent(call), UNCHANGED files
    PROVE  CoherentInv'
    BY DEF TypeOK, CoherentInv, FilesCoherent, Exists, Go

\* A step of c that writes a coherent file and begins no other write.
LEMMA CoherentWrite ==
    ASSUME TypeOK, CoherentInv, NEW c \in Clients, NEW call, Go(c, call), ~Writes(call),
           NEW k \in Keys, NEW file, WriteRequest(k, file), file = Absent \/ Coherent(file)
    PROVE  CoherentInv'
    <1>1. \A j \in Keys : files'[j] = files[j] \/ files'[j] = Absent \/ Coherent(files'[j])
        BY DEF TypeOK, WriteRequest
    <1>2. FilesCoherent'
        BY <1>1 DEF CoherentInv, FilesCoherent, Exists, Coherent
    <1>3. \A d \in Clients : Writes(op'[d]) => Coherent(op'[d])
        BY DEF TypeOK, CoherentInv, Go
    <1> QED BY <1>2, <1>3 DEF CoherentInv, Writes, Coherent

LEMMA CoherentStutter ==
    ASSUME CoherentInv, UNCHANGED <<files, op>>
    PROVE  CoherentInv'
    BY DEF CoherentInv, FilesCoherent, Exists, Writes, Coherent

\* A call that works through keys stays the call it is.
LEMMA TodoKind ==
    ASSUME TypeOK, NEW c \in Clients, NEW S, op[c].kind \in {"rebuild", "fetch", "purge"}
    PROVE  ~Writes([op[c] EXCEPT !.todo = S])
    BY ClientType DEF Calls, Writes

\* The calls callers make.  Requests are reclaimed without a handledAt of the caller's own.
LEMMA CoherentStart ==
    ASSUME TypeOK, CoherentInv, ReclaimStamped \subseteq {FALSE}, NEW c \in Clients, Start(c)
    PROVE  CoherentInv'
    <1>1. CASE Open(c)
        <2>1. PICK sole \in AccessModes :
                  Go(c, [kind |-> IF disk = Absent THEN "create" ELSE "list", sole |-> sole])
            BY <1>1 DEF Open
        <2>2. ~Writes([kind |-> IF disk = Absent THEN "create" ELSE "list", sole |-> sole])
            BY DEF Writes
        <2> QED BY <1>1, <2>1, <2>2, CoherentQuiet DEF Open
    <1>2. CASE AddBatch(c)
        <2>1. PICK call \in Adds : Go(c, [kind |-> "add", batch |-> call.batch, forefront |-> call.forefront])
            BY <1>2 DEF AddBatch
        <2>2. ~Writes([kind |-> "add", batch |-> call.batch, forefront |-> call.forefront])
            BY DEF Writes
        <2> QED BY <1>2, <2>1, <2>2, CoherentQuiet DEF AddBatch
    <1>3. CASE Fetch(c)
        <2>1. ~Writes([kind |-> "fetch", todo |-> Candidates(c, now), at |-> now])
            BY DEF Writes
        <2> QED BY <1>3, <2>1, CoherentQuiet DEF Fetch
    <1>4. CASE Touch(c)
        <2>1. ~Writes([kind |-> "persist", done |-> {}])
            BY DEF Writes
        <2> QED BY <1>4, <2>1, CoherentQuiet DEF Touch
    <1>5. CASE Raise(c)
        BY <1>5, CoherentStutter DEF Raise
    <1>6. CASE Purge(c)
        <2>1. ~Writes([kind |-> "purge", todo |-> {k \in Keys : Exists(k)}])
            BY DEF Writes
        <2> QED BY <1>6, <2>1, CoherentQuiet DEF Purge
    <1>7. CASE DropDirectory(c)
        BY <1>7 DEF DropDirectory, CoherentInv, FilesCoherent, Exists, Writes, Coherent
    <1>8. ASSUME NEW k \in Keys, GiveUp(c, k) \/ ProlongRefused(c, k)
          PROVE  CoherentInv'
        BY <1>8, CoherentStutter DEF GiveUp, ProlongRefused
    <1>9. ASSUME NEW k \in Keys, Mark(c, k)
          PROVE  CoherentInv'
        <2>1. ~Writes([kind |-> "mark", key |-> k])
            BY DEF Writes
        <2> QED BY <1>9, <2>1, CoherentQuiet DEF Mark
    <1>10. ASSUME NEW k \in Keys, Reclaim(c, k)
           PROVE  CoherentInv'
        <2>1. PICK forefront \in BOOLEAN, handledAt \in ReclaimStamped :
                  Go(c, [kind |-> "reclaim", key |-> k, forefront |-> forefront, handledAt |-> handledAt,
                         order |-> CalculateOrderNo(forefront, now)])
            BY <1>10 DEF Reclaim
        <2>2. CalculateOrderNo(forefront, now) \in Int
            BY DEF CalculateOrderNo, TypeOK
        <2>3. Coherent([kind |-> "reclaim", key |-> k, forefront |-> forefront, handledAt |-> handledAt,
                        order |-> CalculateOrderNo(forefront, now)])
            BY <2>2, NoneAssumption, ~handledAt DEF Coherent
        <2> QED BY <1>10, <2>1, <2>3, CoherentBegin DEF Reclaim
    <1>11. ASSUME NEW k \in Keys, Prolong(c, k)
           PROVE  CoherentInv'
        <2>1. PICK extension \in Extensions :
                  Go(c, [kind |-> "prolong", key |-> k, order |-> ExtendedOrder(inner[c].held[k], extension),
                         handledAt |-> files[k].handledAt])
            BY <1>11 DEF Prolong
        <2>2. inner[c].held[k] \in Int
            BY <1>11, ClientType DEF Prolong, Orders
        <2>3. ~files[k].handledAt
            <3>1. Exists(k) /\ files[k].order = inner[c].held[k] /\ files[k].order # None
                BY <1>11 DEF Prolong, LostLock
            <3>2. files[k].handledAt <=> files[k].order = None
                BY <3>1 DEF CoherentInv, FilesCoherent
            <3> QED BY <3>1, <3>2
        <2>4. ExtendedOrder(inner[c].held[k], extension) \in Int
            BY <2>2, DurationsAssumption DEF ExtendedOrder, WithSignOf
        <2>5. Coherent([kind |-> "prolong", key |-> k, order |-> ExtendedOrder(inner[c].held[k], extension),
                        handledAt |-> files[k].handledAt])
            BY <2>3, <2>4, NoneAssumption DEF Coherent
        <2> QED BY <1>11, <2>1, <2>5, CoherentBegin DEF Prolong
    <1> QED BY <1>1, <1>2, <1>3, <1>4, <1>5, <1>6, <1>7, <1>8, <1>9, <1>10, <1>11 DEF Start

LEMMA CoherentOpening ==
    ASSUME TypeOK, CoherentInv, NEW c \in Clients, Opening(c)
    PROVE  CoherentInv'
    <1>1. CASE Create(c)
        <2>1. ~Writes([kind |-> "list", sole |-> op[c].sole])
            BY DEF Writes
        <2> QED BY <1>1, <2>1, CoherentQuiet DEF Create
    <1>2. CASE List(c)
        <2>1. ~Writes([kind |-> "clear", sole |-> op[c].sole, todo |-> {k \in Keys : Exists(k)}])
            BY DEF Writes
        <2> QED BY <1>2, <2>1, CoherentQuiet DEF List
    <1>3. CASE Clear(c)
        <2>1. ~Writes([kind |-> "rebuild", sole |-> op[c].sole, todo |-> op[c].todo, at |-> now])
            BY DEF Writes
        <2> QED BY <1>3, <2>1, CoherentQuiet DEF Clear
    <1>4. CASE Rewrite(c)
        <2>1. op[c].order \in Int /\ op[c].key \in Keys
            BY <1>4, AfterRewriteType DEF Rewrite
        <2>2. Coherent([order |-> op[c].order, handledAt |-> FALSE])
            BY <2>1, NoneAssumption DEF Coherent
        <2>3. ~Writes(AfterRewrite(c))
            BY DEF Writes, AfterRewrite
        <2> QED BY <1>4, <2>1, <2>2, <2>3, CoherentWrite DEF Rewrite
    <1>5. CASE RebuildDone(c)
        <2>1. ~Writes([kind |-> "ready", sole |-> op[c].sole])
            BY DEF Writes
        <2> QED BY <1>5, <2>1, CoherentQuiet DEF RebuildDone
    <1>6. CASE Ready(c)
        <2>1. ~Writes(Idle)
            BY DEF Writes, Idle
        <2> QED BY <1>6, <2>1, CoherentQuiet DEF Ready
    <1>7. ASSUME NEW k \in Keys, Rebuild(c, k)
          PROVE  CoherentInv'
        <2> DEFINE order == RestoredOrder(files[k], op[c].at)
                   rewrite == [kind |-> "rewrite", sole |-> op[c].sole, todo |-> op[c].todo \ {k},
                               at |-> op[c].at, key |-> k, order |-> WithSignOf(order, op[c].at)]
                   on == [op[c] EXCEPT !.todo = op[c].todo \ {k}]
        <2>1. ~Writes(rewrite)
            BY DEF Writes
        <2>2. ~Writes(on)
            BY <1>7, TodoKind DEF Rebuild, RebuildNext
        <2>3. Go(c, rewrite) \/ Go(c, on)
            BY <1>7 DEF Rebuild
        <2> QED BY <1>7, <2>1, <2>2, <2>3, CoherentQuiet DEF Rebuild
    <1>8. ASSUME NEW k \in Keys, RebuildSkip(c, k)
          PROVE  CoherentInv'
        BY <1>8, TodoKind, CoherentQuiet DEF RebuildSkip, RebuildNext
    <1> QED BY <1>1, <1>2, <1>3, <1>4, <1>5, <1>6, <1>7, <1>8 DEF Opening

LEMMA CoherentContinue ==
    ASSUME TypeOK, CoherentInv, NEW c \in Clients, Continue(c)
    PROVE  CoherentInv'
    <1>0. /\ ~Writes(Idle)
          /\ \A S : ~Writes([kind |-> "persist", done |-> S])
          /\ \A b, f : ~Writes([kind |-> "add", batch |-> b, forefront |-> f])
          /\ \A k, n : ~Writes([kind |-> "deliver", key |-> k, order |-> n])
        BY DEF Writes, Idle
    <1>1. CASE Opening(c)
        BY <1>1, CoherentOpening
    <1>2. CASE AddMalformed(c)
        BY <1>2, <1>0, CoherentQuiet DEF AddMalformed
    <1>3. CASE AddSkip(c)
        <2>1. ~Writes([op[c] EXCEPT !.batch = Tail(@)])
            <3>1. op[c] \in [kind : {"add"}, batch : Seq(Items), forefront : BOOLEAN]
                BY <1>3, ClientType DEF AddSkip, Calls
            <3> QED BY <3>1 DEF Writes
        <2> QED BY <1>3, <2>1, CoherentQuiet DEF AddSkip
    <1>4. CASE AddItem(c)
        <2> DEFINE item == Head(op[c].batch)
                   order == AddedOrder(item, op[c].forefront, now)
                   call == [kind |-> "addWrite", key |-> item.key, handledAt |-> item.handledAt,
                            order |-> order, seq |-> inner[c].counter,
                            batch |-> Tail(op[c].batch), forefront |-> op[c].forefront]
        <2>1. item \in Items
            BY <1>4, AddCallType DEF AddItem
        <2>2. item.handledAt \in BOOLEAN
            BY <2>1 DEF Items
        <2>3. item.handledAt <=> order = None
            <3>1. CalculateOrderNo(op[c].forefront, now) \in Int
                BY DEF CalculateOrderNo, TypeOK
            <3> QED BY <2>2, <3>1, NoneAssumption DEF AddedOrder
        <2>4. Coherent(call)
            <3> HIDE DEF item, order
            <3> QED BY <2>3 DEF Coherent
        <2>5. Go(c, call)
            BY <1>4 DEF AddItem
        <2>6. UNCHANGED files
            BY <1>4 DEF AddItem
        <2> HIDE DEF call
        <2> QED BY <2>4, <2>5, <2>6, CoherentBegin
    <1>5. CASE AddWrite(c)
        <2>1. op[c].key \in Keys
            BY <1>5, ClientType DEF AddWrite, Calls
        <2>2. Coherent([order |-> op[c].order, handledAt |-> op[c].handledAt])
            BY <1>5 DEF AddWrite, CoherentInv, Writes, Coherent
        <2> QED BY <1>5, <1>0, <2>1, <2>2, CoherentWrite DEF AddWrite
    <1>6. CASE AddDone(c)
        BY <1>6, <1>0, CoherentQuiet DEF AddDone
    <1>7. CASE FetchNothing(c)
        BY <1>7, <1>0, CoherentQuiet DEF FetchNothing
    <1>8. CASE FetchLock(c)
        <2>1. op[c].key \in Keys
            BY <1>8, ClientType DEF FetchLock, Calls
        <2>2. Coherent([order |-> op[c].order, handledAt |-> op[c].handledAt])
            BY <1>8 DEF FetchLock, CoherentInv, Writes, Coherent
        <2> QED BY <1>8, <1>0, <2>1, <2>2, CoherentWrite DEF FetchLock
    <1>9. CASE Deliver(c)
        BY <1>9, <1>0, CoherentQuiet DEF Deliver
    <1>10. CASE MarkWrite(c)
        <2>1. op[c].key \in Keys
            BY <1>10, ClientType DEF MarkWrite, Calls
        <2>2. Coherent(HandledFile(op[c].key))
            BY DEF Coherent, HandledFile
        <2> QED BY <1>10, <1>0, <2>1, <2>2, CoherentWrite DEF MarkWrite
    <1>11. CASE ReclaimWrite(c)
        <2>1. op[c].key \in Keys
            BY <1>11, ClientType DEF ReclaimWrite, Calls
        <2>2. Coherent([order |-> op[c].order, handledAt |-> op[c].handledAt])
            BY <1>11 DEF ReclaimWrite, CoherentInv, Writes, Coherent
        <2> QED BY <1>11, <1>0, <2>1, <2>2, CoherentWrite DEF ReclaimWrite
    <1>12. CASE ProlongWrite(c)
        <2>1. op[c].key \in Keys
            BY <1>12, ClientType DEF ProlongWrite, Calls
        <2>2. Coherent([order |-> op[c].order, handledAt |-> op[c].handledAt])
            BY <1>12 DEF ProlongWrite, CoherentInv, Writes, Coherent
        <2> QED BY <1>12, <1>0, <2>1, <2>2, CoherentWrite DEF ProlongWrite
    <1>13. CASE Persist(c)
        BY <1>13, <1>0, CoherentQuiet DEF Persist
    <1>14. CASE PurgeDone(c)
        BY <1>14, <1>0, CoherentQuiet DEF PurgeDone
    <1>15. CASE DropClear(c)
        BY <1>15, CoherentStutter DEF DropClear
    <1>16. ASSUME NEW k \in Keys, FetchVanished(c, k) \/ FetchSkip(c, k)
           PROVE  CoherentInv'
        BY <1>16, TodoKind, CoherentQuiet DEF FetchVanished, FetchSkip, FetchNext
    <1>17. ASSUME NEW k \in Keys, FetchFree(c, k)
           PROVE  CoherentInv'
        <2> DEFINE order == LockOrder(files[k].order, op[c].at, inner[c].lockMillis)
        <2>1. files[k] \in Files /\ files[k].order # None /\ files[k].order \in Int
            BY <1>17 DEF FetchFree, Exists, MustSkip, TypeOK, Files, Orders
        <2>2. ~files[k].handledAt
            BY <1>17, <2>1 DEF FetchFree, CoherentInv, FilesCoherent
        <2>3. op[c].at \in Nat /\ inner[c].lockMillis \in Nat
            BY <1>17, ClientType DEF FetchFree, FetchNext, Calls
        <2>4. order \in Int
            BY <2>1, <2>3 DEF LockOrder, WithSignOf
        <2>5. Coherent([kind |-> "lock", key |-> k, handledAt |-> files[k].handledAt, order |-> order])
            <3> HIDE DEF order
            <3> QED BY <2>2, <2>4, NoneAssumption DEF Coherent
        <2> QED BY <1>17, <2>5, CoherentBegin DEF FetchFree
    <1>18. ASSUME NEW k \in Keys, PurgeFile(c, k)
           PROVE  CoherentInv'
        <2>1. Go(c, [op[c] EXCEPT !.todo = @ \ {k}]) /\ WriteRequest(k, Absent) /\ op[c].kind = "purge"
            BY <1>18 DEF PurgeFile
        <2> QED BY <2>1, TodoKind, CoherentWrite
    <1>19. ASSUME NEW k \in Keys, PurgeFails(c, k)
           PROVE  CoherentInv'
        BY <1>19, <1>0, CoherentQuiet DEF PurgeFails
    <1> QED BY <1>1, <1>2, <1>3, <1>4, <1>5, <1>6, <1>7, <1>8, <1>9, <1>10, <1>11, <1>12, <1>13, <1>14,
               <1>15, <1>16, <1>17, <1>18, <1>19 DEF Continue

LEMMA CoherentFail ==
    ASSUME TypeOK, CoherentInv, NEW c \in Clients, Fail(c)
    PROVE  CoherentInv'
    <1>0. ~Writes(Idle) /\ ~Writes(Closed)
        BY DEF Writes, Idle, Closed
    <1>1. CASE Crash(c) \/ OpenFails(c)
        BY <1>1, <1>0, CoherentQuiet DEF Crash, OpenFails, Stop
    <1>2. CASE RewriteFails(c)
        <2>1. ~Writes(AfterRewrite(c))
            BY DEF Writes, AfterRewrite
        <2> QED BY <1>2, <2>1, CoherentQuiet DEF RewriteFails
    <1>3. CASE WriteFails(c) \/ RemoveFails(c)
        BY <1>3, <1>0, CoherentQuiet DEF WriteFails, RemoveFails
    <1>4. ASSUME NEW k \in Keys, FetchReadFails(c, k) \/ RebuildReadFails(c, k)
          PROVE  CoherentInv'
        BY <1>4, TodoKind, CoherentQuiet DEF FetchReadFails, RebuildReadFails, FetchNext, RebuildNext
    <1> QED BY <1>1, <1>2, <1>3, <1>4 DEF Fail

\* A request file says pending and handled in one voice, for any number of clients and
\* any interleaving, if no file predates orderNo and no caller gives a request back
\* with a handledAt of its own (both would break it at once).
THEOREM FilesStayCoherent ==
    ASSUME LegacyKeys = {}, ReclaimStamped \subseteq {FALSE}
    PROVE  Spec => []FilesCoherent
    <1>1. Init => CoherentInv
        BY DEF Init, CoherentInv, FilesCoherent, Exists, Writes, Closed
    <1>2. TypeOK /\ CoherentInv /\ [Next]_vars => CoherentInv'
        <2> SUFFICES ASSUME TypeOK, CoherentInv, [Next]_vars PROVE CoherentInv'
            OBVIOUS
        <2>1. CASE Tick \/ UNCHANGED vars
            BY <2>1, CoherentStutter DEF Tick, vars
        <2>2. ASSUME NEW c \in Clients, Start(c) \/ Continue(c) \/ Fail(c) PROVE CoherentInv'
            BY <2>2, CoherentStart, CoherentContinue, CoherentFail
        <2> QED BY <2>1, <2>2 DEF Next
    <1>3. CoherentInv => FilesCoherent
        BY DEF CoherentInv
    <1> QED BY <1>1, <1>2, <1>3, TypeCorrect, PTL DEF Spec

-------------------------------------------------------------------------------
(* StallBounded.  A lock on disk comes from an orderNo computed when a call
   began, so the invariant also bounds the orders and the clock readings that
   calls in progress carry, and keeps lock durations among the legal ones. *)

Windows == Raises \cup {LockMillis}

\* The orderNo is null, or ends within one lock window of t.
Within(order, t) == order # None => \E w \in Windows : ~IsLockedOrder(order, t + w)

Timely(call) ==
    /\ call.kind # "prolong"
    /\ call.kind \in {"addWrite", "lock", "reclaim", "rewrite"} => Within(call.order, now)
    /\ call.kind \in {"fetch", "rebuild", "rewrite"} => call.at <= now

FilesTimely == \A k \in Keys : Exists(k) => Within(files[k].order, now)
CallsTimely == \A c \in Clients : Timely(op[c])
WindowsLegal == \A c \in Clients : inner[c].lockMillis \in Windows
StallInv == FilesTimely /\ CallsTimely /\ WindowsLegal

LEMMA WindowsType == Windows \in SUBSET Nat /\ LockMillis \in Windows
    BY DurationsAssumption DEF Windows

LEMMA WithinLater ==
    ASSUME NEW order \in Orders, NEW t \in Nat, NEW u \in Nat, t <= u, Within(order, t)
    PROVE  Within(order, u)
    <1> SUFFICES ASSUME order # None PROVE \E w \in Windows : ~IsLockedOrder(order, u + w)
        BY DEF Within
    <1>1. PICK w \in Windows : ~IsLockedOrder(order, t + w)
        BY DEF Within
    <1>2. w \in Nat /\ order \in Int
        BY WindowsType DEF Orders
    <1>3. ~IsLockedOrder(order, u + w)
        BY <1>1, <1>2 DEF IsLockedOrder
    <1> QED BY <1>3

\* An orderNo of the magnitude of a time that has come, and a lock from then on.
LEMMA WithinNow ==
    ASSUME NEW t \in Nat, NEW at \in Nat, at <= t, NEW n \in Int, NEW w \in Windows
    PROVE  /\ Within(at, t) /\ Within(-at, t)
           /\ Within(at + w, t) /\ Within(-(at + w), t)
           /\ Within(WithSignOf(n, at), t)
           /\ Within(LockOrder(n, at, w), t)
    <1>1. w \in Nat
        BY WindowsType
    <1>2. Within(at, t) /\ Within(-at, t) /\ Within(at + w, t) /\ Within(-(at + w), t)
        BY <1>1 DEF Within, IsLockedOrder
    <1> QED BY <1>2 DEF WithSignOf, LockOrder

\* The calls that neither write an orderNo nor carry a reading of the clock.
Plain(call) ==
    call.kind \notin {"addWrite", "lock", "reclaim", "rewrite", "prolong", "fetch", "rebuild"}

LEMMA PlainTimely ==
    ASSUME NEW call, Plain(call)
    PROVE  Timely(call)
    BY DEF Plain, Timely

LEMMA StallGo ==
    ASSUME TypeOK, CallsTimely, NEW c \in Clients, NEW call, Go(c, call), Timely(call), UNCHANGED now
    PROVE  CallsTimely'
    <1>1. \A d \in Clients : op'[d] = op[d] \/ op'[d] = call
        BY DEF TypeOK, Go
    <1>2. \A d \in Clients : Timely(op'[d])
        BY <1>1 DEF CallsTimely
    <1> QED BY <1>2 DEF CallsTimely, Timely

LEMMA StallWrite ==
    ASSUME TypeOK, FilesTimely, NEW k \in Keys, NEW file, WriteRequest(k, file), UNCHANGED now,
           file = Absent \/ Within(file.order, now)
    PROVE  FilesTimely'
    BY DEF TypeOK, FilesTimely, Exists, WriteRequest, Within

\* No step sets a lock duration that is not a legal one.
LEMMA BecomeLegal ==
    ASSUME TypeOK, WindowsLegal, NEW c \in Clients, NEW state, Become(c, state),
           state.lockMillis \in Windows
    PROVE  WindowsLegal'
    BY DEF TypeOK, WindowsLegal, Become, Windows

LEMMA StallStutter ==
    ASSUME StallInv, UNCHANGED <<now, files, op, inner>>
    PROVE  StallInv'
    BY DEF StallInv, FilesTimely, CallsTimely, WindowsLegal, Exists, Timely, Within, Windows

\* A later clock disturbs nothing.
LEMMA StallTick ==
    ASSUME TypeOK, StallInv, Tick
    PROVE  StallInv'
    <1>1. now \in Nat /\ now' \in Nat /\ now <= now' /\ UNCHANGED <<files, op, inner>>
        BY DEF Tick, TypeOK
    <1>2. FilesTimely'
        <2> SUFFICES ASSUME NEW k \in Keys, Exists(k) PROVE Within(files[k].order, now')
            BY <1>1 DEF FilesTimely, Exists, Within
        <2>1. files[k].order \in Orders /\ Within(files[k].order, now)
            BY DEF TypeOK, Files, Exists, StallInv, FilesTimely
        <2> QED BY <1>1, <2>1, WithinLater
    <1>3. CallsTimely'
        <2> SUFFICES ASSUME NEW c \in Clients PROVE Timely(op[c])'
            BY DEF CallsTimely
        <2>1. Timely(op[c]) /\ op[c] \in Calls /\ op'[c] = op[c]
            BY <1>1, ClientType DEF StallInv, CallsTimely
        <2>2. ASSUME op[c].kind \in {"addWrite", "lock", "reclaim", "rewrite"}
              PROVE  Within(op[c].order, now')
            <3>1. op[c].order \in Orders
                BY <2>1, <2>2 DEF Calls, Orders
            <3> QED BY <1>1, <2>1, <2>2, <3>1, WithinLater DEF Timely
        <2>3. ASSUME op[c].kind \in {"fetch", "rebuild", "rewrite"}
              PROVE  op[c].at <= now'
            <3>1. op[c].at \in Nat
                BY <2>1, <2>3 DEF Calls
            <3> QED BY <1>1, <2>1, <2>3, <3>1 DEF Timely
        <2> QED BY <2>1, <2>2, <2>3 DEF Timely
    <1>4. WindowsLegal'
        BY <1>1 DEF StallInv, WindowsLegal, Windows
    <1> QED BY <1>2, <1>3, <1>4 DEF StallInv

\* Lock durations: raise and purge apart, a step keeps the client's or starts from LockMillis.
LEMMA LegalStep ==
    ASSUME TypeOK, WindowsLegal, NEW c \in Clients, Start(c) \/ Continue(c) \/ Fail(c)
    PROVE  WindowsLegal'
    <1>1. inner[c] \in InnerStates /\ inner[c].lockMillis \in Windows
        BY ClientType DEF WindowsLegal
    <1>2. \A m : InnerWith(m).lockMillis \in Windows
        BY WindowsType DEF InnerWith
    <1>3. CASE UNCHANGED inner
        BY <1>3 DEF WindowsLegal, Windows
    <1>4. ASSUME NEW m, Become(c, InnerWith(m))
          PROVE  WindowsLegal'
        BY <1>4, <1>2, BecomeLegal
    <1>5. ASSUME NEW s, Become(c, s), s.lockMillis = inner[c].lockMillis
          PROVE  WindowsLegal'
        BY <1>1, <1>5, BecomeLegal
    <1>6. ASSUME NEW k, NEW order, Restore(c, k, order)
          PROVE  WindowsLegal'
        BY <1>1, <1>6, <1>5 DEF Restore, InnerStates
    <1>7. CASE Start(c)
        <2>1. CASE Open(c)
            BY <2>1, <1>4 DEF Open
        <2>2. CASE AddBatch(c) \/ Fetch(c) \/ Touch(c) \/ Purge(c) \/ DropDirectory(c)
            BY <2>2, <1>3 DEF AddBatch, Fetch, Touch, Purge, DropDirectory
        <2>3. CASE Raise(c)
            <3>1. PICK d \in Raises : Become(c, [inner[c] EXCEPT !.lockMillis = d])
                BY <2>3 DEF Raise
            <3>2. [inner[c] EXCEPT !.lockMillis = d].lockMillis \in Windows
                BY <1>1 DEF InnerStates, Windows
            <3> QED BY <3>1, <3>2, BecomeLegal
        <2>4. ASSUME NEW k \in Keys, Mark(c, k) \/ Reclaim(c, k) \/ Prolong(c, k)
              PROVE  WindowsLegal'
            BY <2>4, <1>3 DEF Mark, Reclaim, Prolong
        <2>5. ASSUME NEW k \in Keys, GiveUp(c, k)
              PROVE  WindowsLegal'
            BY <2>5, <1>1, <1>5 DEF GiveUp, InnerStates
        <2>6. ASSUME NEW k \in Keys, ProlongRefused(c, k)
              PROVE  WindowsLegal'
            <3>1. CASE Exists(k)
                BY <3>1, <2>6, <1>1, <1>5 DEF ProlongRefused, InnerStates
            <3>2. CASE ~Exists(k)
                BY <3>2, <2>6, <1>1, <1>5 DEF ProlongRefused, InnerStates
            <3> QED BY <3>1, <3>2
        <2> QED BY <1>7, <2>1, <2>2, <2>3, <2>4, <2>5, <2>6 DEF Start
    <1>8. CASE Continue(c)
        <2>1. CASE Create(c) \/ List(c) \/ Ready(c)
            BY <2>1, <1>3 DEF Create, List, Ready
        <2>2. CASE Clear(c)
            BY <2>2, <1>4 DEF Clear
        <2>3. CASE Rewrite(c)
            BY <2>3, <1>6 DEF Rewrite
        <2>4. CASE RebuildDone(c)
            BY <2>4, <1>1, <1>5 DEF RebuildDone, InnerStates
        <2>5. ASSUME NEW k \in Keys, Rebuild(c, k) \/ RebuildSkip(c, k)
              PROVE  WindowsLegal'
            BY <2>5, <1>3, <1>6 DEF Rebuild, RebuildSkip
        <2>6. CASE AddMalformed(c) \/ AddSkip(c) \/ AddDone(c) \/ FetchNothing(c) \/ Persist(c)
            BY <2>6, <1>3 DEF AddMalformed, AddSkip, AddDone, FetchNothing, Persist
        <2>7. CASE AddItem(c)
            BY <2>7, <1>1, <1>5 DEF AddItem, InnerStates
        <2>8. CASE AddWrite(c)
            BY <2>8, <1>1, <1>5 DEF AddWrite, InnerStates
        <2>9. CASE FetchLock(c) \/ Deliver(c)
            BY <2>9, <1>1, <1>5 DEF FetchLock, Deliver, InnerStates
        <2>10. CASE MarkWrite(c)
            BY <2>10, <1>1, <1>5 DEF MarkWrite, InnerStates
        <2>11. CASE ReclaimWrite(c)
            BY <2>11, <1>1, <1>5 DEF ReclaimWrite, InnerStates
        <2>12. CASE ProlongWrite(c)
            BY <2>12, <1>1, <1>5 DEF ProlongWrite, InnerStates
        <2>13. CASE PurgeDone(c)
            <3>1. Purged(inner[c]).lockMillis = inner[c].lockMillis
                BY DEF Purged, InnerWith
            <3> QED BY <2>13, <3>1, <1>5 DEF PurgeDone
        <2>14. CASE DropClear(c)
            BY <2>14, <1>1, <1>5 DEF DropClear, InnerStates
        <2>15. ASSUME NEW k \in Keys, FetchVanished(c, k) \/ FetchSkip(c, k)
               PROVE  WindowsLegal'
            BY <2>15, <1>1, <1>5 DEF FetchVanished, FetchSkip, InnerStates
        <2>16. ASSUME NEW k \in Keys, FetchFree(c, k) \/ PurgeFile(c, k) \/ PurgeFails(c, k)
               PROVE  WindowsLegal'
            BY <2>16, <1>3 DEF FetchFree, PurgeFile, PurgeFails
        <2> QED BY <1>8, <2>1, <2>2, <2>3, <2>4, <2>5, <2>6, <2>7, <2>8, <2>9, <2>10, <2>11, <2>12, <2>13,
                   <2>14, <2>15, <2>16 DEF Continue, Opening
    <1>9. CASE Fail(c)
        <2>1. CASE Crash(c) \/ OpenFails(c)
            BY <2>1, <1>4 DEF Crash, OpenFails, Stop
        <2>2. CASE RewriteFails(c)
            BY <2>2, <1>6 DEF RewriteFails
        <2>3. CASE WriteFails(c) \/ RemoveFails(c)
            BY <2>3, <1>3 DEF WriteFails, RemoveFails
        <2>4. ASSUME NEW k \in Keys, FetchReadFails(c, k)
              PROVE  WindowsLegal'
            BY <2>4, <1>1, <1>5 DEF FetchReadFails, InnerStates
        <2>5. ASSUME NEW k \in Keys, RebuildReadFails(c, k)
              PROVE  WindowsLegal'
            BY <2>5, <1>3 DEF RebuildReadFails
        <2> QED BY <1>9, <2>1, <2>2, <2>3, <2>4, <2>5 DEF Fail
    <1> QED BY <1>7, <1>8, <1>9

\* What is written was decided on within a window of the time it was decided.
LEMMA FilesTimelyStep ==
    ASSUME TypeOK, StallInv, NEW c \in Clients, Start(c) \/ Continue(c) \/ Fail(c)
    PROVE  FilesTimely'
    <1>0. FilesTimely /\ CallsTimely /\ op[c] \in Calls
        BY ClientType DEF StallInv
    <1>1. CASE UNCHANGED <<now, files>>
        BY <1>1, <1>0 DEF FilesTimely, Exists, Within, Windows
    <1>2. op[c].kind \in {"addWrite", "lock", "reclaim"} => op[c].key \in Keys /\ Within(op[c].order, now)
        BY <1>0 DEF Calls, CallsTimely, Timely
    <1>3. CASE Start(c)
        <2>1. CASE DropDirectory(c)
            BY <2>1 DEF DropDirectory, FilesTimely, Exists
        <2>2. CASE ~DropDirectory(c)
            BY <1>3, <2>2, <1>1 DEF Start, Open, AddBatch, Fetch, Touch, Raise, Purge, GiveUp, Mark, Reclaim,
               ProlongRefused, Prolong
        <2> QED BY <2>1, <2>2
    <1>4. CASE Continue(c)
        <2>1. CASE Create(c) \/ List(c) \/ Clear(c) \/ RebuildDone(c) \/ Ready(c)
            BY <2>1, <1>1 DEF Create, List, Clear, RebuildDone, Ready
        <2>2. CASE Rewrite(c)
            <3>1. op[c].key \in Keys /\ Within(op[c].order, now)
                BY <2>2, <1>0, AfterRewriteType DEF Rewrite, CallsTimely, Timely
            <3> QED BY <2>2, <3>1, <1>0, StallWrite DEF Rewrite
        <2>3. CASE AddMalformed(c) \/ AddSkip(c) \/ AddItem(c) \/ AddDone(c)
            BY <2>3, <1>1 DEF AddMalformed, AddSkip, AddItem, AddDone
        <2>4. CASE AddWrite(c)
            BY <2>4, <1>0, <1>2, StallWrite DEF AddWrite
        <2>5. CASE FetchLock(c)
            BY <2>5, <1>0, <1>2, StallWrite DEF FetchLock
        <2>6. CASE ReclaimWrite(c)
            BY <2>6, <1>0, <1>2, StallWrite DEF ReclaimWrite
        <2>7. CASE MarkWrite(c)
            <3>1. op[c].key \in Keys /\ Within(HandledFile(op[c].key).order, now)
                BY <2>7, <1>0 DEF MarkWrite, Calls, HandledFile, Within
            <3> QED BY <2>7, <3>1, <1>0, StallWrite DEF MarkWrite
        <2>8. CASE ProlongWrite(c)
            BY <2>8, <1>0 DEF ProlongWrite, CallsTimely, Timely
        <2>9. CASE FetchNothing(c) \/ Deliver(c) \/ Persist(c) \/ PurgeDone(c) \/ DropClear(c)
            BY <2>9, <1>1 DEF FetchNothing, Deliver, Persist, PurgeDone, DropClear
        <2>10. ASSUME NEW k \in Keys, PurgeFile(c, k)
               PROVE  FilesTimely'
            BY <2>10, <1>0, StallWrite DEF PurgeFile
        <2>11. ASSUME NEW k \in Keys, \/ Rebuild(c, k) \/ RebuildSkip(c, k) \/ FetchVanished(c, k)
                                      \/ FetchSkip(c, k) \/ FetchFree(c, k) \/ PurgeFails(c, k)
               PROVE  FilesTimely'
            BY <2>11, <1>1 DEF Rebuild, RebuildSkip, FetchVanished, FetchSkip, FetchFree, PurgeFails
        <2> QED BY <1>4, <2>1, <2>2, <2>3, <2>4, <2>5, <2>6, <2>7, <2>8, <2>9, <2>10, <2>11 DEF Continue, Opening
    <1>5. CASE Fail(c)
        BY <1>5, <1>1 DEF Fail, Crash, OpenFails, RewriteFails, WriteFails, RemoveFails, FetchReadFails,
           RebuildReadFails
    <1> QED BY <1>3, <1>4, <1>5

\* A call that works through keys keeps the reading of the clock it began with.
LEMMA TodoTimely ==
    ASSUME TypeOK, CallsTimely, NEW c \in Clients, NEW S, op[c].kind \in {"rebuild", "fetch", "purge"}
    PROVE  Timely([op[c] EXCEPT !.todo = S])
    BY ClientType DEF Calls, CallsTimely, Timely

LEMMA CallsTimelyStart ==
    ASSUME TypeOK, StallInv, "prolong" \notin Ops, NEW c \in Clients, Start(c)
    PROVE  CallsTimely'
    <1>0. CallsTimely /\ now \in Nat
        BY DEF StallInv, TypeOK
    <1>1. CASE UNCHANGED <<now, op>>
        BY <1>1, <1>0 DEF CallsTimely, Timely, Within, Windows
    <1>2. ASSUME NEW call, Go(c, call), Plain(call), UNCHANGED now
          PROVE  CallsTimely'
        BY <1>2, <1>0, PlainTimely, StallGo
    <1>3. CASE Open(c)
        <2>1. PICK sole \in AccessModes :
                  Go(c, [kind |-> IF disk = Absent THEN "create" ELSE "list", sole |-> sole])
            BY <1>3 DEF Open
        <2>2. Plain([kind |-> IF disk = Absent THEN "create" ELSE "list", sole |-> sole])
            BY DEF Plain
        <2> QED BY <1>3, <2>1, <2>2, <1>2 DEF Open
    <1>4. CASE AddBatch(c)
        BY <1>4, <1>2 DEF AddBatch, Plain
    <1>5. CASE Fetch(c)
        <2>1. Timely([kind |-> "fetch", todo |-> Candidates(c, now), at |-> now])
            BY <1>0 DEF Timely
        <2> QED BY <1>5, <1>0, <2>1, StallGo DEF Fetch
    <1>6. CASE Touch(c)
        BY <1>6, <1>2 DEF Touch, Plain
    <1>7. CASE Purge(c)
        BY <1>7, <1>2 DEF Purge, Plain
    <1>8. CASE Raise(c) \/ DropDirectory(c)
        BY <1>8, <1>1 DEF Raise, DropDirectory
    <1>9. ASSUME NEW k \in Keys, GiveUp(c, k) \/ ProlongRefused(c, k) \/ Prolong(c, k)
          PROVE  CallsTimely'
        BY <1>9, <1>1 DEF GiveUp, ProlongRefused, Prolong
    <1>10. ASSUME NEW k \in Keys, Mark(c, k)
           PROVE  CallsTimely'
        BY <1>10, <1>2 DEF Mark, Plain
    <1>11. ASSUME NEW k \in Keys, Reclaim(c, k)
           PROVE  CallsTimely'
        <2>1. PICK forefront \in BOOLEAN, handledAt \in ReclaimStamped :
                  Go(c, [kind |-> "reclaim", key |-> k, forefront |-> forefront, handledAt |-> handledAt,
                         order |-> CalculateOrderNo(forefront, now)])
            BY <1>11 DEF Reclaim
        <2>2. Within(now, now) /\ Within(-now, now)
            BY <1>0, WindowsType DEF Within, IsLockedOrder
        <2>3. Within(CalculateOrderNo(forefront, now), now)
            BY <2>2, Zenon DEF CalculateOrderNo
        <2>4. Timely([kind |-> "reclaim", key |-> k, forefront |-> forefront, handledAt |-> handledAt,
                      order |-> CalculateOrderNo(forefront, now)])
            BY <2>3 DEF Timely
        <2> QED BY <1>11, <1>0, <2>1, <2>4, StallGo DEF Reclaim
    <1> QED BY <1>3, <1>4, <1>5, <1>6, <1>7, <1>8, <1>9, <1>10, <1>11 DEF Start

LEMMA CallsTimelyContinue ==
    ASSUME TypeOK, StallInv, NEW c \in Clients, Continue(c)
    PROVE  CallsTimely'
    <1>0. /\ CallsTimely
          /\ now \in Nat
          /\ op[c] \in Calls
          /\ Timely(op[c])
          /\ inner[c].lockMillis \in Windows
        BY ClientType DEF StallInv, CallsTimely, WindowsLegal, TypeOK
    <1>1. ASSUME NEW call, Go(c, call), Plain(call), UNCHANGED now
          PROVE  CallsTimely'
        BY <1>1, <1>0, PlainTimely, StallGo
    <1>2. Plain(Idle) /\ (\A S : Plain([kind |-> "persist", done |-> S]))
        BY DEF Plain, Idle
    <1>3. CASE Create(c)
        BY <1>3, <1>1 DEF Create, Plain
    <1>4. CASE List(c)
        BY <1>4, <1>1 DEF List, Plain
    <1>5. CASE Clear(c)
        <2>1. Timely([kind |-> "rebuild", sole |-> op[c].sole, todo |-> op[c].todo, at |-> now])
            BY <1>0 DEF Timely
        <2> QED BY <1>5, <1>0, <2>1, StallGo DEF Clear
    <1>6. CASE Rewrite(c)
        <2>1. Timely(AfterRewrite(c))
            BY <1>6, <1>0 DEF Rewrite, AfterRewrite, Timely
        <2> QED BY <1>6, <1>0, <2>1, StallGo DEF Rewrite
    <1>7. CASE RebuildDone(c)
        BY <1>7, <1>1 DEF RebuildDone, Plain
    <1>8. CASE Ready(c) \/ AddMalformed(c) \/ FetchNothing(c) \/ Deliver(c) \/ Persist(c)
        BY <1>8, <1>1, <1>2 DEF Ready, AddMalformed, FetchNothing, Deliver, Persist
    <1>9. ASSUME NEW k \in Keys, Rebuild(c, k)
          PROVE  CallsTimely'
        <2> DEFINE order == RestoredOrder(files[k], op[c].at)
                   set == WithSignOf(order, op[c].at)
                   rewrite == [kind |-> "rewrite", sole |-> op[c].sole, todo |-> op[c].todo \ {k},
                               at |-> op[c].at, key |-> k, order |-> set]
                   on == [op[c] EXCEPT !.todo = op[c].todo \ {k}]
        <2>1. op[c].kind = "rebuild" /\ op[c].at \in Nat /\ op[c].at <= now /\ Exists(k)
            BY <1>9, <1>0 DEF Rebuild, RebuildNext, Calls, Timely
        <2>2. order \in Orders
            BY <2>1, RestoredOrderType DEF Exists, TypeOK
        <2>3. CASE MustReclaim(op[c].sole, order, op[c].at)
            <3>1. order \in Int
                BY <2>2, <2>3 DEF MustReclaim, Orders
            <3>2. Within(set, now)
                BY <1>0, <2>1, <3>1, WithinNow, WindowsType
            <3>3. Timely(rewrite)
                <4> HIDE DEF set
                <4> QED BY <2>1, <3>2 DEF Timely
            <3>4. Go(c, rewrite)
                BY <1>9, <2>3 DEF Rebuild
            <3>5. UNCHANGED now
                BY <1>9 DEF Rebuild
            <3> HIDE DEF rewrite
            <3> QED BY <1>0, <3>3, <3>4, <3>5, StallGo
        <2>4. CASE ~MustReclaim(op[c].sole, order, op[c].at)
            <3>1. Go(c, on) /\ UNCHANGED now
                BY <1>9, <2>4 DEF Rebuild
            <3> QED BY <1>0, <2>1, <3>1, TodoTimely, StallGo
        <2> QED BY <2>3, <2>4
    <1>10. ASSUME NEW k \in Keys, RebuildSkip(c, k) \/ FetchVanished(c, k) \/ FetchSkip(c, k) \/ PurgeFile(c, k)
           PROVE  CallsTimely'
        <2>1. Go(c, [op[c] EXCEPT !.todo = op[c].todo \ {k}]) /\ op[c].kind \in {"rebuild", "fetch", "purge"}
            BY <1>10 DEF RebuildSkip, FetchVanished, FetchSkip, PurgeFile, RebuildNext, FetchNext
        <2>2. UNCHANGED now
            BY <1>10 DEF RebuildSkip, FetchVanished, FetchSkip, PurgeFile
        <2> QED BY <1>0, <2>1, <2>2, TodoTimely, StallGo
    <1>11. CASE AddSkip(c)
        <2>1. Plain([op[c] EXCEPT !.batch = Tail(@)])
            <3>1. op[c] \in [kind : {"add"}, batch : Seq(Items), forefront : BOOLEAN]
                BY <1>11, <1>0 DEF AddSkip, Calls
            <3> QED BY <3>1 DEF Plain
        <2> QED BY <1>11, <1>1, <2>1 DEF AddSkip
    <1>12. CASE AddItem(c)
        <2> DEFINE item == Head(op[c].batch)
                   order == AddedOrder(item, op[c].forefront, now)
                   call == [kind |-> "addWrite", key |-> item.key, handledAt |-> item.handledAt,
                            order |-> order, seq |-> inner[c].counter,
                            batch |-> Tail(op[c].batch), forefront |-> op[c].forefront]
        <2>1. Within(now, now) /\ Within(-now, now) /\ Within(None, now)
            BY <1>0, WindowsType, NoneAssumption DEF Within, IsLockedOrder
        <2>2. Within(order, now)
            BY <2>1, Zenon DEF AddedOrder, CalculateOrderNo
        <2>3. Timely(call)
            <3> HIDE DEF order, item
            <3> QED BY <2>2 DEF Timely
        <2>4. Go(c, call)
            BY <1>12 DEF AddItem
        <2>5. UNCHANGED now
            BY <1>12 DEF AddItem
        <2> HIDE DEF call
        <2> QED BY <1>0, <2>3, <2>4, <2>5, StallGo
    <1>13. CASE AddWrite(c)
        BY <1>13, <1>1 DEF AddWrite, Plain
    <1>14. CASE AddDone(c) \/ PurgeDone(c)
        BY <1>14, <1>1, <1>2 DEF AddDone, PurgeDone
    <1>15. CASE FetchLock(c)
        BY <1>15, <1>1 DEF FetchLock, Plain
    <1>16. CASE MarkWrite(c) \/ ReclaimWrite(c) \/ ProlongWrite(c)
        BY <1>16, <1>1, <1>2 DEF MarkWrite, ReclaimWrite, ProlongWrite
    <1>17. CASE DropClear(c)
        BY <1>17 DEF DropClear, StallInv, CallsTimely, Timely, Within, Windows
    <1>18. ASSUME NEW k \in Keys, FetchFree(c, k)
           PROVE  CallsTimely'
        <2> DEFINE order == LockOrder(files[k].order, op[c].at, inner[c].lockMillis)
        <2>1. files[k].order \in Int
            BY <1>18 DEF FetchFree, Exists, MustSkip, TypeOK, Files, Orders
        <2>2. op[c].at \in Nat /\ op[c].at <= now
            BY <1>18, <1>0 DEF FetchFree, FetchNext, Calls, Timely
        <2>3. Within(order, now)
            BY <1>0, <2>1, <2>2, WithinNow
        <2>4. Timely([kind |-> "lock", key |-> k, handledAt |-> files[k].handledAt, order |-> order])
            <3> HIDE DEF order
            <3> QED BY <2>3 DEF Timely
        <2> QED BY <1>18, <1>0, <2>4, StallGo DEF FetchFree
    <1>19. ASSUME NEW k \in Keys, PurgeFails(c, k)
           PROVE  CallsTimely'
        BY <1>19, <1>1, <1>2 DEF PurgeFails
    <1> QED BY <1>3, <1>4, <1>5, <1>6, <1>7, <1>8, <1>9, <1>10, <1>11, <1>12, <1>13, <1>14, <1>15, <1>16,
               <1>17, <1>18, <1>19 DEF Continue, Opening

LEMMA CallsTimelyFail ==
    ASSUME TypeOK, StallInv, NEW c \in Clients, Fail(c)
    PROVE  CallsTimely'
    <1>0. CallsTimely /\ Timely(op[c])
        BY DEF StallInv, CallsTimely
    <1>1. ASSUME NEW call, Go(c, call), Plain(call), UNCHANGED now
          PROVE  CallsTimely'
        BY <1>1, <1>0, PlainTimely, StallGo
    <1>2. Plain(Idle) /\ Plain(Closed)
        BY DEF Plain, Idle, Closed
    <1>3. CASE Crash(c) \/ OpenFails(c)
        BY <1>3, <1>1, <1>2 DEF Crash, OpenFails, Stop
    <1>4. CASE RewriteFails(c)
        <2>1. Timely(AfterRewrite(c))
            BY <1>4, <1>0 DEF RewriteFails, AfterRewrite, Timely
        <2> QED BY <1>4, <1>0, <2>1, StallGo DEF RewriteFails
    <1>5. CASE WriteFails(c) \/ RemoveFails(c)
        BY <1>5, <1>1, <1>2 DEF WriteFails, RemoveFails
    <1>6. ASSUME NEW k \in Keys, FetchReadFails(c, k) \/ RebuildReadFails(c, k)
          PROVE  CallsTimely'
        BY <1>6, <1>0, TodoTimely, StallGo DEF FetchReadFails, RebuildReadFails, FetchNext, RebuildNext
    <1> QED BY <1>3, <1>4, <1>5, <1>6 DEF Fail

\* No lock on disk ends later than one lock window from now, whichever client took it
\* and whatever became of it, as long as no caller prolongs a lock.
THEOREM StallIsBounded ==
    ASSUME "prolong" \notin Ops
    PROVE  Spec => []StallBounded
    <1>1. Init => StallInv
        BY WindowsType DEF Init, StallInv, FilesTimely, CallsTimely, WindowsLegal, Exists, Within, Timely,
           Closed, InnerWith
    <1>2. TypeOK /\ StallInv /\ [Next]_vars => StallInv'
        <2> SUFFICES ASSUME TypeOK, StallInv, [Next]_vars PROVE StallInv'
            OBVIOUS
        <2>1. CASE Tick
            BY <2>1, StallTick
        <2>2. CASE UNCHANGED vars
            BY <2>2, StallStutter DEF vars
        <2>3. ASSUME NEW c \in Clients, Start(c) \/ Continue(c) \/ Fail(c) PROVE StallInv'
            BY <2>3, LegalStep, FilesTimelyStep, CallsTimelyStart, CallsTimelyContinue, CallsTimelyFail
               DEF StallInv
        <2> QED BY <2>1, <2>2, <2>3 DEF Next
    <1>3. StallInv => StallBounded
        BY DEF StallInv, FilesTimely, StallBounded, Pending, Within, Windows
    <1> QED BY <1>1, <1>2, <1>3, TypeCorrect, PTL DEF Spec

=============================================================================
