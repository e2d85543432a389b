------------------------ MODULE RequestQueueLockProofs ------------------------
(***************************************************************************)
(* The locks of the requests that clients of one directory hand out, for   *)
(* any number of clients and requests, as long as the calls of different   *)
(* clients do not overlap in time.                                         *)
(***************************************************************************)
EXTENDS RequestQueueProofs

\* The use of the queue the theorems are about.  The code keeps no lock without it:
\* each conjunct excludes a call that writes a request file over a lock another
\* client holds, or over one the caller of the call does not know of.
SerialUse ==
    /\ ~Overlap                           \* one call after another,
    /\ AccessModes \subseteq {FALSE}      \* no opening as the sole owner,
    /\ "reclaim" \notin Late              \* only one's own requests are reclaimed,
    /\ ReclaimStamped \subseteq {FALSE}   \* and not as handled ones;
    /\ {"purge", "drop"} \cap Ops = {}    \* nothing is removed;
    /\ \A p, q \in Producers : p = q      \* one client adds requests,
    /\ \A call \in Adds : ~call.forefront \* and moves none to the forefront;
    /\ LegacyKeys = {}                    \* every file has an orderNo,
    /\ "read" \notin FaultKinds           \* and every file can be read.

-------------------------------------------------------------------------------
(* The inductive invariant *)

Resting == {"closed", "idle"}
Blank == {"closed", "create", "list"}

OneAtATime ==
    /\ dropping = {}
    /\ \A c, d \in Clients : c # d => op[c].kind \in Resting \/ op[d].kind \in Resting

NobodyElseHolds(c, k) == \A d \in Clients \ {c} : ~Live(d, k)
NobodyHolds(k) == \A d \in Clients : ~Live(d, k)

\* What c's call in progress may count on when it comes to write.
SoundCall(c) ==
    /\ op[c].kind \notin {"rewrite", "purge"}
    /\ op[c].kind \in {"create", "list", "clear", "rebuild", "ready"} => ~op[c].sole
    /\ op[c].kind \in {"add", "addWrite"} => c \in Producers /\ ~op[c].forefront
    /\ op[c].kind = "addWrite" => ~Exists(op[c].key)
    /\ op[c].kind \in {"lock", "deliver", "mark", "reclaim", "prolong"} => Exists(op[c].key)
    /\ op[c].kind = "fetch" => op[c].at <= now
    /\ op[c].kind \in {"lock", "deliver"} => NobodyHolds(op[c].key)
    /\ op[c].kind \in {"reclaim", "prolong"} => NobodyElseHolds(c, op[c].key)
    /\ op[c].kind = "deliver" => files[op[c].key].order = op[c].order

\* A client knows of no request that has no file, and the one that adds requests
\* knows of every one that has.
SoundIndex(c) ==
    /\ \A k \in Keys : Indexed(c, k) => Exists(k)
    /\ c \in Producers /\ op[c].kind \notin Blank =>
           \A k \in Keys : Exists(k) => \/ op[c].kind # "clear" /\ Indexed(c, k)
                                        \/ op[c].kind \in {"clear", "rebuild"} /\ k \in op[c].todo

\* As LiveLockOnDisk, at every moment.
LockOnDisk ==
    \A c \in Clients, k \in Keys :
        Live(c, k) => Handled(k) \/ (Exists(k) /\ files[k].order = inner[c].held[k])

LockInv ==
    /\ OneAtATime
    /\ \A c \in Clients : SoundCall(c) /\ SoundIndex(c)
    /\ LockOnDisk
    /\ MutualExclusion

-------------------------------------------------------------------------------
(* Steps in general *)

\* A step of c leaves the other clients alone.
OthersStay(c) == \A d \in Clients \ {c} : op'[d] = op[d] /\ inner'[d] = inner[d]

LEMMA OthersStayed ==
    ASSUME TypeOK, NEW c \in Clients, NEW call, Go(c, call) \/ UNCHANGED op,
           NEW state, Become(c, state) \/ UNCHANGED inner
    PROVE  OthersStay(c)
    BY DEF TypeOK, Go, Become, OthersStay

\* c begins no call while another goes on.
HasTurn(c) ==
    op[c].kind \in Resting => op'[c].kind \in Resting \/ \A d \in Clients \ {c} : op[d].kind \in Resting

LEMMA TurnKept ==
    ASSUME TypeOK, OneAtATime, NEW c \in Clients, OthersStay(c), dropping' = {}, HasTurn(c)
    PROVE  OneAtATime'
    BY DEF OneAtATime, OthersStay, HasTurn, Resting

\* A step that lets go of locks, or lets time pass, and touches no file leaves no new lock.
Relaxes(c) ==
    /\ UNCHANGED files
    /\ now' \in Nat /\ now <= now'
    /\ \A k \in Keys : inner'[c].held[k] \in {None, inner[c].held[k]}

LEMMA FewerLive ==
    ASSUME TypeOK, TypeOK', NEW c \in Clients, OthersStay(c), Relaxes(c)
    PROVE  \A d \in Clients, k \in Keys : Live(d, k)' => Live(d, k) /\ inner'[d].held[k] = inner[d].held[k]
    <1> SUFFICES ASSUME NEW d \in Clients, NEW k \in Keys, Live(d, k)'
                 PROVE  Live(d, k) /\ inner'[d].held[k] = inner[d].held[k]
        OBVIOUS
    <1>1. inner'[d].held[k] = inner[d].held[k]
        BY DEF OthersStay, Relaxes, Live
    <1>2. inner[d].held[k] \in Int
        BY <1>1, ClientType DEF Live, Orders
    <1>3. now \in Nat
        BY DEF TypeOK
    <1> QED BY <1>1, <1>2, <1>3, NoneAssumption DEF Live, IsLockedOrder, Relaxes

\* Such a step keeps what is said of the locks and of the other clients' calls.
LEMMA RelaxStep ==
    ASSUME TypeOK, TypeOK', LockInv, NEW c \in Clients, OthersStay(c), Relaxes(c), HasTurn(c),
           dropping' = {}, SoundCall(c)', SoundIndex(c)'
    PROVE  LockInv'
    <1>1. OneAtATime'
        BY TurnKept DEF LockInv
    <1>2. \A d \in Clients, k \in Keys : Live(d, k)' => Live(d, k) /\ inner'[d].held[k] = inner[d].held[k]
        BY FewerLive
    <1>3. LockOnDisk'
        BY <1>2 DEF LockInv, LockOnDisk, Relaxes, Handled, Exists
    <1>4. MutualExclusion'
        BY <1>2 DEF LockInv, MutualExclusion
    <1>5. ASSUME NEW d \in Clients \ {c} PROVE SoundIndex(d)'
        BY DEF LockInv, SoundIndex, OthersStay, Relaxes, Indexed, Exists
    <1>6. ASSUME NEW d \in Clients \ {c} PROVE SoundCall(d)'
        <2>1. SoundCall(d) /\ op'[d] = op[d] /\ files' = files /\ now <= now' /\ now' \in Nat
            BY DEF LockInv, OthersStay, Relaxes
        <2>2. op[d].kind \in {"lock", "deliver", "reclaim", "prolong"} => op[d].key \in Keys
            BY ClientType DEF Calls
        <2>3. op[d].kind = "fetch" => op[d].at <= now'
            <3>1. op[d].kind = "fetch" => op[d].at \in Nat
                BY ClientType DEF Calls
            <3>2. now \in Nat
                BY DEF TypeOK
            <3> QED BY <2>1, <3>1, <3>2 DEF SoundCall
        <2>4. op[d].kind \in {"lock", "deliver"} => NobodyHolds(op[d].key)'
            BY <1>2, <2>1, <2>2 DEF SoundCall, NobodyHolds
        <2>5. op[d].kind \in {"reclaim", "prolong"} => NobodyElseHolds(d, op[d].key)'
            BY <1>2, <2>1, <2>2 DEF SoundCall, NobodyElseHolds
        <2> QED BY <2>1, <2>3, <2>4, <2>5 DEF SoundCall, Exists, NobodyHolds, NobodyElseHolds
    <1> QED BY <1>1, <1>3, <1>4, <1>5, <1>6 DEF LockInv

\* A step of an open client that writes no request file: it forgets no request there is,
\* learns of none, and holds no new lock.
LEMMA QuietStep ==
    ASSUME TypeOK, TypeOK', LockInv, SerialUse, NEW c \in Clients, OthersStay(c),
           UNCHANGED <<now, files, dropping>>, MayStart(c) \/ op[c].kind \notin Resting,
           op[c].kind \notin {"closed", "create", "list", "clear", "rebuild"}, op'[c].kind \notin {"clear", "rebuild"},
           \A k \in Keys : inner'[c].held[k] \in {None, inner[c].held[k]},
           \A k \in Keys : Indexed(c, k)' => Indexed(c, k),
           \A k \in Keys : Exists(k) /\ Indexed(c, k) => Indexed(c, k)',
           SoundCall(c)'
    PROVE  LockInv'
    <1>1. Relaxes(c)
        BY DEF Relaxes, TypeOK
    <1>2. SoundIndex(c)'
        BY DEF LockInv, SoundIndex, Blank, Exists
    <1>3. dropping' = {}
        BY DEF LockInv, OneAtATime
    <1>4. HasTurn(c)
        BY DEF HasTurn, MayStart, SerialUse, Resting
    <1> QED BY <1>1, <1>2, <1>3, <1>4, RelaxStep

\* A call that is over, or about to write the metadata.
LEMMA EndSound ==
    ASSUME NEW c \in Clients, op'[c].kind \in {"closed", "idle", "persist"}
    PROVE  SoundCall(c)'
    BY DEF SoundCall

\* The same for a step that leaves index and locks alone.
LEMMA StillStep ==
    ASSUME TypeOK, TypeOK', LockInv, SerialUse, NEW c \in Clients, OthersStay(c),
           UNCHANGED <<now, files, dropping>>, MayStart(c) \/ op[c].kind \notin Resting,
           op[c].kind \notin {"closed", "create", "list", "clear", "rebuild"}, op'[c].kind \notin {"clear", "rebuild"},
           inner'[c].held = inner[c].held, inner'[c].requests = inner[c].requests,
           SoundCall(c)'
    PROVE  LockInv'
    BY QuietStep DEF Indexed

\* A step that writes the file of request k and ends with a lock on it only if the file
\* carries that lock and nobody else holds one.
LEMMA WriteStep ==
    ASSUME TypeOK, TypeOK', LockInv, SerialUse, NEW c \in Clients, OthersStay(c), UNCHANGED <<now, dropping>>,
           op[c].kind \in {"addWrite", "lock", "mark", "reclaim", "prolong"},
           op'[c].kind \notin {"clear", "rebuild"},
           NEW k \in Keys, NEW file \in Files, WriteRequest(k, file), file # Absent,
           \A j \in Keys \ {k} : inner'[c].held[j] = inner[c].held[j],
           \A j \in Keys : Indexed(c, j)' => Indexed(c, j) \/ j = k,
           \A j \in Keys : Indexed(c, j) => Indexed(c, j)',
           Exists(k) \/ (c \in Producers /\ Indexed(c, k)'),
           file.handledAt \/ NobodyElseHolds(c, k),
           Live(c, k)' => file.order = inner'[c].held[k] /\ NobodyElseHolds(c, k),
           SoundCall(c)'
    PROVE  LockInv'
    <1>1. OneAtATime'
        <2>1. dropping' = {}
            BY DEF LockInv, OneAtATime
        <2> QED BY <2>1, TurnKept DEF LockInv, HasTurn, Resting
    <1>2. ASSUME NEW d \in Clients \ {c} PROVE op'[d] = op[d] /\ inner'[d] = inner[d] /\ op[d].kind \in Resting
        BY DEF OthersStay, LockInv, OneAtATime, Resting
    <1>3. \A d \in Clients, j \in Keys : d # c \/ j # k => Live(d, j)' = Live(d, j) /\ inner'[d].held[j] = inner[d].held[j]
        BY <1>2 DEF Live
    <1>4. \A j \in Keys : files'[j] = IF j = k THEN file ELSE files[j]
        BY DEF WriteRequest, TypeOK
    <1>5. LockOnDisk'
        <2> SUFFICES ASSUME NEW d \in Clients, NEW j \in Keys, Live(d, j)'
                     PROVE  Handled(j)' \/ (Exists(j)' /\ files'[j].order = inner'[d].held[j])
            BY DEF LockOnDisk
        <2>1. CASE j # k
            BY <2>1, <1>3, <1>4 DEF LockInv, LockOnDisk, Handled, Exists
        <2>2. CASE j = k /\ d = c
            BY <2>2, <1>4 DEF Exists
        <2>3. CASE j = k /\ d # c
            BY <2>3, <1>3, <1>4 DEF NobodyElseHolds, Handled, Exists
        <2> QED BY <2>1, <2>2, <2>3
    <1>6. MutualExclusion'
        BY <1>3 DEF LockInv, MutualExclusion, NobodyElseHolds
    <1>7. \A d \in Clients \ {c} : SoundCall(d)'
        BY <1>2 DEF SoundCall, Resting
    <1>8. \A d \in Clients, j \in Keys : Indexed(d, j)' => Exists(j)'
        BY <1>2, <1>4 DEF LockInv, SoundIndex, Indexed, Exists
    <1>9. ASSUME NEW d \in Clients, d \in Producers, op'[d].kind \notin Blank, NEW j \in Keys, Exists(j)'
          PROVE  op'[d].kind # "clear" /\ Indexed(d, j)'
        <2>1. CASE d = c
            <3>1. Exists(j) => Indexed(c, j)
                BY <2>1, <1>9 DEF LockInv, SoundIndex, Blank
            <3> QED BY <2>1, <3>1, <1>4, <1>9 DEF Exists
        <2>2. CASE d # c
            <3>1. c \notin Producers /\ Exists(k)
                BY <2>2, <1>9 DEF SerialUse
            <3>2. Exists(j)
                BY <3>1, <1>4, <1>9 DEF Exists
            <3>3. op[d].kind \notin Blank /\ op[d].kind = "idle" /\ op'[d] = op[d]
                BY <2>2, <1>2, <1>9 DEF Blank, Resting
            <3>4. Indexed(d, j)
                BY <3>2, <3>3, <1>9 DEF LockInv, SoundIndex
            <3> QED BY <2>2, <3>3, <3>4, <1>2 DEF Indexed
        <2> QED BY <2>1, <2>2
    <1>10. \A d \in Clients : SoundIndex(d)'
        BY <1>8, <1>9 DEF SoundIndex
    <1> QED BY <1>1, <1>5, <1>6, <1>7, <1>10 DEF LockInv

\* Resync gives no key an entry and takes none away.
LEMMA FileOrder ==
    ASSUME TypeOK, NEW k \in Keys, Exists(k)
    PROVE  files[k].order \in Orders /\ files[k].handledAt \in BOOLEAN
    BY DEF TypeOK, Exists, Files

LEMMA ResyncIndexed ==
    ASSUME TypeOK, TypeOK', NEW c \in Clients, NEW k \in Keys, NEW order \in Orders,
           inner'[c].requests = Resync(c, k, order)
    PROVE  \A j \in Keys : Indexed(c, j)' <=> Indexed(c, j)
    <1>1. inner[c].requests \in [Keys -> Entries \cup {Absent}]
        BY ClientType
    <1>2. Indexed(c, k) => [inner[c].requests[k] EXCEPT !.order = order] \in Entries
        BY <1>1 DEF Indexed, Entries
    <1> QED BY <1>1, <1>2, AbsentAssumption DEF Resync, Indexed

-------------------------------------------------------------------------------
(* The calls callers make *)

LEMMA LockOpen ==
    ASSUME TypeOK, TypeOK', LockInv, SerialUse, NEW c \in Clients, Open(c)
    PROVE  LockInv'
    <1>1. PICK sole \in AccessModes :
              Go(c, [kind |-> IF disk = Absent THEN "create" ELSE "list", sole |-> sole])
        BY DEF Open
    <1>2. ~sole
        BY DEF SerialUse
    <1>3. op'[c] = [kind |-> IF disk = Absent THEN "create" ELSE "list", sole |-> sole]
        BY <1>1 DEF Go, TypeOK
    <1>4. inner'[c] = InnerWith(IF disk = Absent THEN NewMetadata ELSE disk)
        BY DEF Open, Become, TypeOK
    <1>5. OthersStay(c)
        BY OthersStayed DEF Open
    <1>6. SoundCall(c)'
        BY <1>2, <1>3 DEF SoundCall
    <1>7. SoundIndex(c)'
        BY <1>3, <1>4 DEF SoundIndex, Blank, Indexed, InnerWith
    <1>8. Relaxes(c)
        BY <1>4 DEF Open, Relaxes, InnerWith, TypeOK
    <1>9. HasTurn(c)
        BY DEF Open, HasTurn, SerialUse, Resting
    <1>10. dropping' = {}
        BY DEF Open, LockInv, OneAtATime
    <1> QED BY <1>5, <1>6, <1>7, <1>8, <1>9, <1>10, RelaxStep

LEMMA LockStart ==
    ASSUME TypeOK, TypeOK', LockInv, SerialUse, NEW c \in Clients, Start(c)
    PROVE  LockInv'
    <1>1. CASE Open(c)
        BY <1>1, LockOpen
    <1>2. CASE AddBatch(c)
        <2>1. PICK call \in Adds : Go(c, [kind |-> "add", batch |-> call.batch, forefront |-> call.forefront])
            BY <1>2 DEF AddBatch
        <2>2. op'[c] = [kind |-> "add", batch |-> call.batch, forefront |-> call.forefront]
            BY <2>1 DEF Go, TypeOK
        <2>3. SoundCall(c)'
            BY <1>2, <2>2 DEF AddBatch, SoundCall, SerialUse
        <2>4. OthersStay(c)
            BY <1>2, <2>1, OthersStayed DEF AddBatch
        <2> QED BY <1>2, <2>2, <2>3, <2>4, StillStep DEF AddBatch, MayStart, Idle
    <1>3. CASE Fetch(c)
        <2>1. op'[c] = [kind |-> "fetch", todo |-> Candidates(c, now), at |-> now]
            BY <1>3 DEF Fetch, Go, TypeOK
        <2>2. SoundCall(c)'
            BY <1>3, <2>1 DEF Fetch, SoundCall, TypeOK
        <2>3. OthersStay(c)
            BY <1>3, OthersStayed DEF Fetch
        <2> QED BY <1>3, <2>1, <2>2, <2>3, StillStep DEF Fetch, MayStart, Idle
    <1>4. CASE Touch(c)
        <2>1. op'[c] = [kind |-> "persist", done |-> {}]
            BY <1>4 DEF Touch, Go, TypeOK
        <2>2. OthersStay(c)
            BY <1>4, OthersStayed DEF Touch
        <2> QED BY <1>4, <2>1, <2>2, EndSound, StillStep DEF Touch, MayStart, Idle
    <1>5. CASE Raise(c)
        <2>1. PICK d \in Raises : Become(c, [inner[c] EXCEPT !.lockMillis = d])
            BY <1>5 DEF Raise
        <2>2. inner'[c].held = inner[c].held /\ inner'[c].requests = inner[c].requests
            BY <2>1, ClientType DEF Become, TypeOK, InnerStates
        <2>3. OthersStay(c)
            BY <1>5, <2>1, OthersStayed DEF Raise
        <2>4. op[c] = Idle /\ op'[c] = Idle
            BY <1>5 DEF Raise, MayStart
        <2> QED BY <1>5, <2>2, <2>3, <2>4, EndSound, StillStep DEF Raise, Idle
    <1>6. CASE Purge(c) \/ DropDirectory(c)
        BY <1>6 DEF Purge, DropDirectory, SerialUse
    <1>7. ASSUME NEW k \in Keys, GiveUp(c, k) PROVE LockInv'
        <2>1. inner'[c] = [inner[c] EXCEPT !.held[k] = None]
            BY <1>7 DEF GiveUp, Become, TypeOK
        <2>2. inner'[c].requests = inner[c].requests /\ \A j \in Keys : inner'[c].held[j] \in {None, inner[c].held[j]}
            BY <2>1, ClientType DEF InnerStates
        <2>3. OthersStay(c)
            BY <1>7, OthersStayed DEF GiveUp
        <2>4. op[c] = Idle /\ op'[c] = Idle
            BY <1>7 DEF GiveUp, MayStart
        <2> QED BY <1>7, <2>2, <2>3, <2>4, EndSound, QuietStep DEF GiveUp, Idle, Indexed
    <1>8. ASSUME NEW k \in Keys, Mark(c, k) PROVE LockInv'
        <2>1. op'[c] = [kind |-> "mark", key |-> k]
            BY <1>8 DEF Mark, Go, TypeOK
        <2>2. Exists(k)
            BY <1>8 DEF Mark, NothingToDo, LockInv, SoundIndex
        <2>3. SoundCall(c)'
            BY <1>8, <2>1, <2>2 DEF Mark, SoundCall, Exists
        <2>4. OthersStay(c)
            BY <1>8, OthersStayed DEF Mark
        <2> QED BY <1>8, <2>1, <2>3, <2>4, StillStep DEF Mark, MayStart, Idle
    <1>9. ASSUME NEW k \in Keys, Reclaim(c, k) PROVE LockInv'
        <2>1. PICK forefront \in BOOLEAN, handledAt \in ReclaimStamped :
                  Go(c, [kind |-> "reclaim", key |-> k, forefront |-> forefront, handledAt |-> handledAt,
                         order |-> CalculateOrderNo(forefront, now)])
            BY <1>9 DEF Reclaim
        <2>2. op'[c].kind = "reclaim" /\ op'[c].key = k
            BY <2>1 DEF Go, TypeOK
        <2>3. Exists(k)
            BY <1>9 DEF Reclaim, NothingToDo, LockInv, SoundIndex
        <2>4. NobodyElseHolds(c, k)
            BY <1>9 DEF Reclaim, SerialUse, LockInv, MutualExclusion, NobodyElseHolds
        <2>5. OthersStay(c)
            BY <1>9, <2>1, OthersStayed DEF Reclaim
        <2>6. SoundCall(c)'
            BY <1>9, <2>2, <2>3, <2>4 DEF Reclaim, SoundCall, Exists, NobodyElseHolds, Live
        <2> QED BY <1>9, <2>2, <2>5, <2>6, StillStep DEF Reclaim, MayStart, Idle
    <1>10. ASSUME NEW k \in Keys, ProlongRefused(c, k) PROVE LockInv'
        <2>1. op[c] = Idle /\ op'[c] = Idle
            BY <1>10 DEF ProlongRefused, MayStart
        <2>2. CASE Exists(k)
            <3>1. inner'[c] = [inner[c] EXCEPT !.held[k] = None, !.requests = Resync(c, k, files[k].order)]
                BY <1>10, <2>2 DEF ProlongRefused, Become, TypeOK
            <3>2. \A j \in Keys : inner'[c].held[j] \in {None, inner[c].held[j]}
                BY <3>1, ClientType DEF InnerStates
            <3>3. inner'[c].requests = Resync(c, k, files[k].order)
                BY <3>1, ClientType DEF InnerStates
            <3>4. \A j \in Keys : Indexed(c, j)' <=> Indexed(c, j)
                <4> QED BY <3>3, ResyncIndexed, FileOrder, <2>2 DEF Indexed
            <3>5. OthersStay(c)
                BY <1>10, <2>2, OthersStayed DEF ProlongRefused
            <3> QED BY <1>10, <2>1, <3>2, <3>4, <3>5, EndSound, QuietStep DEF ProlongRefused, Idle
        <2>3. CASE ~Exists(k)
            <3>1. inner'[c] = [inner[c] EXCEPT !.held[k] = None, !.requests[k] = Absent]
                BY <1>10, <2>3 DEF ProlongRefused, Become, TypeOK
            <3>2. \A j \in Keys : inner'[c].held[j] \in {None, inner[c].held[j]}
                BY <3>1, ClientType DEF InnerStates
            <3>3. \A j \in Keys : inner'[c].requests[j] = IF j = k THEN Absent ELSE inner[c].requests[j]
                BY <3>1, ClientType DEF InnerStates
            <3>4. OthersStay(c)
                BY <1>10, <2>3, OthersStayed DEF ProlongRefused
            <3>5. \A j \in Keys : (Indexed(c, j)' => Indexed(c, j)) /\ (Exists(j) /\ Indexed(c, j) => Indexed(c, j)')
                BY <2>3, <3>3 DEF Indexed
            <3> QED BY <1>10, <2>1, <3>2, <3>4, <3>5, EndSound, QuietStep DEF ProlongRefused, Idle
        <2> QED BY <2>2, <2>3
    <1>11. ASSUME NEW k \in Keys, Prolong(c, k) PROVE LockInv'
        <2>1. PICK extension \in Extensions :
                  Go(c, [kind |-> "prolong", key |-> k, order |-> ExtendedOrder(inner[c].held[k], extension),
                         handledAt |-> files[k].handledAt])
            BY <1>11 DEF Prolong
        <2>2. op'[c].kind = "prolong" /\ op'[c].key = k
            BY <2>1 DEF Go, TypeOK
        <2>3. Exists(k) /\ Live(c, k)
            BY <1>11 DEF Prolong, LostLock, Live
        <2>4. NobodyElseHolds(c, k)
            BY <2>3 DEF LockInv, MutualExclusion, NobodyElseHolds
        <2>5. OthersStay(c)
            BY <1>11, <2>1, OthersStayed DEF Prolong
        <2>6. SoundCall(c)'
            BY <1>11, <2>2, <2>3, <2>4 DEF Prolong, SoundCall, Exists, NobodyElseHolds, Live
        <2> QED BY <1>11, <2>2, <2>5, <2>6, StillStep DEF Prolong, MayStart, Idle
    <1> QED BY <1>1, <1>2, <1>3, <1>4, <1>5, <1>6, <1>7, <1>8, <1>9, <1>10, <1>11 DEF Start

-------------------------------------------------------------------------------
(* open_with_clock and rebuild_index *)

\* What the steps of an opening client have in common.
LEMMA OpeningStep ==
    ASSUME TypeOK, TypeOK', LockInv, NEW c \in Clients, OthersStay(c), UNCHANGED <<now, files, dropping>>,
           op[c].kind \notin Resting, \A k \in Keys : inner'[c].held[k] \in {None, inner[c].held[k]},
           SoundCall(c)', SoundIndex(c)'
    PROVE  LockInv'
    <1>1. Relaxes(c)
        BY DEF Relaxes, TypeOK
    <1>2. dropping' = {}
        BY DEF LockInv, OneAtATime
    <1>3. HasTurn(c)
        BY DEF HasTurn
    <1> QED BY <1>1, <1>2, <1>3, RelaxStep

LEMMA LockRebuild ==
    ASSUME TypeOK, TypeOK', LockInv, NEW c \in Clients, NEW k \in Keys, Rebuild(c, k)
    PROVE  LockInv'
    <1> DEFINE order == RestoredOrder(files[k], op[c].at)
    <1>1. ~op[c].sole /\ op[c].kind = "rebuild" /\ Exists(k)
        BY DEF Rebuild, RebuildNext, LockInv, SoundCall
    <1>2. op[c] \in [kind : {"rebuild"}, sole : BOOLEAN, todo : SUBSET Keys, at : Nat]
        BY <1>1, ClientType DEF Calls
    <1>3. Go(c, [op[c] EXCEPT !.todo = op[c].todo \ {k}]) /\ Restore(c, k, order)
        BY <1>1 DEF Rebuild, MustReclaim
    <1>4. op'[c] = [op[c] EXCEPT !.todo = op[c].todo \ {k}]
        BY <1>3 DEF Go, TypeOK
    <1>5. order \in Orders
        BY <1>1, <1>2, RestoredOrderType DEF TypeOK, Exists
    <1>6. /\ inner'[c].held = inner[c].held
          /\ \A j \in Keys : inner'[c].requests[j] =
                 IF j = k THEN [order |-> order, seq |-> inner[c].counter] ELSE inner[c].requests[j]
        <2> HIDE DEF order
        <2> QED BY <1>3, ClientType DEF Restore, Become, TypeOK, InnerStates
    <1>7. [order |-> order, seq |-> inner[c].counter] # Absent
        <2> HIDE DEF order
        <2> QED BY <1>5, ClientType, AbsentAssumption DEF Entries
    <1>8. \A j \in Keys : Indexed(c, j)' <=> j = k \/ Indexed(c, j)
        <2> HIDE DEF order
        <2> QED BY <1>6, <1>7 DEF Indexed
    <1>9. SoundCall(c)'
        BY <1>1, <1>2, <1>4 DEF LockInv, SoundCall
    <1>10. files' = files
        BY DEF Rebuild
    <1>11. SoundIndex(c)'
        BY <1>1, <1>2, <1>4, <1>8, <1>10 DEF LockInv, SoundIndex, Exists, Blank
    <1>12. OthersStay(c)
        <2> HIDE DEF order
        <2> QED BY <1>3, OthersStayed DEF Restore
    <1> QED BY <1>1, <1>6, <1>9, <1>11, <1>12, OpeningStep DEF Rebuild, Resting

LEMMA LockOpening ==
    ASSUME TypeOK, TypeOK', LockInv, NEW c \in Clients, Opening(c)
    PROVE  LockInv'
    <1>1. CASE Create(c)
        <2>1. op[c].kind = "create" /\ ~op[c].sole /\ op'[c] = [kind |-> "list", sole |-> op[c].sole]
            BY <1>1 DEF Create, LockInv, SoundCall, Go, TypeOK
        <2>2. SoundCall(c)'
            BY <2>1 DEF SoundCall
        <2>3. SoundIndex(c)'
            BY <1>1, <2>1 DEF Create, LockInv, SoundIndex, Blank, Exists, Indexed
        <2>4. OthersStay(c)
            BY <1>1, OthersStayed DEF Create
        <2> QED BY <1>1, <2>1, <2>2, <2>3, <2>4, OpeningStep DEF Create, Resting
    <1>2. CASE List(c)
        <2>1. /\ op[c].kind = "list" /\ ~op[c].sole
              /\ op'[c] = [kind |-> "clear", sole |-> op[c].sole, todo |-> {k \in Keys : Exists(k)}]
            BY <1>2 DEF List, LockInv, SoundCall, Go, TypeOK
        <2>2. SoundCall(c)'
            BY <2>1 DEF SoundCall
        <2>3. SoundIndex(c)'
            BY <1>2, <2>1 DEF List, LockInv, SoundIndex, Exists, Indexed
        <2>4. OthersStay(c)
            BY <1>2, OthersStayed DEF List
        <2> QED BY <1>2, <2>1, <2>2, <2>3, <2>4, OpeningStep DEF List, Resting
    <1>3. CASE Clear(c)
        <2>1. /\ op[c].kind = "clear" /\ ~op[c].sole
              /\ op'[c] = [kind |-> "rebuild", sole |-> op[c].sole, todo |-> op[c].todo, at |-> now]
            BY <1>3 DEF Clear, LockInv, SoundCall, Go, TypeOK
        <2>2. inner'[c] = InnerWith([NewMetadata EXCEPT !.forefront = inner[c].metadata.forefront])
            BY <1>3 DEF Clear, Become, TypeOK
        <2>3. \A k \in Keys : inner'[c].held[k] = None /\ inner'[c].requests[k] = Absent
            BY <2>2 DEF InnerWith
        <2>4. SoundCall(c)'
            BY <2>1 DEF SoundCall
        <2>5. SoundIndex(c)'
            BY <1>3, <2>1, <2>3 DEF Clear, LockInv, SoundIndex, Blank, Exists, Indexed
        <2>6. OthersStay(c)
            BY <1>3, OthersStayed DEF Clear
        <2> QED BY <1>3, <2>1, <2>3, <2>4, <2>5, <2>6, OpeningStep DEF Clear, Resting
    <1>4. CASE Rewrite(c)
        BY <1>4 DEF Rewrite, LockInv, SoundCall
    <1>5. CASE RebuildDone(c)
        <2>1. /\ op[c].kind = "rebuild" /\ ~op[c].sole /\ op[c].todo = {}
              /\ op'[c] = [kind |-> "ready", sole |-> op[c].sole]
            BY <1>5 DEF RebuildDone, LockInv, SoundCall, Go, TypeOK
        <2>2. inner'[c].held = inner[c].held /\ inner'[c].requests = inner[c].requests
            BY <1>5, ClientType DEF RebuildDone, Become, TypeOK, InnerStates
        <2>3. SoundCall(c)'
            BY <2>1 DEF SoundCall
        <2>4. SoundIndex(c)'
            BY <1>5, <2>1, <2>2 DEF RebuildDone, LockInv, SoundIndex, Blank, Exists, Indexed
        <2>5. OthersStay(c)
            BY <1>5, OthersStayed DEF RebuildDone
        <2> QED BY <1>5, <2>1, <2>2, <2>3, <2>4, <2>5, OpeningStep DEF RebuildDone, Resting
    <1>6. CASE Ready(c)
        <2>1. op[c].kind = "ready" /\ op'[c] = Idle
            BY <1>6 DEF Ready, Go, TypeOK
        <2>2. SoundCall(c)'
            BY <2>1, EndSound DEF Idle
        <2>3. SoundIndex(c)'
            BY <1>6, <2>1 DEF Ready, LockInv, SoundIndex, Blank, Exists, Indexed, Idle
        <2>4. OthersStay(c)
            BY <1>6, OthersStayed DEF Ready
        <2> QED BY <1>6, <2>1, <2>2, <2>3, <2>4, OpeningStep DEF Ready, Resting
    <1>7. ASSUME NEW k \in Keys, Rebuild(c, k) PROVE LockInv'
        BY <1>7, LockRebuild
    <1>8. ASSUME NEW k \in Keys, RebuildSkip(c, k) PROVE LockInv'
        <2>1. op[c].kind = "rebuild" /\ ~op[c].sole /\ ~Exists(k)
            BY <1>8 DEF RebuildSkip, RebuildNext, LockInv, SoundCall
        <2>2. op[c] \in [kind : {"rebuild"}, sole : BOOLEAN, todo : SUBSET Keys, at : Nat]
            BY <2>1, ClientType DEF Calls
        <2>3. op'[c] = [op[c] EXCEPT !.todo = op[c].todo \ {k}]
            BY <1>8 DEF RebuildSkip, Go, TypeOK
        <2>4. SoundCall(c)'
            BY <2>1, <2>2, <2>3 DEF SoundCall
        <2>5. SoundIndex(c)'
            BY <1>8, <2>1, <2>2, <2>3 DEF RebuildSkip, LockInv, SoundIndex, Blank, Exists, Indexed
        <2>6. OthersStay(c)
            BY <1>8, OthersStayed DEF RebuildSkip
        <2> QED BY <1>8, <2>1, <2>4, <2>5, <2>6, OpeningStep DEF RebuildSkip, Resting
    <1> QED BY <1>1, <1>2, <1>3, <1>4, <1>5, <1>6, <1>7, <1>8 DEF Opening

-------------------------------------------------------------------------------
(* The calls of an open client *)

\* The end of a call, and a metadata write, change neither index nor locks.
LEMMA LockEnd ==
    ASSUME TypeOK, TypeOK', LockInv, SerialUse, NEW c \in Clients,
           AddMalformed(c) \/ AddDone(c) \/ FetchNothing(c) \/ Persist(c) \/ WriteFails(c)
    PROVE  LockInv'
    <1>1. op[c].kind \in {"add", "addWrite", "fetch", "lock", "deliver", "mark", "reclaim", "prolong", "persist"}
        BY DEF AddMalformed, AddDone, FetchNothing, Persist, WriteFails
    <1>2. Go(c, Idle) \/ Go(c, [kind |-> "persist", done |-> {}])
        BY DEF AddMalformed, AddDone, FetchNothing, Persist, WriteFails
    <1>3. op'[c].kind \in {"idle", "persist"}
        BY <1>2 DEF Go, TypeOK, Idle
    <1>4. UNCHANGED <<now, files, inner, dropping>>
        BY DEF AddMalformed, AddDone, FetchNothing, Persist, WriteFails
    <1>5. OthersStay(c)
        BY <1>2, <1>4, OthersStayed
    <1> QED BY <1>1, <1>3, <1>4, <1>5, EndSound, StillStep DEF Resting

LEMMA LockAdd ==
    ASSUME TypeOK, TypeOK', LockInv, SerialUse, NEW c \in Clients, AddSkip(c) \/ AddItem(c)
    PROVE  LockInv'
    <1>1. op[c].kind = "add" /\ c \in Producers /\ ~op[c].forefront
        BY DEF AddSkip, AddItem, LockInv, SoundCall
    <1>2. CASE AddSkip(c)
        <2>1. op[c] \in [kind : {"add"}, batch : Seq(Items), forefront : BOOLEAN]
            BY <1>1, ClientType DEF Calls
        <2>2. op'[c] = [op[c] EXCEPT !.batch = Tail(@)]
            BY <1>2 DEF AddSkip, Go, TypeOK
        <2>3. op'[c].kind = "add" /\ op'[c].forefront = op[c].forefront
            BY <2>1, <2>2
        <2>4. SoundCall(c)'
            BY <1>1, <2>3 DEF SoundCall
        <2>5. OthersStay(c)
            BY <1>2, OthersStayed DEF AddSkip
        <2> QED BY <1>1, <1>2, <2>3, <2>4, <2>5, StillStep DEF AddSkip, Resting
    <1>3. CASE AddItem(c)
        <2> DEFINE item == Head(op[c].batch)
                   call == [kind |-> "addWrite", key |-> item.key, handledAt |-> item.handledAt,
                            order |-> AddedOrder(item, op[c].forefront, now), seq |-> inner[c].counter,
                            batch |-> Tail(op[c].batch), forefront |-> op[c].forefront]
        <2>1. item \in Items
            BY <1>3, AddCallType DEF AddItem
        <2>2. item.key \in Keys
            BY <1>3, <2>1 DEF AddItem, Items
        <2>3. ~Indexed(c, item.key)
            BY <1>1, <1>3 DEF AddItem, AlreadyThere
        <2>4. ~Exists(item.key)
            BY <1>1, <2>2, <2>3 DEF LockInv, SoundIndex, Blank
        <2>5. Go(c, call) /\ UNCHANGED <<now, files, dropping>>
            BY <1>3 DEF AddItem
        <2>6. op'[c] = call
            <3> HIDE DEF call
            <3> QED BY <2>5 DEF Go, TypeOK
        <2>7. op'[c].kind = "addWrite" /\ op'[c].key = item.key /\ op'[c].forefront = op[c].forefront
            <3> HIDE DEF item
            <3> QED BY <2>6
        <2>8. SoundCall(c)'
            BY <1>1, <2>4, <2>5, <2>7 DEF SoundCall, Exists
        <2>9. Become(c, [inner[c] EXCEPT !.counter = @ + 1])
            BY <1>3 DEF AddItem
        <2>10. inner'[c].held = inner[c].held /\ inner'[c].requests = inner[c].requests
            BY <2>9, ClientType DEF Become, TypeOK, InnerStates
        <2>11. OthersStay(c)
            <3> HIDE DEF call
            <3> QED BY <2>5, <2>9, OthersStayed
        <2> QED BY <1>1, <2>5, <2>7, <2>8, <2>10, <2>11, StillStep DEF Resting
    <1> QED BY <1>2, <1>3

LEMMA LockFetch ==
    ASSUME TypeOK, TypeOK', LockInv, SerialUse, FilesCoherent, NEW c \in Clients, NEW k \in Keys,
           FetchVanished(c, k) \/ FetchSkip(c, k) \/ FetchFree(c, k)
    PROVE  LockInv'
    <1>1. op[c].kind = "fetch" /\ op[c].at <= now
        BY DEF FetchVanished, FetchSkip, FetchFree, FetchNext, LockInv, SoundCall
    <1>2. op[c] \in [kind : {"fetch"}, todo : SUBSET Keys, at : Nat]
        BY <1>1, ClientType DEF Calls
    <1>3. ASSUME Go(c, [op[c] EXCEPT !.todo = @ \ {k}]), UNCHANGED now
          PROVE  op'[c].kind = "fetch" /\ SoundCall(c)'
        <2>1. op'[c] = [op[c] EXCEPT !.todo = @ \ {k}]
            BY <1>3 DEF Go, TypeOK
        <2>2. op'[c].kind = "fetch" /\ op'[c].at = op[c].at
            BY <1>2, <2>1
        <2> QED BY <1>1, <1>3, <2>2 DEF SoundCall
    <1>4. CASE FetchVanished(c, k)
        <2>1. inner'[c] = [inner[c] EXCEPT !.requests[k] = Absent]
            BY <1>4 DEF FetchVanished, Become, TypeOK
        <2>2. /\ inner'[c].held = inner[c].held
              /\ \A j \in Keys : inner'[c].requests[j] = IF j = k THEN Absent ELSE inner[c].requests[j]
            BY <2>1, ClientType DEF InnerStates
        <2>3. \A j \in Keys : (Indexed(c, j)' => Indexed(c, j)) /\ (Exists(j) /\ Indexed(c, j) => Indexed(c, j)')
            BY <1>4, <2>2 DEF FetchVanished, Indexed
        <2>4. OthersStay(c)
            BY <1>4, OthersStayed DEF FetchVanished
        <2> QED BY <1>1, <1>3, <1>4, <2>2, <2>3, <2>4, QuietStep DEF FetchVanished, Resting
    <1>5. CASE FetchSkip(c, k)
        <2>1. inner'[c] = [inner[c] EXCEPT !.requests = Resync(c, k, files[k].order)]
            BY <1>5 DEF FetchSkip, Become, TypeOK
        <2>2. inner'[c].held = inner[c].held /\ inner'[c].requests = Resync(c, k, files[k].order)
            BY <2>1, ClientType DEF InnerStates
        <2>3. \A j \in Keys : Indexed(c, j)' <=> Indexed(c, j)
            BY <1>5, <2>2, ResyncIndexed, FileOrder DEF FetchSkip
        <2>4. OthersStay(c)
            BY <1>5, OthersStayed DEF FetchSkip
        <2> QED BY <1>1, <1>3, <1>5, <2>2, <2>3, <2>4, QuietStep DEF FetchSkip, Resting
    <1>6. CASE FetchFree(c, k)
        <2> DEFINE order == LockOrder(files[k].order, op[c].at, inner[c].lockMillis)
        <2>1. Go(c, [kind |-> "lock", key |-> k, handledAt |-> files[k].handledAt, order |-> order])
            BY <1>6 DEF FetchFree
        <2> HIDE DEF order
        <2>2. op'[c].kind = "lock" /\ op'[c].key = k
            BY <2>1 DEF Go, TypeOK
        <2>3. Exists(k) /\ files[k].order \in Int /\ ~IsLockedOrder(files[k].order, op[c].at)
            BY <1>6, FileOrder DEF FetchFree, MustSkip, Orders
        <2>4. ~IsLockedOrder(files[k].order, now)
            BY <1>1, <1>2, <2>3 DEF IsLockedOrder, TypeOK
        <2>5. NobodyHolds(k)
            <3> SUFFICES ASSUME NEW d \in Clients, Live(d, k) PROVE FALSE
                BY DEF NobodyHolds
            <3>1. CASE Handled(k)
                BY <2>3, <3>1, NoneAssumption DEF FilesCoherent, Handled
            <3>2. CASE files[k].order = inner[d].held[k]
                BY <2>4, <3>2 DEF Live
            <3> QED BY <3>1, <3>2 DEF LockInv, LockOnDisk
        <2>6. SoundCall(c)'
            BY <1>6, <2>2, <2>3, <2>5 DEF FetchFree, SoundCall, NobodyHolds, Live, Exists
        <2>7. OthersStay(c)
            BY <1>6, <2>1, OthersStayed DEF FetchFree
        <2> QED BY <1>1, <1>6, <2>2, <2>6, <2>7, StillStep DEF FetchFree, Resting
    <1> QED BY <1>4, <1>5, <1>6

\* The lock becomes this client's own once the metadata is written.
LEMMA LockDeliver ==
    ASSUME TypeOK, TypeOK', LockInv, NEW c \in Clients, Deliver(c)
    PROVE  LockInv'
    <1> DEFINE k == op[c].key
    <1>1. /\ op[c].kind = "deliver" /\ Exists(k) /\ NobodyHolds(k) /\ files[k].order = op[c].order
        BY DEF Deliver, LockInv, SoundCall
    <1>2. k \in Keys
        BY <1>1, ClientType DEF Calls
    <1>3. UNCHANGED <<now, files, dropping>>
        BY DEF Deliver
    <1>4. inner'[c] = [inner[c] EXCEPT !.held[k] = op[c].order]
        BY DEF Deliver, Become, TypeOK
    <1>5. /\ \A j \in Keys : inner'[c].held[j] = IF j = k THEN op[c].order ELSE inner[c].held[j]
          /\ inner'[c].requests = inner[c].requests
        <2> HIDE DEF k
        <2> QED BY <1>4, ClientType DEF InnerStates
    <1>6. OthersStay(c)
        BY OthersStayed DEF Deliver
    <1>7. op'[c] = Idle
        BY DEF Deliver, Go, TypeOK
    <1> HIDE DEF k
    <1>8. \A d \in Clients, j \in Keys : d # c \/ j # k => Live(d, j)' = Live(d, j) /\ inner'[d].held[j] = inner[d].held[j]
        BY <1>3, <1>5, <1>6 DEF Live, OthersStay
    <1>9. OneAtATime'
        BY <1>1, <1>3, <1>6, TurnKept DEF LockInv, OneAtATime, HasTurn, Resting
    <1>10. LockOnDisk'
        BY <1>1, <1>3, <1>5, <1>8 DEF LockInv, LockOnDisk, Handled, Exists
    <1>11. MutualExclusion'
        BY <1>1, <1>8 DEF LockInv, MutualExclusion, NobodyHolds
    <1>12. \A d \in Clients : SoundCall(d)'
        BY <1>1, <1>6, <1>7 DEF LockInv, OneAtATime, OthersStay, SoundCall, Resting, Idle
    <1>13. \A d \in Clients : SoundIndex(d)'
        BY <1>1, <1>3, <1>5, <1>6, <1>7 DEF LockInv, OthersStay, SoundIndex, Blank, Indexed, Exists, Idle
    <1> QED BY <1>9, <1>10, <1>11, <1>12, <1>13 DEF LockInv

-------------------------------------------------------------------------------
(* The steps that write a request file *)

LEMMA LockAddWrite ==
    ASSUME TypeOK, TypeOK', LockInv, SerialUse, NEW c \in Clients, AddWrite(c)
    PROVE  LockInv'
    <1>0. PICK k \in Keys : op[c].key = k
        BY ClientType DEF AddWrite, Calls
    <1> DEFINE file == [order |-> op[c].order, handledAt |-> op[c].handledAt]
               m == CountAdded(MovedForward(c, k), Indexed(c, k), op[c].handledAt)
               entry == [order |-> op[c].order, seq |-> op[c].seq]
    <1>1. op[c] \in [kind : {"addWrite"}, key : Keys, handledAt : BOOLEAN, order : Orders, seq : Nat,
                     batch : Seq(Items), forefront : BOOLEAN]
        BY ClientType DEF AddWrite, Calls
    <1>2. c \in Producers /\ ~op[c].forefront /\ ~Exists(k)
        BY <1>0, <1>1 DEF LockInv, SoundCall
    <1>3. entry \in Entries /\ file \in Files /\ entry # Absent /\ file # Absent
        BY <1>1, AbsentAssumption DEF Entries, Files
    <1>4. WriteRequest(k, file) /\ UNCHANGED <<now, dropping>>
        BY <1>0 DEF AddWrite
    <1>5. inner'[c] = [inner[c] EXCEPT !.requests[k] = entry, !.metadata = m]
        <2>1. Become(c, [inner[c] EXCEPT !.requests[k] = entry, !.metadata = m])
            BY <1>0 DEF AddWrite
        <2> HIDE DEF m, entry
        <2> QED BY <2>1 DEF Become, TypeOK
    <1>6. /\ inner'[c].held = inner[c].held
          /\ \A j \in Keys : inner'[c].requests[j] = IF j = k THEN entry ELSE inner[c].requests[j]
        <2> HIDE DEF m, entry
        <2> QED BY <1>5, ClientType DEF InnerStates
    <1>7. Go(c, [kind |-> "add", batch |-> op[c].batch, forefront |-> op[c].forefront])
        BY <1>0 DEF AddWrite
    <1>8. op'[c] = [kind |-> "add", batch |-> op[c].batch, forefront |-> op[c].forefront]
        BY <1>7 DEF Go, TypeOK
    <1>9. SoundCall(c)'
        BY <1>2, <1>8 DEF SoundCall
    <1>10. OthersStay(c)
        <2>1. Become(c, [inner[c] EXCEPT !.requests[k] = entry, !.metadata = m])
            BY <1>0 DEF AddWrite
        <2> HIDE DEF m, entry
        <2> QED BY <1>7, <2>1, OthersStayed
    <1> HIDE DEF entry, file, m
    <1>11. NobodyHolds(k)
        BY <1>2 DEF LockInv, LockOnDisk, NobodyHolds, Handled
    <1>12. ~Live(c, k)' /\ NobodyElseHolds(c, k)
        BY <1>4, <1>6, <1>11 DEF NobodyHolds, NobodyElseHolds, Live
    <1>13. \A j \in Keys : Indexed(c, j)' <=> j = k \/ Indexed(c, j)
        BY <1>3, <1>6 DEF Indexed
    <1>14. k \in Keys /\ op[c].kind = "addWrite" /\ op'[c].kind = "add"
        BY <1>1, <1>8
    <1> QED BY <1>2, <1>3, <1>4, <1>6, <1>9, <1>10, <1>12, <1>13, <1>14, WriteStep

LEMMA LockLock ==
    ASSUME TypeOK, TypeOK', LockInv, SerialUse, NEW c \in Clients, FetchLock(c)
    PROVE  LockInv'
    <1>0. PICK k \in Keys : op[c].key = k
        BY ClientType DEF FetchLock, Calls
    <1> DEFINE file == [order |-> op[c].order, handledAt |-> op[c].handledAt]
    <1>1. op[c] \in [kind : {"lock"}, key : Keys, order : Int, handledAt : BOOLEAN]
        BY ClientType DEF FetchLock, Calls
    <1>2. Exists(k) /\ NobodyHolds(k)
        BY <1>0, <1>1 DEF LockInv, SoundCall
    <1>3. file \in Files /\ file # Absent
        BY <1>1, AbsentAssumption DEF Files, Orders
    <1>4. WriteRequest(k, file) /\ UNCHANGED <<now, dropping>>
        BY <1>0 DEF FetchLock
    <1>5. inner'[c] = [inner[c] EXCEPT !.requests = Resync(c, k, op[c].order)]
        BY <1>0 DEF FetchLock, Become, TypeOK
    <1>6. inner'[c].held = inner[c].held /\ inner'[c].requests = Resync(c, k, op[c].order)
        BY <1>5, ClientType DEF InnerStates
    <1>7. op'[c] = [kind |-> "deliver", key |-> k, order |-> op[c].order]
        BY <1>0 DEF FetchLock, Go, TypeOK
    <1>8. \A d \in Clients : inner'[d].held = inner[d].held
        BY <1>6, OthersStayed DEF FetchLock, OthersStay
    <1>9. NobodyHolds(k)'
        <2>1. \A d \in Clients : ~Live(d, k)'
            BY <1>2, <1>4, <1>8 DEF NobodyHolds, Live
        <2> QED BY <2>1 DEF NobodyHolds
    <1>10. Exists(k)' /\ files'[k].order = op[c].order
        BY <1>1, <1>3, <1>4 DEF WriteRequest, Exists, TypeOK
    <1>11. SoundCall(c)'
        BY <1>7, <1>9, <1>10 DEF SoundCall, NobodyHolds, Exists
    <1>12. \A j \in Keys : Indexed(c, j)' <=> Indexed(c, j)
        BY <1>1, <1>6, ResyncIndexed DEF Orders
    <1>13. OthersStay(c)
        BY OthersStayed DEF FetchLock
    <1>14. ~Live(c, k)' /\ NobodyElseHolds(c, k)
        BY <1>2, <1>9 DEF NobodyHolds, NobodyElseHolds
    <1>15. k \in Keys /\ op[c].kind = "lock" /\ op'[c].kind = "deliver"
        BY <1>1, <1>7
    <1> HIDE DEF file
    <1> QED BY <1>2, <1>3, <1>4, <1>6, <1>11, <1>12, <1>13, <1>14, <1>15, WriteStep

LEMMA LockMark ==
    ASSUME TypeOK, TypeOK', LockInv, SerialUse, NEW c \in Clients, MarkWrite(c)
    PROVE  LockInv'
    <1>0. PICK k \in Keys : op[c].key = k
        BY ClientType DEF MarkWrite, Calls
    <1> DEFINE m == CountHandled(Unlisted(inner[c].metadata, k))
    <1>1. k \in Keys /\ op[c].kind = "mark"
        BY ClientType DEF MarkWrite, Calls
    <1>2. Exists(k)
        BY <1>0, <1>1 DEF LockInv, SoundCall
    <1>3. HandledFile(k) \in Files /\ HandledFile(k) # Absent /\ HandledFile(k).handledAt
        <2>1. HandledFile(k) \in Files /\ HandledFile(k).handledAt
            BY DEF HandledFile, Files, Orders
        <2> QED BY <2>1, AbsentAssumption
    <1>4. WriteRequest(k, HandledFile(k)) /\ UNCHANGED <<now, dropping>>
        BY <1>0 DEF MarkWrite
    <1>5. HandledEntry(c, k) # Absent
        BY <1>1, ClientType, AbsentAssumption DEF HandledEntry, Seq0, Indexed, Entries, Orders
    <1>6. Become(c, [inner[c] EXCEPT !.held[k] = None, !.requests[k] = HandledEntry(c, k), !.metadata = m])
        BY <1>0 DEF MarkWrite
    <1>7. Go(c, [kind |-> "persist", done |-> {k}])
        BY <1>0 DEF MarkWrite
    <1> HIDE DEF m
    <1>8. inner'[c] = [inner[c] EXCEPT !.held[k] = None, !.requests[k] = HandledEntry(c, k), !.metadata = m]
        BY <1>6 DEF Become, TypeOK
    <1>9. \A j \in Keys : /\ inner'[c].held[j] = IF j = k THEN None ELSE inner[c].held[j]
                          /\ inner'[c].requests[j] = IF j = k THEN HandledEntry(c, k) ELSE inner[c].requests[j]
        BY <1>8, ClientType DEF InnerStates
    <1>10. op'[c].kind = "persist"
        BY <1>7 DEF Go, TypeOK
    <1>11. OthersStay(c)
        BY <1>6, <1>7, OthersStayed
    <1>12. ~Live(c, k)'
        BY <1>1, <1>9 DEF Live
    <1>13. \A j \in Keys : Indexed(c, j)' <=> j = k \/ Indexed(c, j)
        BY <1>5, <1>9 DEF Indexed
    <1> QED BY <1>1, <1>2, <1>3, <1>4, <1>9, <1>10, <1>11, <1>12, <1>13, EndSound, WriteStep

LEMMA LockReclaim ==
    ASSUME TypeOK, TypeOK', LockInv, SerialUse, NEW c \in Clients, ReclaimWrite(c)
    PROVE  LockInv'
    <1>0. PICK k \in Keys : op[c].key = k
        BY ClientType DEF ReclaimWrite, Calls
    <1> DEFINE file == [order |-> op[c].order, handledAt |-> op[c].handledAt]
               entry == [order |-> op[c].order, seq |-> ReclaimedSeq(c, k)]
               n == IF Indexed(c, k) THEN inner[c].counter ELSE inner[c].counter + 1
               ff == IF op[c].forefront /\ inner[c].metadata.forefront[k] = 0
                     THEN Push(inner[c].metadata.forefront, k) ELSE inner[c].metadata.forefront
               state == [inner[c] EXCEPT !.held[k] = None, !.requests[k] = entry, !.counter = n,
                                         !.metadata.forefront = ff]
    <1>1. op[c] \in [kind : {"reclaim"}, key : Keys, forefront : BOOLEAN, order : Int, handledAt : BOOLEAN]
        BY ClientType DEF ReclaimWrite, Calls
    <1>2. k \in Keys /\ op[c].kind = "reclaim" /\ Exists(k) /\ NobodyElseHolds(c, k)
        BY <1>0, <1>1 DEF LockInv, SoundCall
    <1>3. file \in Files /\ file # Absent
        BY <1>1, AbsentAssumption DEF Files, Orders
    <1>4. entry # Absent
        BY <1>1, ClientType, AbsentAssumption DEF ReclaimedSeq, Indexed, Entries, Orders
    <1>5. WriteRequest(k, file) /\ UNCHANGED <<now, dropping>>
        BY <1>0 DEF ReclaimWrite
    <1>6. Become(c, state)
        BY <1>0 DEF ReclaimWrite
    <1>7. Go(c, [kind |-> "persist", done |-> {k}])
        BY <1>0 DEF ReclaimWrite
    <1>8. inner'[c] = state
        <2> HIDE DEF state
        <2> QED BY <1>6 DEF Become, TypeOK
    <1>9. OthersStay(c)
        <2> HIDE DEF state
        <2> QED BY <1>6, <1>7, OthersStayed
    <1> HIDE DEF file, entry, n, ff
    <1>10. \A j \in Keys : /\ inner'[c].held[j] = IF j = k THEN None ELSE inner[c].held[j]
                           /\ inner'[c].requests[j] = IF j = k THEN entry ELSE inner[c].requests[j]
        BY <1>8, ClientType DEF InnerStates
    <1>11. op'[c].kind = "persist"
        BY <1>7 DEF Go, TypeOK
    <1>12. ~Live(c, k)'
        BY <1>2, <1>10 DEF Live
    <1>13. \A j \in Keys : Indexed(c, j)' <=> j = k \/ Indexed(c, j)
        BY <1>4, <1>10 DEF Indexed
    <1> HIDE DEF state
    <1> QED BY <1>2, <1>3, <1>5, <1>9, <1>10, <1>11, <1>12, <1>13, EndSound, WriteStep

LEMMA LockProlong ==
    ASSUME TypeOK, TypeOK', LockInv, SerialUse, NEW c \in Clients, ProlongWrite(c)
    PROVE  LockInv'
    <1>0. PICK k \in Keys : op[c].key = k
        BY ClientType DEF ProlongWrite, Calls
    <1> DEFINE file == [order |-> op[c].order, handledAt |-> op[c].handledAt]
    <1>1. op[c] \in [kind : {"prolong"}, key : Keys, order : Int, handledAt : BOOLEAN]
        BY ClientType DEF ProlongWrite, Calls
    <1>2. k \in Keys /\ op[c].kind = "prolong" /\ Exists(k) /\ NobodyElseHolds(c, k)
        BY <1>0, <1>1 DEF LockInv, SoundCall
    <1>3. file \in Files /\ file # Absent /\ file.order = op[c].order
        BY <1>1, AbsentAssumption DEF Files, Orders
    <1>4. WriteRequest(k, file) /\ UNCHANGED <<now, dropping>>
        BY <1>0 DEF ProlongWrite
    <1>5. inner'[c] = [inner[c] EXCEPT !.held[k] = op[c].order, !.requests = Resync(c, k, op[c].order)]
        BY <1>0 DEF ProlongWrite, Become, TypeOK
    <1>6. op'[c].kind = "persist"
        BY <1>0 DEF ProlongWrite, Go, TypeOK
    <1>7. OthersStay(c)
        BY OthersStayed DEF ProlongWrite
    <1>8. op[c].order \in Orders
        BY <1>1 DEF Orders
    <1> HIDE DEF file
    <1>9. /\ \A j \in Keys : inner'[c].held[j] = IF j = k THEN op[c].order ELSE inner[c].held[j]
          /\ inner'[c].requests = Resync(c, k, op[c].order)
        BY <1>5, ClientType DEF InnerStates
    <1>10. \A j \in Keys : Indexed(c, j)' <=> Indexed(c, j)
        BY <1>2, <1>8, <1>9, ResyncIndexed
    <1> QED BY <1>2, <1>3, <1>4, <1>6, <1>7, <1>9, <1>10, EndSound, WriteStep

LEMMA LockContinue ==
    ASSUME TypeOK, TypeOK', LockInv, SerialUse, FilesCoherent, NEW c \in Clients, Continue(c)
    PROVE  LockInv'
    <1>1. CASE PurgeDone(c)
        BY <1>1 DEF PurgeDone, LockInv, SoundCall
    <1>2. CASE DropClear(c)
        BY <1>2 DEF DropClear, LockInv, OneAtATime
    <1>3. ASSUME NEW k \in Keys, PurgeFile(c, k) \/ PurgeFails(c, k) PROVE LockInv'
        BY <1>3 DEF PurgeFile, PurgeFails, LockInv, SoundCall
    <1> QED BY <1>1, <1>2, <1>3, LockOpening, LockEnd, LockAdd, LockFetch, LockDeliver, LockAddWrite, LockLock,
               LockMark, LockReclaim, LockProlong DEF Continue

\* A client that is gone holds nothing.
LEMMA LockStop ==
    ASSUME TypeOK, TypeOK', LockInv, NEW c \in Clients, Stop(c), UNCHANGED <<now, files>>
    PROVE  LockInv'
    <1>1. op'[c] = Closed /\ inner'[c] = InnerWith(NewMetadata)
        BY DEF Stop, Go, Become, TypeOK
    <1>2. OthersStay(c)
        BY OthersStayed DEF Stop
    <1>3. SoundCall(c)'
        BY <1>1, EndSound DEF Closed
    <1>4. SoundIndex(c)'
        BY <1>1 DEF SoundIndex, Blank, Closed, InnerWith, Indexed
    <1>5. Relaxes(c)
        BY <1>1 DEF Relaxes, InnerWith, TypeOK
    <1>6. dropping' = {} /\ HasTurn(c)
        BY <1>1 DEF Stop, LockInv, OneAtATime, HasTurn, Closed, Resting
    <1> QED BY <1>2, <1>3, <1>4, <1>5, <1>6, RelaxStep

LEMMA LockFail ==
    ASSUME TypeOK, TypeOK', LockInv, SerialUse, NEW c \in Clients, Fail(c)
    PROVE  LockInv'
    <1>1. CASE Crash(c) \/ OpenFails(c)
        BY <1>1, LockStop DEF Crash, OpenFails
    <1>2. CASE RewriteFails(c) \/ RemoveFails(c)
        BY <1>2 DEF RewriteFails, RemoveFails, LockInv, SoundCall
    <1>3. CASE WriteFails(c)
        BY <1>3, LockEnd
    <1>4. ASSUME NEW k \in Keys, FetchReadFails(c, k) \/ RebuildReadFails(c, k) PROVE LockInv'
        BY <1>4 DEF FetchReadFails, RebuildReadFails, MayFault, SerialUse
    <1> QED BY <1>1, <1>2, <1>3, <1>4 DEF Fail

\* Time that passes can only end locks.
LEMMA LockTick ==
    ASSUME TypeOK, TypeOK', LockInv, Tick
    PROVE  LockInv'
    <1>1. \A d \in Clients, k \in Keys : Live(d, k)' => Live(d, k)
        <2> SUFFICES ASSUME NEW d \in Clients, NEW k \in Keys, Live(d, k)' PROVE Live(d, k)
            OBVIOUS
        <2>1. inner[d].held[k] \in Int
            BY ClientType DEF Tick, Live, Orders
        <2> QED BY <2>1, NoneAssumption DEF Tick, Live, IsLockedOrder, TypeOK
    <1>2. OneAtATime' /\ LockOnDisk' /\ MutualExclusion'
        BY <1>1 DEF Tick, LockInv, OneAtATime, LockOnDisk, MutualExclusion, Handled, Exists
    <1>3. ASSUME NEW d \in Clients PROVE SoundIndex(d)'
        BY DEF Tick, LockInv, SoundIndex, Exists, Indexed
    <1>4. ASSUME NEW d \in Clients PROVE SoundCall(d)'
        <2>1. SoundCall(d) /\ op'[d] = op[d] /\ files' = files
            BY DEF LockInv, Tick
        <2>2. op[d].kind \in {"lock", "deliver", "reclaim", "prolong"} => op[d].key \in Keys
            BY ClientType DEF Calls
        <2>3. op[d].kind = "fetch" => op[d].at <= now'
            <3>1. op[d].kind = "fetch" => op[d].at \in Nat
                BY ClientType DEF Calls
            <3> QED BY <2>1, <3>1 DEF SoundCall, Tick, TypeOK
        <2>4. op[d].kind \in {"lock", "deliver"} => NobodyHolds(op[d].key)'
            BY <1>1, <2>1, <2>2 DEF SoundCall, NobodyHolds
        <2>5. op[d].kind \in {"reclaim", "prolong"} => NobodyElseHolds(d, op[d].key)'
            BY <1>1, <2>1, <2>2 DEF SoundCall, NobodyElseHolds
        <2> QED BY <2>1, <2>3, <2>4, <2>5 DEF SoundCall, Exists, NobodyHolds, NobodyElseHolds
    <1> QED BY <1>2, <1>3, <1>4 DEF LockInv

LEMMA LockUnchanged ==
    ASSUME LockInv, UNCHANGED vars
    PROVE  LockInv'
    BY DEF LockInv, vars, OneAtATime, LockOnDisk, MutualExclusion, SoundCall, SoundIndex, NobodyHolds, NobodyElseHolds,
           Live, Handled, Exists, Indexed

-------------------------------------------------------------------------------
(* The theorems *)

LEMMA LockInitially ==
    ASSUME SerialUse, Init
    PROVE  LockInv
    BY DEF Init, SerialUse, LockInv, OneAtATime, SoundCall, SoundIndex, LockOnDisk, MutualExclusion, Closed, Resting,
           Blank, Exists, Indexed, Live, InnerWith

LEMMA LockStep ==
    ASSUME TypeOK, TypeOK', FilesCoherent, LockInv, SerialUse, [Next]_vars
    PROVE  LockInv'
    BY LockStart, LockContinue, LockFail, LockTick, LockUnchanged DEF Next

LEMMA LocksKept ==
    ASSUME SerialUse
    PROVE  Spec => []LockInv
    <1>1. Spec => []FilesCoherent
        BY FilesStayCoherent DEF SerialUse
    <1>2. Init => LockInv
        BY LockInitially
    <1>3. TypeOK /\ TypeOK' /\ FilesCoherent /\ LockInv /\ [Next]_vars => LockInv'
        BY LockStep
    <1> QED BY <1>1, <1>2, <1>3, TypeCorrect, PTL DEF Spec

\* No two clients hold a live lock on the same request, for any number of clients and
\* requests, crashes and failed writes included, if calls do not overlap.
THEOREM LocksExclude ==
    ASSUME SerialUse
    PROVE  Spec => []MutualExclusion
    <1>1. LockInv => MutualExclusion
        BY DEF LockInv
    <1> QED BY <1>1, LocksKept, PTL

\* As long as a client's lock lives, the file carries that very lock or the request is handled.
THEOREM LiveLocksAreOnDisk ==
    ASSUME SerialUse
    PROVE  Spec => []LiveLockOnDisk
    <1>1. LockInv => LiveLockOnDisk
        BY DEF LockInv, LockOnDisk, LiveLockOnDisk
    <1> QED BY <1>1, LocksKept, PTL

\* No request is handed out while some client holds a live lock on it.
THEOREM NothingRedelivered ==
    ASSUME SerialUse
    PROVE  Spec => NoRedelivery
    <1>1. LockInv =>
              [\A c \in Clients : op[c].kind = "deliver" /\ inner'[c].held # inner[c].held =>
                  \A d \in Clients : ~Live(d, op[c].key)]_vars
        BY DEF LockInv, SoundCall, NobodyHolds
    <1> QED BY <1>1, LocksKept, PTL DEF NoRedelivery

=============================================================================
