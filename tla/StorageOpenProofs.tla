--------------------------- MODULE StorageOpenProofs ---------------------------
(***************************************************************************)
(* What holds of StorageOpen for any finite number of clients, any names   *)
(* and any interleaving with crashes and failed writes: an id never stands *)
(* for two directories, clients agree with the disk on what they have      *)
(* open unless the directory was created under them, a search by id misses *)
(* no storage that was there all along, and a storage opened by name lies  *)
(* one name below the base directory.                                      *)
(***************************************************************************)
EXTENDS StorageOpen, FiniteSetTheorems, TLAPS

-------------------------------------------------------------------------------
(* Type correctness *)

\* Every open that may still draw an id finds one left; without it TypeOK is not inductive.
IdsLeft == lastId + Cardinality(Undecided) <= MaxId

TypeInv == TypeOK /\ IdsLeft

Kinds == {"closed", "find", "check", "load", "mkdir", "temp", "rename", "open", "drop"}
Bearing == {"mkdir", "temp", "rename", "open", "drop"}

\* The kind of a call tells its fields.
LEMMA CallType ==
    ASSUME TypeOK, NEW c \in Clients
    PROVE  /\ op[c] \in Calls
           /\ op[c].kind \in Kinds
           /\ op[c].kind = "find" => op[c] \in [kind : {"find"}, id : 1 .. MaxId, todo : SUBSET Dirs, home : SUBSET Dirs]
           /\ op[c].kind = "check" =>
                 op[c] \in [kind : {"check"}, dir : Dirs, id : 1 .. MaxId \cup {None}, name : Names \cup {None}]
           /\ op[c].kind = "load" => op[c] \in [kind : {"load"}, dir : Dirs]
           /\ op[c].kind \in {"mkdir", "temp", "rename"} => op[c] \in Writes
           /\ op[c].kind \in {"open", "drop"} => op[c] \in Handles
           /\ op[c].kind \in Bearing => op[c].dir \in Dirs /\ op[c].mine \in Metadata
           /\ "mine" \in DOMAIN op[c] <=> op[c].kind \in Bearing
    <1>1. op[c] \in Calls
        BY DEF TypeOK
    <1>2. CASE op[c] \in [kind : {"closed"}, error : Errors \cup {None}]
        BY <1>1, <1>2 DEF Kinds, Bearing
    <1>3. CASE op[c] \in Opens
        BY <1>1, <1>3 DEF Opens, Kinds, Bearing
    <1>4. CASE op[c] \in Writes
        BY <1>1, <1>4 DEF Writes, Kinds, Bearing
    <1>5. CASE op[c] \in Handles
        BY <1>1, <1>5 DEF Handles, Kinds, Bearing
    <1> QED BY <1>1, <1>2, <1>3, <1>4, <1>5 DEF Calls

\* The records the actions make are calls.
LEMMA CallsMade ==
    ASSUME NEW d \in Dirs, NEW m \in Metadata, NEW error \in Errors \cup {None}
    PROVE  /\ Closed(error) \in Calls
           /\ Opened(d, m) \in Calls
           /\ [kind |-> "load", dir |-> d] \in Calls
           /\ \A id \in 1 .. MaxId \cup {None}, name \in Names \cup {None} :
                 [kind |-> "check", dir |-> d, id |-> id, name |-> name] \in Calls
           /\ \A kind \in {"mkdir", "temp", "rename"}, opening \in BOOLEAN :
                 [kind |-> kind, dir |-> d, mine |-> m, opening |-> opening] \in Calls
           /\ \A id \in 1 .. MaxId, todo \in SUBSET Dirs, home \in SUBSET Dirs :
                 [kind |-> "find", id |-> id, todo |-> todo, home |-> home] \in Calls
    <1>1. Closed(error) \in Calls
        BY DEF Closed, Calls
    <1>2. Opened(d, m) \in Calls
        BY DEF Opened, Calls, Handles
    <1>3. [kind |-> "load", dir |-> d] \in Calls
        BY DEF Calls, Opens
    <1>4. \A id \in 1 .. MaxId \cup {None}, name \in Names \cup {None} :
              [kind |-> "check", dir |-> d, id |-> id, name |-> name] \in Calls
        BY DEF Calls, Opens
    <1>5. \A kind \in {"mkdir", "temp", "rename"}, opening \in BOOLEAN :
              [kind |-> kind, dir |-> d, mine |-> m, opening |-> opening] \in Calls
        BY DEF Calls, Writes
    <1>6. \A id \in 1 .. MaxId, todo \in SUBSET Dirs, home \in SUBSET Dirs :
              [kind |-> "find", id |-> id, todo |-> todo, home |-> home] \in Calls
        BY DEF Calls, Opens
    <1> QED BY <1>1, <1>2, <1>3, <1>4, <1>5, <1>6

\* The directory of an accepted request is one of Dirs.
LEMMA DirectoryType ==
    ASSUME NEW ask \in Asks, Acceptable(ask), ask.id = None
    PROVE  Directory(ask) \in Dirs
    <1>1. CASE Given(ask) = None
        BY <1>1, PathsAssumption DEF Directory
    <1>2. CASE Given(ask) # None
        <2>1. IsSubdirectory(Given(ask))
            BY <1>2 DEF Acceptable
        <2>2. Given(ask) \in Names \cup Aliases
            BY <1>2 DEF Given, Asks
        <2> QED BY <1>2, <2>1, <2>2, DirsAssumption DEF Directory
    <1> QED BY <1>1, <1>2

LEMMA UndecidedFinite ==
    /\ IsFiniteSet(Undecided)
    /\ Cardinality(Undecided) \in Nat
    <1>1. Undecided \subseteq Clients
        BY DEF Undecided
    <1> QED BY <1>1, ClientsAssumption, FS_Subset, FS_CardinalityType

\* A step after which no open is waiting for an id that was not.
LEMMA IdsLeftFewer ==
    ASSUME TypeInv, Undecided' \subseteq Undecided, UNCHANGED lastId
    PROVE  IdsLeft'
    <1>1. IsFiniteSet(Undecided) /\ Cardinality(Undecided) \in Nat
        BY UndecidedFinite
    <1>2. Cardinality(Undecided') <= Cardinality(Undecided) /\ Cardinality(Undecided') \in Nat
        BY <1>1, FS_Subset, FS_CardinalityType
    <1>3. lastId \in Nat /\ MaxId \in Nat
        BY BoundsAssumption DEF TypeInv, TypeOK
    <1> QED BY <1>1, <1>2, <1>3 DEF TypeInv, IdsLeft

Undecides(call) == call.kind = "check" /\ call.id = None

\* A step of one client that does not begin to wait for an id.
LEMMA IdsLeftGo ==
    ASSUME TypeInv, NEW c \in Clients, NEW call, Go(c, call), ~Undecides(call), UNCHANGED lastId
    PROVE  IdsLeft'
    <1>1. Undecided' \subseteq Undecided
        BY DEF TypeInv, TypeOK, Go, Undecided, Undecides
    <1> QED BY <1>1, IdsLeftFewer

FilesInDirs == \A d \in Dirs \ dirs : ~Stored(d) /\ temps[d] = {}

\* Steps of a client's call that leave the directories as they are.
LEMMA TypeGo ==
    ASSUME TypeInv, NEW c \in Clients, NEW call \in Calls, Go(c, call), ~Undecides(call),
           contested' \subseteq Dirs, faults' \in Nat, UNCHANGED <<dirs, meta, temps, lastId>>
    PROVE  TypeInv'
    <1>1. IdsLeft'
        BY IdsLeftGo
    <1>2. TypeOK'
        BY DEF TypeInv, TypeOK, Go, Stored
    <1> QED BY <1>1, <1>2 DEF TypeInv

LEMMA TypeLeave ==
    ASSUME TypeInv, NEW c \in Clients, NEW error \in Errors \cup {None}, Leave(c, error),
           faults' \in Nat, UNCHANGED <<dirs, meta, temps, lastId>>
    PROVE  TypeInv'
    <1>1. Closed(error) \in Calls /\ ~Undecides(Closed(error))
        BY DEF Calls, Closed, Undecides
    <1>2. contested' \subseteq Dirs
        BY DEF TypeInv, TypeOK, Leave
    <1> QED BY <1>1, <1>2, TypeGo DEF Leave

LEMMA TypeOpen ==
    ASSUME TypeInv, NEW c \in Clients, NEW ask \in Asks,
           RejectArgs(c, ask) \/ OpenNamed(c, ask) \/ Search(c, ask)
    PROVE  TypeInv'
    <1>0. contested \subseteq Dirs /\ faults \in Nat
        BY DEF TypeInv, TypeOK
    <1>1. CASE RejectArgs(c, ask)
        <2>1. Closed("InvalidArgs") \in Calls /\ ~Undecides(Closed("InvalidArgs"))
            BY DEF Calls, Closed, Undecides, Errors
        <2> QED BY <1>0, <1>1, <2>1, TypeGo DEF RejectArgs
    <1>2. CASE OpenNamed(c, ask)
        <2> DEFINE call == [kind |-> "check", dir |-> Directory(ask), id |-> None, name |-> ask.name]
        <2>1. Directory(ask) \in Dirs
            BY <1>2, DirectoryType DEF OpenNamed
        <2>2. call \in Calls
            BY <2>1 DEF Asks, Calls, Opens
        <2>3. TypeOK'
            BY <1>2, <2>2 DEF OpenNamed, Go, TypeInv, TypeOK, Stored
        <2>4. Undecided' \subseteq Undecided \cup {c}
            BY <1>2 DEF OpenNamed, Go, TypeInv, TypeOK, Undecided
        <2>5. IsFiniteSet(Undecided \cup {c}) /\ Cardinality(Undecided \cup {c}) <= Cardinality(Undecided) + 1
              /\ Cardinality(Undecided \cup {c}) \in Nat
            <3>1. IsFiniteSet(Undecided) /\ Cardinality(Undecided) \in Nat
                BY UndecidedFinite
            <3>2. IsFiniteSet(Undecided \cup {c})
                BY <3>1, FS_AddElement
            <3>3. Cardinality(Undecided \cup {c})
                    = IF c \in Undecided THEN Cardinality(Undecided) ELSE Cardinality(Undecided) + 1
                BY <3>1, FS_AddElement
            <3> QED BY <3>1, <3>2, <3>3
        <2>6. Cardinality(Undecided') <= Cardinality(Undecided \cup {c}) /\ Cardinality(Undecided') \in Nat
            BY <2>4, <2>5, FS_Subset, FS_CardinalityType
        <2>7. lastId' = lastId /\ lastId \in Nat /\ MaxId \in Nat /\ lastId + Cardinality(Undecided) < MaxId
            BY <1>2, BoundsAssumption DEF OpenNamed, TypeInv, TypeOK
        <2>8. IdsLeft'
            BY <2>5, <2>6, <2>7, UndecidedFinite DEF IdsLeft
        <2> QED BY <2>3, <2>8 DEF TypeInv
    <1>3. CASE Search(c, ask)
        <2> DEFINE call == [kind |-> "find", id |-> ask.id, todo |-> dirs,
                            home |-> {d \in dirs \ contested : HasId(d, ask.id)}]
        <2>1. ask.id \in 1 .. MaxId /\ dirs \subseteq Dirs
            BY <1>3 DEF Search, Asks, TypeInv, TypeOK
        <2>2. {d \in dirs \ contested : HasId(d, ask.id)} \subseteq Dirs
            BY <2>1
        <2>3. call \in Calls
            BY <2>1, <2>2 DEF Calls, Opens
        <2>4. ~Undecides(call) /\ Go(c, call)
            BY <1>3 DEF Undecides, Search
        <2> QED BY <1>0, <1>3, <2>3, <2>4, TypeGo DEF Search
    <1> QED BY <1>1, <1>2, <1>3

LEMMA TypeSearch ==
    ASSUME TypeInv, NEW c \in Clients, (\E d \in Dirs : Inspect(c, d)) \/ NotFound(c)
    PROVE  TypeInv'
    <1>0. contested \subseteq Dirs /\ faults \in Nat
        BY DEF TypeInv, TypeOK
    <1>1. ASSUME NEW d \in Dirs, Inspect(c, d) PROVE TypeInv'
        <2>1. op[c] \in [kind : {"find"}, id : 1 .. MaxId, todo : SUBSET Dirs, home : SUBSET Dirs]
            BY <1>1, CallType DEF Inspect, TypeInv
        <2>2. CASE Matches(c, d)
            <3>1. [kind |-> "check", dir |-> d, id |-> op[c].id, name |-> None] \in Calls
                BY <2>1 DEF Calls, Opens
            <3>2. op[c].id # None
                BY <2>1, SentinelAssumption
            <3> QED BY <1>0, <1>1, <2>2, <3>1, <3>2, TypeGo DEF Inspect, Undecides
        <2>3. CASE ~Matches(c, d)
            <3>1. [op[c] EXCEPT !.todo = @ \ {d}] \in Calls
                BY <2>1 DEF Calls, Opens
            <3>2. ~Undecides([op[c] EXCEPT !.todo = @ \ {d}])
                BY <2>1 DEF Undecides
            <3> QED BY <1>0, <1>1, <2>3, <3>1, <3>2, TypeGo DEF Inspect
        <2> QED BY <2>2, <2>3
    <1>2. CASE NotFound(c)
        <2>1. Closed("NotFound") \in Calls /\ ~Undecides(Closed("NotFound"))
            BY DEF Calls, Closed, Undecides, Errors
        <2> QED BY <1>0, <1>2, <2>1, TypeGo DEF NotFound
    <1> QED BY <1>1, <1>2

LEMMA TypeLoad ==
    ASSUME TypeInv, NEW c \in Clients, MetadataExists(c) \/ Load(c) \/ LoadVanished(c)
    PROVE  TypeInv'
    <1>0. contested \subseteq Dirs /\ faults \in Nat
        BY DEF TypeInv, TypeOK
    <1>1. op[c].kind \in {"check", "load"} => op[c].dir \in Dirs
        BY CallType DEF TypeInv
    <1>2. CASE MetadataExists(c)
        <2>1. [kind |-> "load", dir |-> op[c].dir] \in Calls
            BY <1>1, <1>2 DEF MetadataExists, Calls, Opens
        <2> QED BY <1>0, <1>2, <2>1, TypeGo DEF MetadataExists, Undecides
    <1>3. CASE Load(c)
        <2>1. meta[op[c].dir] \in Metadata
            BY <1>1, <1>3 DEF Load, Stored, TypeInv, TypeOK
        <2>2. Opened(op[c].dir, meta[op[c].dir]) \in Calls
            BY <1>1, <1>3, <2>1 DEF Load, Opened, Calls, Handles
        <2>3. ~Undecides(Opened(op[c].dir, meta[op[c].dir]))
            BY DEF Opened, Undecides
        <2> QED BY <1>0, <1>3, <2>2, <2>3, TypeGo DEF Load
    <1>4. CASE LoadVanished(c)
        <2>1. Closed("Io") \in Calls /\ ~Undecides(Closed("Io"))
            BY DEF Calls, Closed, Undecides, Errors
        <2> QED BY <1>0, <1>4, <2>1, TypeGo DEF LoadVanished
    <1> QED BY <1>2, <1>3, <1>4

\* A search that is owed less is still a search, and decides nothing.
LEMMA OverlookedType ==
    ASSUME TypeOK, NEW d
    PROVE  /\ Overlooked(d) \in [Clients -> Calls]
           /\ \A c \in Clients : Overlooked(d)[c].kind = op[c].kind
           /\ \A c \in Clients : op[c].kind # "find" => Overlooked(d)[c] = op[c]
           /\ \A c \in Clients : op[c].kind = "find" => Overlooked(d)[c] = [op[c] EXCEPT !.home = @ \ {d}]
    <1>1. ASSUME NEW c \in Clients, op[c].kind = "find"
          PROVE  [op[c] EXCEPT !.home = @ \ {d}] \in Calls /\ [op[c] EXCEPT !.home = @ \ {d}].kind = op[c].kind
        <2>1. op[c] \in [kind : {"find"}, id : 1 .. MaxId, todo : SUBSET Dirs, home : SUBSET Dirs]
            BY <1>1, CallType
        <2> QED BY <2>1 DEF Calls, Opens
    <1>2. \A c \in Clients : op[c] \in Calls
        BY DEF TypeOK
    <1> QED BY <1>1, <1>2 DEF Overlooked

LEMMA TypeCreate ==
    ASSUME TypeInv, NEW c \in Clients, BeginCreate(c)
    PROVE  TypeInv'
    <1> DEFINE d == op[c].dir
               call == [kind |-> "mkdir", dir |-> d, mine |-> NewMetadata(c), opening |-> TRUE]
               others == IF Holders(d) # {} THEN Overlooked(d) ELSE op
    <1>1. op[c] \in [kind : {"check"}, dir : Dirs, id : 1 .. MaxId \cup {None}, name : Names \cup {None}]
        BY CallType DEF BeginCreate, TypeInv
    <1>2. op' = [others EXCEPT ![c] = call]
        BY DEF BeginCreate
    <1>3. others \in [Clients -> Calls] /\ \A e \in Clients : others[e].kind = op[e].kind
        BY OverlookedType DEF TypeInv, TypeOK
    <1>4. \A e \in Clients : op[e].kind = "check" => others[e] = op[e]
        BY OverlookedType DEF TypeInv
    <1>5. IsFiniteSet(Undecided) /\ Cardinality(Undecided) \in Nat /\ lastId \in Nat /\ MaxId \in Nat
        BY UndecidedFinite, BoundsAssumption DEF TypeInv, TypeOK
    <1>6. Undecided' \subseteq Undecided \ {c}
        BY <1>2, <1>3, <1>4 DEF Undecided
    <1>7. /\ IsFiniteSet(Undecided \ {c})
          /\ Cardinality(Undecided \ {c}) = IF c \in Undecided THEN Cardinality(Undecided) - 1 ELSE Cardinality(Undecided)
        BY <1>5, FS_RemoveElement
    <1>8. Cardinality(Undecided') <= Cardinality(Undecided \ {c}) /\ Cardinality(Undecided') \in Nat
        BY <1>6, <1>7, FS_Subset, FS_CardinalityType
    <1>9. c \in Undecided <=> op[c].id = None
        BY DEF BeginCreate, Undecided
    <1>10. lastId' = IF op[c].id = None THEN lastId + 1 ELSE lastId
        BY DEF BeginCreate
    <1>11. lastId' + Cardinality(Undecided') <= MaxId
        BY <1>5, <1>7, <1>8, <1>9, <1>10 DEF TypeInv, IdsLeft
    <1>12. lastId' \in 0 .. MaxId
        BY <1>5, <1>8, <1>10, <1>11
    <1>13. op[c].id = None => lastId + 1 \in 1 .. MaxId
        BY <1>5, <1>10, <1>12
    <1>14. NewMetadata(c) \in Metadata
        BY <1>1, <1>13 DEF NewMetadata, Metadata
    <1>15. call \in Calls
        BY <1>1, <1>14 DEF Calls, Writes
    <1>16. op' \in [Clients -> Calls]
        BY <1>2, <1>3, <1>15
    <1>17. contested' \subseteq Dirs
        BY <1>1 DEF BeginCreate, TypeInv, TypeOK
    <1> QED BY <1>11, <1>12, <1>16, <1>17 DEF TypeInv, TypeOK, IdsLeft, BeginCreate, Stored

\* The steps of atomic_write.
LEMMA TypeWrite ==
    ASSUME TypeInv, NEW c \in Clients, WriteBack(c) \/ CreateDir(c) \/ WriteTemp(c) \/ Rename(c)
    PROVE  TypeInv'
    <1>1. WriteBack(c) \/ op[c] \in Writes
        BY CallType DEF CreateDir, WriteTemp, Rename, TypeInv
    <1>2. WriteBack(c) => op[c] \in Handles
        BY CallType DEF WriteBack, TypeInv
    <1>3. op[c].dir \in Dirs /\ op[c].mine \in Metadata
        BY <1>1, <1>2 DEF Writes, Handles
    <1>4. CASE WriteBack(c)
        <2> DEFINE call == [kind |-> "mkdir", dir |-> op[c].dir, mine |-> op[c].mine, opening |-> FALSE]
        <2>1. call \in Calls /\ ~Undecides(call)
            BY <1>3 DEF Calls, Writes, Undecides
        <2>2. Go(c, call) /\ contested' \subseteq Dirs /\ faults' \in Nat
            BY <1>4 DEF WriteBack, TypeInv, TypeOK
        <2> HIDE DEF call
        <2> QED BY <1>4, <2>1, <2>2, TypeGo DEF WriteBack
    <1>5. \A kind \in {"temp", "rename"} :
              op[c] \in Writes => /\ [op[c] EXCEPT !.kind = kind] \in Calls
                                  /\ ~Undecides([op[c] EXCEPT !.kind = kind])
        BY DEF Calls, Writes, Undecides
    <1>6. CASE CreateDir(c)
        <2>1. Go(c, [op[c] EXCEPT !.kind = "temp"]) /\ UNCHANGED lastId
            BY <1>6 DEF CreateDir
        <2>2. op[c] \in Writes
            BY <1>6, CallType DEF CreateDir, TypeInv
        <2>3. IdsLeft'
            BY <1>5, <2>1, <2>2, IdsLeftGo
        <2>4. op' \in [Clients -> Calls]
            BY <1>5, <2>1, <2>2 DEF TypeInv, TypeOK, Go
        <2> QED BY <1>3, <1>6, <2>3, <2>4 DEF CreateDir, TypeInv, TypeOK, Stored
    <1>7. CASE WriteTemp(c)
        <2>1. Go(c, [op[c] EXCEPT !.kind = "rename"]) /\ UNCHANGED lastId
            BY <1>7 DEF WriteTemp
        <2>2. op[c] \in Writes
            BY <1>7, CallType DEF WriteTemp, TypeInv
        <2>3. IdsLeft'
            BY <1>5, <2>1, <2>2, IdsLeftGo
        <2>4. op' \in [Clients -> Calls]
            BY <1>5, <2>1, <2>2 DEF TypeInv, TypeOK, Go
        <2>5. temps' \in [Dirs -> SUBSET Clients] /\ \A d \in Dirs \ dirs : temps'[d] = temps[d]
            BY <1>3, <1>7 DEF WriteTemp, TypeInv, TypeOK
        <2> QED BY <1>7, <2>3, <2>4, <2>5 DEF WriteTemp, TypeInv, TypeOK, Stored
    <1>8. CASE Rename(c)
        <2>1. Go(c, Opened(op[c].dir, op[c].mine)) /\ UNCHANGED lastId
            BY <1>8 DEF Rename
        <2>2. Opened(op[c].dir, op[c].mine) \in Calls /\ ~Undecides(Opened(op[c].dir, op[c].mine))
            BY <1>3 DEF Opened, Calls, Handles, Undecides
        <2>3. IdsLeft' /\ op' \in [Clients -> Calls]
            BY <2>1, <2>2, IdsLeftGo DEF TypeInv, TypeOK, Go
        <2>4. op[c].dir \in dirs
            BY <1>3, <1>8 DEF Rename, Renamable, TypeInv, TypeOK
        <2>5. /\ meta' \in [Dirs -> Metadata \cup {None}]
              /\ temps' \in [Dirs -> SUBSET Clients]
              /\ \A d \in Dirs \ dirs : meta'[d] = meta[d] /\ temps'[d] = temps[d]
            BY <1>3, <1>8, <2>4 DEF Rename, TypeInv, TypeOK
        <2> QED BY <1>8, <2>3, <2>5 DEF Rename, TypeInv, TypeOK, Stored
    <1> QED BY <1>4, <1>6, <1>7, <1>8

\* A call that fails is still a call, and the client is gone only if it was being opened.
LEMMA FailType ==
    ASSUME TypeInv, NEW c \in Clients, op[c] \in Writes, Fail(c), UNCHANGED lastId
    PROVE  op' \in [Clients -> Calls] /\ contested' \subseteq Dirs /\ IdsLeft'
    <1>1. CASE op[c].opening
        <2>1. Leave(c, "Io")
            BY <1>1 DEF Fail
        <2>2. Closed("Io") \in Calls /\ ~Undecides(Closed("Io")) /\ Go(c, Closed("Io"))
            BY <2>1 DEF Calls, Closed, Undecides, Errors, Leave
        <2>3. contested' \subseteq Dirs
            BY <2>1 DEF TypeInv, TypeOK, Leave
        <2> QED BY <2>2, <2>3, IdsLeftGo DEF TypeInv, TypeOK, Go
    <1>2. CASE ~op[c].opening
        <2>1. Opened(op[c].dir, op[c].mine) \in Calls /\ ~Undecides(Opened(op[c].dir, op[c].mine))
            BY DEF Opened, Calls, Handles, Writes, Undecides
        <2>2. Go(c, Opened(op[c].dir, op[c].mine)) /\ UNCHANGED contested
            BY <1>2 DEF Fail
        <2> QED BY <2>1, <2>2, IdsLeftGo DEF TypeInv, TypeOK, Go
    <1> QED BY <1>1, <1>2

LEMMA TypeFail ==
    ASSUME TypeInv, NEW c \in Clients, WriteLost(c) \/ WriteFails(c) \/ Crash(c)
    PROVE  TypeInv'
    <1>1. CASE WriteLost(c)
        <2>1. op[c] \in Writes /\ Fail(c)
            BY <1>1, CallType DEF WriteLost, TypeInv
        <2> QED BY <1>1, <2>1, FailType DEF WriteLost, TypeInv, TypeOK, Stored
    <1>2. CASE WriteFails(c)
        <2>1. op[c] \in Writes /\ Fail(c) /\ op[c].dir \in Dirs
            BY <1>2, CallType DEF WriteFails, TypeInv, Writes
        <2>2. /\ temps' \in [Dirs -> SUBSET Clients]
              /\ \A d \in Dirs \ dirs : temps'[d] = {}
            BY <1>2, <2>1 DEF WriteFails, TypeInv, TypeOK
        <2> QED BY <1>2, <2>1, <2>2, FailType DEF WriteFails, MayFault, TypeInv, TypeOK, Stored
    <1>3. CASE Crash(c)
        BY <1>3, TypeLeave DEF Crash, MayFault, TypeInv, TypeOK
    <1> QED BY <1>1, <1>2, <1>3

LEMMA TypeDrop ==
    ASSUME TypeInv, NEW c \in Clients, DropFiles(c) \/ DropDir(c)
    PROVE  TypeInv'
    <1>1. op[c] \in Handles /\ op[c].dir \in Dirs
        BY CallType DEF DropFiles, DropDir, TypeInv, Handles
    <1>2. \A kind \in {"open", "drop"} : /\ [op[c] EXCEPT !.kind = kind] \in Calls
                                         /\ ~Undecides([op[c] EXCEPT !.kind = kind])
        BY <1>1 DEF Calls, Handles, Undecides
    <1>3. CASE DropFiles(c)
        <2> DEFINE others == Overlooked(op[c].dir)
        <2>1. op' = [others EXCEPT ![c] = [op[c] EXCEPT !.kind = "drop"]]
            BY <1>3 DEF DropFiles
        <2>2. /\ others \in [Clients -> Calls]
              /\ \A e \in Clients : others[e].kind = op[e].kind
              /\ \A e \in Clients : op[e].kind = "check" => others[e] = op[e]
            BY OverlookedType DEF TypeInv
        <2> HIDE DEF others
        <2>3. op' \in [Clients -> Calls]
            BY <1>2, <2>1, <2>2
        <2>4. Undecided' \subseteq Undecided
            BY <1>2, <2>1, <2>2 DEF Undecided, Undecides
        <2>5. IdsLeft'
            BY <1>3, <2>4, IdsLeftFewer DEF DropFiles
        <2>6. /\ meta' \in [Dirs -> Metadata \cup {None}]
              /\ temps' \in [Dirs -> SUBSET Clients]
              /\ \A d \in Dirs \ dirs : meta'[d] = meta[d] /\ temps'[d] = temps[d]
            BY <1>1, <1>3 DEF DropFiles, TypeInv, TypeOK
        <2> QED BY <1>3, <2>3, <2>5, <2>6 DEF DropFiles, TypeInv, TypeOK, Stored
    <1>4. CASE DropDir(c)
        <2>1. Go(c, [op[c] EXCEPT !.kind = "open"]) /\ UNCHANGED lastId
            BY <1>4 DEF DropDir
        <2>2. IdsLeft' /\ op' \in [Clients -> Calls]
            BY <1>2, <2>1, IdsLeftGo DEF TypeInv, TypeOK, Go
        <2> QED BY <1>4, <2>2 DEF DropDir, TypeInv, TypeOK, Stored
    <1> QED BY <1>3, <1>4

LEMMA TypeInductive == Spec => []TypeInv
    <1>1. Init => TypeInv
        <2> SUFFICES ASSUME Init PROVE TypeInv
            OBVIOUS
        <2>1. Closed(None) \in Calls /\ Closed(None).kind # "check"
            BY DEF Calls, Closed
        <2>2. Undecided = {}
            BY <2>1 DEF Init, Undecided
        <2>3. Cardinality(Undecided) = 0
            BY <2>2, FS_EmptySet
        <2>4. MaxId \in Nat
            BY BoundsAssumption
        <2>5. TypeOK
            BY <2>1, <2>4 DEF Init, TypeOK, Stored
        <2> QED BY <2>3, <2>4, <2>5 DEF Init, TypeInv, IdsLeft
    <1>2. TypeInv /\ [Next]_vars => TypeInv'
        <2> SUFFICES ASSUME TypeInv, [Next]_vars PROVE TypeInv'
            OBVIOUS
        <2>1. CASE UNCHANGED vars
            BY <2>1, IdsLeftFewer DEF vars, TypeInv, TypeOK, IdsLeft, Undecided, Stored
        <2>2. ASSUME NEW c \in Clients, Open(c) PROVE TypeInv'
            BY <2>2, TypeOpen, TypeSearch, TypeLoad, TypeCreate DEF Open
        <2>3. ASSUME NEW c \in Clients, Use(c) \/ Drop(c) \/ Crash(c) \/ WriteFails(c) PROVE TypeInv'
            BY <2>3, TypeWrite, TypeFail, TypeDrop DEF Use, Drop
        <2> QED BY <2>1, <2>2, <2>3 DEF Next
    <1> QED BY <1>1, <1>2, PTL DEF Spec

\* Every variable keeps its shape, and a file lies only in a directory that is there:
\* no write revives part of a directory that was dropped under it.
THEOREM TypeCorrect == Spec => []TypeOK
    <1>1. TypeInv => TypeOK
        BY DEF TypeInv
    <1> QED BY <1>1, TypeInductive, PTL

-------------------------------------------------------------------------------
(* What a step makes of the calls of the other clients and of its own           *)

\* Other clients' calls are what they were, but that searches may be owed less.
OthersStay(c) ==
    \A e \in Clients \ {c} :
        \/ op'[e] = op[e]
        \/ op[e].kind = "find" /\ op'[e].kind = "find"

LEMMA GoEffect ==
    ASSUME TypeOK, NEW c \in Clients, NEW call, Go(c, call)
    PROVE  op'[c] = call /\ \A e \in Clients \ {c} : op'[e] = op[e]
    BY DEF TypeOK, Go

\* The step of an open, a write or a drop goes on with the metadata it has, with that of
\* the disk, or with fresh ones.
LEMMA OthersEffect ==
    ASSUME TypeOK, NEW c \in Clients, NEW d, NEW call, op' = [Overlooked(d) EXCEPT ![c] = call]
    PROVE  OthersStay(c) /\ op'[c] = call
    BY OverlookedType DEF OthersStay

-------------------------------------------------------------------------------
(* IdsNameOneDirectory.  An open that found the storage it was asked for by id   *)
(* also knows an id, so the invariant speaks of it too, and no id is ahead of     *)
(* the last one drawn.                                                            *)

Bears(call, id, d) ==
    \/ call.kind \in Bearing /\ call.mine.id = id /\ call.dir = d
    \/ call.kind = "check" /\ call.id = id /\ id # None /\ call.dir = d

Refers(id, d) == (d \in Dirs /\ HasId(d, id)) \/ \E c \in Clients : Bears(op[c], id, d)

IdInv ==
    /\ \A id, d, e : Refers(id, d) /\ Refers(id, e) => d = e
    /\ \A id, d : Refers(id, d) => id <= lastId

\* A step after which nothing refers to anything it did not refer to before.
LEMMA IdStep ==
    ASSUME IdInv, NEW c \in Clients, OthersStay(c), UNCHANGED lastId,
           \A id, d : Bears(op'[c], id, d) => Refers(id, d),
           \A id, d : d \in Dirs /\ HasId(d, id)' => Refers(id, d)
    PROVE  IdInv'
    <1>1. \A id, d : Refers(id, d)' => Refers(id, d)
        <2> SUFFICES ASSUME NEW id, NEW d, Refers(id, d)' PROVE Refers(id, d)
            OBVIOUS
        <2>1. CASE d \in Dirs /\ HasId(d, id)'
            BY <2>1
        <2>2. ASSUME NEW e \in Clients, Bears(op'[e], id, d) PROVE Refers(id, d)
            <3>1. CASE e = c
                BY <2>2, <3>1
            <3>2. CASE e # c
                BY <2>2, <3>2 DEF OthersStay, Refers, Bears, Bearing
            <3> QED BY <3>1, <3>2
        <2>3. (\E e \in Clients : Bears(op'[e], id, d)) \/ (d \in Dirs /\ HasId(d, id)')
            BY DEF Refers, Bears
        <2> QED BY <2>1, <2>2, <2>3
    <1> QED BY <1>1 DEF IdInv

\* The step of one client, with the disk as it was.
LEMMA IdGo ==
    ASSUME TypeOK, IdInv, NEW c \in Clients, NEW call, Go(c, call), UNCHANGED <<meta, lastId>>,
           \A id, d : Bears(call, id, d) => Refers(id, d)
    PROVE  IdInv'
    <1>1. op'[c] = call /\ OthersStay(c)
        BY GoEffect DEF OthersStay
    <1>2. \A id, d : d \in Dirs /\ HasId(d, id)' => Refers(id, d)
        BY DEF HasId, Stored, Refers
    <1> QED BY <1>1, <1>2, IdStep

LEMMA BearsNothing ==
    ASSUME NEW call, call.kind \in {"closed", "find", "load"} \/ Undecides(call)
    PROVE  \A id, d : ~Bears(call, id, d)
    BY DEF Bears, Bearing, Undecides

\* A call that goes on with the metadata it had.
LEMMA BearsSame ==
    ASSUME NEW c \in Clients, op[c].kind \in Bearing, NEW call, call.kind \in Bearing,
           call.dir = op[c].dir, call.mine = op[c].mine
    PROVE  \A id, d : Bears(call, id, d) => Refers(id, d)
    BY DEF Bears, Refers, Bearing

LEMMA IdOpen ==
    ASSUME TypeInv, IdInv, NEW c \in Clients, Open(c)
    PROVE  IdInv'
    <1>0. TypeOK
        BY DEF TypeInv
    <1>1. ASSUME NEW ask \in Asks, RejectArgs(c, ask) \/ OpenNamed(c, ask) \/ Search(c, ask)
          PROVE  IdInv'
        BY <1>0, <1>1, IdGo, BearsNothing DEF RejectArgs, OpenNamed, Search, Closed, Undecides
    <1>2. ASSUME NEW d \in Dirs, Inspect(c, d) PROVE IdInv'
        <2>1. op[c] \in [kind : {"find"}, id : 1 .. MaxId, todo : SUBSET Dirs, home : SUBSET Dirs]
            BY <1>0, <1>2, CallType DEF Inspect
        <2>2. CASE Matches(c, d)
            <3> DEFINE call == [kind |-> "check", dir |-> d, id |-> op[c].id, name |-> None]
            <3>1. \A id, e : Bears(call, id, e) => Refers(id, e)
                BY <2>2 DEF Bears, Bearing, Matches, Refers
            <3>2. Go(c, call) /\ UNCHANGED <<meta, lastId>>
                BY <1>2, <2>2 DEF Inspect
            <3> QED BY <1>0, <3>1, <3>2, IdGo
        <2>3. CASE ~Matches(c, d)
            <3>1. [op[c] EXCEPT !.todo = @ \ {d}].kind = "find"
                BY <2>1
            <3> QED BY <1>0, <1>2, <2>3, <3>1, IdGo, BearsNothing DEF Inspect
        <2> QED BY <2>2, <2>3
    <1>3. CASE NotFound(c) \/ MetadataExists(c) \/ LoadVanished(c)
        BY <1>0, <1>3, IdGo, BearsNothing DEF NotFound, MetadataExists, LoadVanished, Closed
    <1>4. CASE Load(c)
        <2> DEFINE call == Opened(op[c].dir, meta[op[c].dir])
        <2>1. op[c].dir \in Dirs /\ Stored(op[c].dir)
            BY <1>0, <1>4, CallType DEF Load
        <2>2. \A id, e : Bears(call, id, e) => Refers(id, e)
            BY <2>1 DEF Opened, Bears, Bearing, Refers, HasId
        <2>3. Go(c, call) /\ UNCHANGED <<meta, lastId>>
            BY <1>4 DEF Load
        <2> QED BY <1>0, <2>2, <2>3, IdGo
    <1>5. CASE BeginCreate(c)
        <2> DEFINE d == op[c].dir
                   call == [kind |-> "mkdir", dir |-> d, mine |-> NewMetadata(c), opening |-> TRUE]
        <2>1. op'[c] = call /\ OthersStay(c)
            <3>1. CASE Holders(d) # {}
                BY <1>0, <1>5, <3>1, OthersEffect DEF BeginCreate
            <3>2. CASE Holders(d) = {}
                BY <1>0, <1>5, <3>2 DEF BeginCreate, OthersStay, TypeOK
            <3> QED BY <3>1, <3>2
        <2>2. \A id, e : e \in Dirs /\ HasId(e, id)' => Refers(id, e)
            BY <1>5 DEF BeginCreate, HasId, Stored, Refers
        <2>3. op[c].kind = "check"
            BY <1>5 DEF BeginCreate
        <2>4. CASE op[c].id # None
            <3>1. \A id, e : Bears(call, id, e) => Refers(id, e)
                BY <2>3, <2>4 DEF Bears, Bearing, NewMetadata, Refers
            <3>2. UNCHANGED lastId
                BY <1>5, <2>4 DEF BeginCreate
            <3> QED BY <2>1, <2>2, <3>1, <3>2, IdStep
        <2>5. CASE op[c].id = None
            <3>1. lastId' = lastId + 1 /\ lastId \in Nat
                BY <1>0, <1>5, <2>5 DEF BeginCreate, TypeOK
            <3>2. \A id, e : Bears(call, id, e) => id = lastId + 1 /\ e = d
                BY <2>5 DEF Bears, Bearing, NewMetadata
            <3>3. \A id, e : Refers(id, e)' => Refers(id, e) \/ (id = lastId + 1 /\ e = d)
                <4> SUFFICES ASSUME NEW id, NEW e, Refers(id, e)'
                             PROVE  Refers(id, e) \/ (id = lastId + 1 /\ e = d)
                    OBVIOUS
                <4>1. CASE e \in Dirs /\ HasId(e, id)'
                    BY <2>2, <4>1
                <4>2. ASSUME NEW f \in Clients, Bears(op'[f], id, e)
                      PROVE  Refers(id, e) \/ (id = lastId + 1 /\ e = d)
                    <5>1. CASE f = c
                        BY <2>1, <3>2, <4>2, <5>1
                    <5>2. CASE f # c
                        BY <2>1, <4>2, <5>2 DEF OthersStay, Refers, Bears, Bearing
                    <5> QED BY <5>1, <5>2
                <4>3. (e \in Dirs /\ HasId(e, id)') \/ \E f \in Clients : Bears(op'[f], id, e)
                    BY DEF Refers, Bears
                <4> QED BY <4>1, <4>2, <4>3
            <3>4. ~\E e : Refers(lastId + 1, e)
                BY <3>1 DEF IdInv
            <3>5. \A id, e : Refers(id, e) => id \in Int
                <4>1. \A e \in Dirs : Stored(e) => meta[e].id \in Int
                    BY <1>0, BoundsAssumption DEF TypeOK, Stored, Metadata
                <4>2. \A f \in Clients : \A id, e : Bears(op[f], id, e) => id \in Int
                    BY <1>0, CallType, BoundsAssumption DEF Bears, Metadata
                <4> QED BY <4>1, <4>2 DEF Refers, HasId
            <3>6. \A id, e : Refers(id, e) => id <= lastId + 1
                BY <3>1, <3>5 DEF IdInv
            <3> HIDE DEF d
            <3>7. \A id, e, f : Refers(id, e)' /\ Refers(id, f)' => e = f
                BY <3>3, <3>4 DEF IdInv
            <3>8. \A id, e : Refers(id, e)' => id <= lastId'
                BY <3>1, <3>3, <3>6
            <3> QED BY <3>7, <3>8 DEF IdInv
        <2> QED BY <2>4, <2>5
    <1> QED BY <1>1, <1>2, <1>3, <1>4, <1>5 DEF Open

\* A client that is gone, or whose call failed.
LEMMA IdFail ==
    ASSUME TypeInv, IdInv, NEW c \in Clients, UNCHANGED <<meta, lastId>>,
           (\E error : Leave(c, error)) \/ (op[c].kind \in Bearing /\ Fail(c))
    PROVE  IdInv'
    <1>0. TypeOK
        BY DEF TypeInv
    <1>1. ASSUME NEW error, Leave(c, error) PROVE IdInv'
        BY <1>0, <1>1, IdGo, BearsNothing DEF Leave, Closed
    <1>2. CASE op[c].kind \in Bearing /\ Fail(c)
        <2>1. CASE op[c].opening
            BY <1>1, <1>2, <2>1 DEF Fail
        <2>2. CASE ~op[c].opening
            <3>1. Go(c, Opened(op[c].dir, op[c].mine))
                BY <1>2, <2>2 DEF Fail
            <3>2. \A id, d : Bears(Opened(op[c].dir, op[c].mine), id, d) => Refers(id, d)
                BY <1>2, BearsSame DEF Opened, Bearing
            <3> QED BY <1>0, <3>1, <3>2, IdGo
        <2> QED BY <2>1, <2>2
    <1> QED BY <1>1, <1>2

LEMMA IdUse ==
    ASSUME TypeInv, IdInv, NEW c \in Clients, Use(c) \/ Drop(c) \/ Crash(c) \/ WriteFails(c)
    PROVE  IdInv'
    <1>0. TypeOK
        BY DEF TypeInv
    <1>1. op[c].kind \in {"mkdir", "temp", "rename"} => op[c] \in Writes
        BY <1>0, CallType
    <1>2. CASE WriteBack(c)
        <2> DEFINE call == [kind |-> "mkdir", dir |-> op[c].dir, mine |-> op[c].mine, opening |-> FALSE]
        <2>1. \A id, d : Bears(call, id, d) => Refers(id, d)
            BY <1>2, BearsSame DEF WriteBack, Bearing
        <2>2. Go(c, call) /\ UNCHANGED <<meta, lastId>>
            BY <1>2 DEF WriteBack
        <2> HIDE DEF call
        <2> QED BY <1>0, <2>1, <2>2, IdGo
    <1>3. CASE CreateDir(c) \/ WriteTemp(c)
        <2>1. op[c] \in Writes /\ op[c].kind \in Bearing
            BY <1>1, <1>3 DEF CreateDir, WriteTemp, Bearing
        <2>2. PICK kind \in {"temp", "rename"} : Go(c, [op[c] EXCEPT !.kind = kind])
            BY <1>3 DEF CreateDir, WriteTemp
        <2>3. \A id, d : Bears([op[c] EXCEPT !.kind = kind], id, d) => Refers(id, d)
            BY <2>1, BearsSame DEF Writes, Bearing
        <2>4. UNCHANGED <<meta, lastId>>
            BY <1>3 DEF CreateDir, WriteTemp
        <2> QED BY <1>0, <2>2, <2>3, <2>4, IdGo
    <1>4. CASE Rename(c)
        <2>1. op[c].kind \in Bearing /\ op[c].dir \in Dirs
            BY <1>1, <1>4 DEF Rename, Bearing, Writes
        <2>2. op'[c] = Opened(op[c].dir, op[c].mine) /\ OthersStay(c)
            BY <1>0, <1>4, GoEffect DEF Rename, OthersStay
        <2>3. \A id, d : Bears(op'[c], id, d) => Refers(id, d)
            BY <2>1, <2>2, BearsSame DEF Opened, Bearing
        <2>4. \A id, d : d \in Dirs /\ HasId(d, id)' => Refers(id, d)
            BY <1>0, <1>4, <2>1 DEF Rename, TypeOK, HasId, Stored, Refers, Bears
        <2>5. UNCHANGED lastId
            BY <1>4 DEF Rename
        <2> QED BY <2>2, <2>3, <2>4, <2>5, IdStep
    <1>5. CASE WriteLost(c) \/ WriteFails(c)
        <2>1. op[c].kind \in Bearing /\ Fail(c) /\ UNCHANGED <<meta, lastId>>
            BY <1>5 DEF WriteLost, WriteFails, Bearing
        <2> QED BY <2>1, IdFail
    <1>6. CASE Crash(c)
        <2>1. Leave(c, None) /\ UNCHANGED <<meta, lastId>>
            BY <1>6 DEF Crash
        <2> QED BY <2>1, IdFail
    <1>7. CASE DropFiles(c)
        <2> DEFINE call == [op[c] EXCEPT !.kind = "drop"]
        <2>1. op[c] \in Handles /\ op[c].kind \in Bearing /\ op[c].dir \in Dirs
            BY <1>0, <1>7, CallType DEF DropFiles, Bearing
        <2>2. op'[c] = call /\ OthersStay(c)
            BY <1>0, <1>7, OthersEffect DEF DropFiles
        <2>3. \A id, d : Bears(call, id, d) => Refers(id, d)
            BY <2>1, BearsSame DEF Handles, Bearing
        <2>4. \A id, d : d \in Dirs /\ HasId(d, id)' => Refers(id, d)
            BY <1>0, <1>7, <2>1 DEF DropFiles, TypeOK, HasId, Stored, Refers
        <2>5. UNCHANGED lastId
            BY <1>7 DEF DropFiles
        <2> QED BY <2>2, <2>3, <2>4, <2>5, IdStep
    <1>8. CASE DropDir(c)
        <2>1. op[c] \in Handles /\ op[c].kind \in Bearing
            BY <1>0, <1>8, CallType DEF DropDir, Bearing
        <2>2. \A id, d : Bears([op[c] EXCEPT !.kind = "open"], id, d) => Refers(id, d)
            BY <2>1, BearsSame DEF Handles, Bearing
        <2> QED BY <1>0, <1>8, <2>2, IdGo DEF DropDir
    <1> QED BY <1>2, <1>3, <1>4, <1>5, <1>6, <1>7, <1>8 DEF Use, Drop

LEMMA IdImplies ==
    ASSUME TypeOK, IdInv
    PROVE  IdsNameOneDirectory
    <1>1. \A p \in Identities : Refers(p[1], p[2])
        BY CallType DEF Identities, Refers, HasId, Bears
    <1> QED BY <1>1 DEF IdInv, IdsNameOneDirectory

\* An id never stands for two directories, on disk, in the memory of any client or in an
\* open under way: neither concurrent creation nor a drop during a search gives an id away twice.
THEOREM IdsStayUnique == Spec => []IdsNameOneDirectory
    <1>1. Init => IdInv
        BY DEF Init, IdInv, Refers, HasId, Stored, Bears, Closed, Bearing
    <1>2. TypeInv /\ IdInv /\ [Next]_vars => IdInv'
        <2> SUFFICES ASSUME TypeInv, IdInv, [Next]_vars PROVE IdInv'
            OBVIOUS
        <2>1. CASE UNCHANGED vars
            BY <2>1 DEF vars, IdInv, Refers, HasId, Stored, Bears
        <2>2. ASSUME NEW c \in Clients, Open(c) \/ Use(c) \/ Drop(c) \/ Crash(c) \/ WriteFails(c) PROVE IdInv'
            BY <2>2, IdOpen, IdUse
        <2> QED BY <2>1, <2>2 DEF Next
    <1>3. TypeInv /\ IdInv => IdsNameOneDirectory
        BY IdImplies DEF TypeInv
    <1> QED BY <1>1, <1>2, <1>3, TypeInductive, PTL DEF Spec

-------------------------------------------------------------------------------
(* ClientsAgreeWithDisk and SearchMissesNothing.  The first is inductive; the     *)
(* second needs it: what a search is owed is a directory whose metadata has that  *)
(* id and is not in dispute, so that whoever writes it back writes that id.       *)

HomesKnown ==
    \A c \in Clients : op[c].kind = "find" =>
        \A d \in op[c].home : d \in op[c].todo /\ d \in Dirs \ contested /\ HasId(d, op[c].id)

AgreeInv == ClientsAgreeWithDisk /\ HomesKnown

Holds(c, d) == op[c].kind \in Bearing /\ op[c].dir = d

LEMMA BearingCalls ==
    ASSUME NEW call \in Calls
    PROVE  "mine" \in DOMAIN call <=> call.kind \in Bearing
    <1>1. CASE call \in [kind : {"closed"}, error : Errors \cup {None}]
        BY <1>1 DEF Bearing
    <1>2. CASE call \in Opens
        BY <1>2 DEF Opens, Bearing
    <1>3. CASE call \in Writes
        BY <1>3 DEF Writes, Bearing
    <1>4. CASE call \in Handles
        BY <1>4 DEF Handles, Bearing
    <1> QED BY <1>1, <1>2, <1>3, <1>4 DEF Calls

LEMMA HoldersHold ==
    ASSUME TypeOK
    PROVE  \A d : Holders(d) = {c \in Clients : Holds(c, d)}
    BY BearingCalls DEF Holders, Holds, TypeOK

LEMMA HoldersHoldNext ==
    ASSUME TypeOK'
    PROVE  \A d : Holders(d)' = {c \in Clients : Holds(c, d)'}
    BY BearingCalls DEF Holders, Holds, TypeOK

\* Agreement in terms of Holds.
LEMMA AgreeMeans ==
    ASSUME TypeOK
    PROVE  ClientsAgreeWithDisk <=>
              \A d \in Dirs \ contested :
                 /\ \A c, e \in Clients : Holds(c, d) /\ Holds(e, d) => op[c].mine = op[e].mine
                 /\ Stored(d) => \A c \in Clients : Holds(c, d) => op[c].mine = meta[d]
    BY HoldersHold DEF ClientsAgreeWithDisk

\* A step of c that brings it no other metadata, and the disk no other than c's own.
LEMMA AgreeStep ==
    ASSUME TypeOK, TypeOK', ClientsAgreeWithDisk, NEW c \in Clients, OthersStay(c),
           op'[c].kind \in Bearing => op[c].kind \in Bearing /\ op'[c].dir = op[c].dir /\ op'[c].mine = op[c].mine,
           \A d \in contested \ contested' : Holders(d)' = {},
           \A d \in Dirs : meta'[d] \in {meta[d], None} \/ (Holds(c, d) /\ meta'[d] = op[c].mine)
    PROVE  ClientsAgreeWithDisk'
    <1>1. \A d \in Dirs \ contested :
              /\ \A b, e \in Clients : Holds(b, d) /\ Holds(e, d) => op[b].mine = op[e].mine
              /\ Stored(d) => \A e \in Clients : Holds(e, d) => op[e].mine = meta[d]
        BY AgreeMeans
    <1>2. \A d, e : Holds(e, d)' /\ e \in Clients => Holds(e, d) /\ op'[e].mine = op[e].mine
        BY DEF OthersStay, Holds, Bearing
    <1>3. \A d : Holders(d)' = {e \in Clients : Holds(e, d)'}
        BY HoldersHoldNext
    <1> SUFFICES ASSUME NEW d \in Dirs, d \notin contested'
                 PROVE  /\ \A b, e \in Holders(d)' : op'[b].mine = op'[e].mine
                        /\ Stored(d)' => \A b \in Holders(d)' : op'[b].mine = meta'[d]
        BY DEF ClientsAgreeWithDisk
    <1>4. CASE d \in contested
        BY <1>4
    <1>5. CASE d \notin contested
        <2>1. \A b, e \in Clients : Holds(b, d)' /\ Holds(e, d)' => op'[b].mine = op'[e].mine
            BY <1>1, <1>2, <1>5
        <2>2. ASSUME Stored(d)', NEW b \in Clients, Holds(b, d)' PROVE op'[b].mine = meta'[d]
            <3>1. Holds(b, d) /\ op'[b].mine = op[b].mine
                BY <1>2, <2>2
            <3>2. CASE Holds(c, d) /\ meta'[d] = op[c].mine
                BY <1>1, <1>5, <3>1, <3>2
            <3>3. CASE meta'[d] \in {meta[d], None}
                BY <1>1, <1>5, <2>2, <3>1, <3>3 DEF Stored
            <3> QED BY <3>2, <3>3
        <2> QED BY <1>3, <2>1, <2>2
    <1> QED BY <1>4, <1>5

\* A step of c that leaves the disk alone and adds nothing to what searches are owed.
LEMMA HomeGo ==
    ASSUME TypeOK, HomesKnown, NEW c \in Clients, NEW call, Go(c, call), call.kind # "find",
           contested' \subseteq contested, UNCHANGED meta
    PROVE  HomesKnown'
    <1>1. op'[c] = call /\ \A e \in Clients \ {c} : op'[e] = op[e]
        BY GoEffect
    <1> QED BY <1>1 DEF HomesKnown, HasId, Stored

LEMMA AgreeGo ==
    ASSUME TypeOK, TypeOK', AgreeInv, NEW c \in Clients, NEW call, Go(c, call), call.kind # "find",
           call.kind \in Bearing => op[c].kind \in Bearing /\ call.dir = op[c].dir /\ call.mine = op[c].mine,
           UNCHANGED <<meta, contested>>
    PROVE  AgreeInv'
    <1>1. op'[c] = call /\ OthersStay(c)
        BY GoEffect DEF OthersStay
    <1>2. ClientsAgreeWithDisk'
        BY <1>1, AgreeStep DEF AgreeInv
    <1> QED BY <1>2, HomeGo DEF AgreeInv

LEMMA AgreeLeave ==
    ASSUME TypeOK, TypeOK', AgreeInv, NEW c \in Clients, NEW error, Leave(c, error), UNCHANGED meta
    PROVE  AgreeInv'
    <1>1. op'[c] = Closed(error) /\ OthersStay(c) /\ \A e \in Clients \ {c} : op'[e] = op[e]
        BY GoEffect DEF Leave, OthersStay
    <1>2. op'[c].kind \notin Bearing
        BY <1>1 DEF Closed, Bearing
    <1>3. \A d : Holders(d)' \subseteq Holders(d) \ {c}
        <2>1. \A d : Holders(d)' = {e \in Clients : Holds(e, d)'}
            BY HoldersHoldNext
        <2>2. \A d : \A e \in Clients : Holds(e, d)' => e # c /\ Holds(e, d)
            BY <1>1, <1>2 DEF Holds
        <2> QED BY <2>1, <2>2, HoldersHold
    <1>4. \A d \in contested \ contested' : Holders(d)' = {}
        BY <1>3 DEF Leave
    <1>5. ClientsAgreeWithDisk'
        BY <1>1, <1>2, <1>4, AgreeStep DEF AgreeInv
    <1>6. HomesKnown'
        <2>1. Go(c, Closed(error)) /\ Closed(error).kind # "find" /\ contested' \subseteq contested
            BY DEF Leave, Closed
        <2> QED BY <2>1, HomeGo DEF AgreeInv
    <1> QED BY <1>5, <1>6 DEF AgreeInv

LEMMA AgreeFail ==
    ASSUME TypeOK, TypeOK', AgreeInv, NEW c \in Clients, op[c].kind \in Bearing, Fail(c), UNCHANGED meta
    PROVE  AgreeInv'
    <1>1. CASE op[c].opening
        BY <1>1, AgreeLeave DEF Fail
    <1>2. CASE ~op[c].opening
        BY <1>2, AgreeGo DEF Fail, Opened
    <1> QED BY <1>1, <1>2

LEMMA AgreeSearch ==
    ASSUME TypeOK, TypeOK', AgreeInv, NEW c \in Clients,
           (\E ask \in Asks : Search(c, ask)) \/ (\E d \in Dirs : Inspect(c, d))
    PROVE  AgreeInv'
    <1>1. ASSUME NEW ask \in Asks, Search(c, ask) PROVE AgreeInv'
        <2> DEFINE call == [kind |-> "find", id |-> ask.id, todo |-> dirs,
                            home |-> {d \in dirs \ contested : HasId(d, ask.id)}]
        <2>1. op'[c] = call /\ OthersStay(c) /\ \A e \in Clients \ {c} : op'[e] = op[e]
            BY <1>1, GoEffect DEF Search, OthersStay
        <2>2. UNCHANGED <<meta, contested>> /\ dirs \subseteq Dirs
            BY <1>1 DEF Search, TypeOK
        <2>3. ClientsAgreeWithDisk'
            BY <2>1, <2>2, AgreeStep DEF AgreeInv, Bearing
        <2>4. HomesKnown'
            BY <2>1, <2>2 DEF AgreeInv, HomesKnown, HasId, Stored
        <2> QED BY <2>3, <2>4 DEF AgreeInv
    <1>2. ASSUME NEW d \in Dirs, Inspect(c, d), ~Matches(c, d) PROVE AgreeInv'
        <2>1. op[c] \in [kind : {"find"}, id : 1 .. MaxId, todo : SUBSET Dirs, home : SUBSET Dirs]
            BY <1>2, CallType DEF Inspect
        <2>2. op'[c] = [op[c] EXCEPT !.todo = @ \ {d}] /\ OthersStay(c) /\ \A e \in Clients \ {c} : op'[e] = op[e]
            BY <1>2, GoEffect DEF Inspect, OthersStay
        <2>3. op'[c].kind = "find" /\ op'[c].home = op[c].home /\ op'[c].id = op[c].id /\ op'[c].todo = op[c].todo \ {d}
            BY <2>1, <2>2
        <2>4. UNCHANGED <<meta, contested>>
            BY <1>2 DEF Inspect
        <2>5. ClientsAgreeWithDisk'
            BY <2>2, <2>3, <2>4, AgreeStep DEF AgreeInv, Bearing
        <2>6. HomesKnown'
            BY <1>2, <2>1, <2>2, <2>3, <2>4 DEF AgreeInv, HomesKnown, HasId, Stored, Matches
        <2> QED BY <2>5, <2>6 DEF AgreeInv
    <1>3. ASSUME NEW d \in Dirs, Inspect(c, d), Matches(c, d) PROVE AgreeInv'
        BY <1>3, AgreeGo DEF Inspect, Bearing
    <1> QED BY <1>1, <1>2, <1>3

LEMMA AgreeLoad ==
    ASSUME TypeOK, TypeOK', AgreeInv, NEW c \in Clients, Load(c)
    PROVE  AgreeInv'
    <1> DEFINE dir == op[c].dir
    <1>1. dir \in Dirs /\ Stored(dir) /\ op[c].kind = "load" /\ UNCHANGED <<meta, contested>>
        BY CallType DEF Load
    <1>2. op'[c] = Opened(dir, meta[dir]) /\ \A e \in Clients \ {c} : op'[e] = op[e]
        BY GoEffect DEF Load
    <1>3. op'[c].kind = "open" /\ op'[c].dir = dir /\ op'[c].mine = meta[dir]
        BY <1>2 DEF Opened
    <1> HIDE DEF dir
    <1>4. \A d \in Dirs \ contested :
              /\ \A b, e \in Clients : Holds(b, d) /\ Holds(e, d) => op[b].mine = op[e].mine
              /\ Stored(d) => \A e \in Clients : Holds(e, d) => op[e].mine = meta[d]
        BY AgreeMeans DEF AgreeInv
    <1>5. \A d : \A e \in Clients \ {c} : Holds(e, d)' => Holds(e, d) /\ op'[e] = op[e]
        BY <1>2 DEF Holds
    <1>6. \A d : Holds(c, d)' => d = dir
        BY <1>3 DEF Holds
    <1>7. \A d : Holders(d)' = {e \in Clients : Holds(e, d)'}
        BY HoldersHoldNext
    <1>8. ASSUME NEW d \in Dirs, d \notin contested
          PROVE  /\ \A b, e \in Clients : Holds(b, d)' /\ Holds(e, d)' => op'[b].mine = op'[e].mine
                 /\ Stored(d) => \A e \in Clients : Holds(e, d)' => op'[e].mine = meta[d]
        <2>1. CASE d = dir
            BY <1>1, <1>3, <1>4, <1>5, <1>8, <2>1
        <2>2. CASE d # dir
            BY <1>4, <1>5, <1>6, <1>8, <2>2
        <2> QED BY <2>1, <2>2
    <1>9. ClientsAgreeWithDisk'
        BY <1>1, <1>7, <1>8 DEF ClientsAgreeWithDisk, Stored
    <1>10. HomesKnown'
        BY <1>1, <1>2, <1>3 DEF AgreeInv, HomesKnown, HasId, Stored
    <1> QED BY <1>9, <1>10 DEF AgreeInv

LEMMA AgreeCreate ==
    ASSUME TypeOK, TypeOK', AgreeInv, NEW c \in Clients, BeginCreate(c)
    PROVE  AgreeInv'
    <1> DEFINE dir == op[c].dir
               call == [kind |-> "mkdir", dir |-> dir, mine |-> NewMetadata(c), opening |-> TRUE]
               disputed == Holders(dir) # {}
    <1>1. dir \in Dirs /\ ~Stored(dir) /\ op[c].kind = "check" /\ UNCHANGED meta
        BY CallType DEF BeginCreate, MustCreate
    <1>2. contested' = (IF disputed THEN contested \cup {dir} ELSE contested)
        BY DEF BeginCreate
    <1>3. op'[c] = call /\ OthersStay(c)
        <2>1. CASE disputed
            BY <2>1, OthersEffect DEF BeginCreate
        <2>2. CASE ~disputed
            BY <2>2 DEF BeginCreate, OthersStay, TypeOK
        <2> QED BY <2>1, <2>2
    <1>4. op'[c].kind = "mkdir" /\ op'[c].dir = dir
        BY <1>3
    <1>5. \A e \in Clients \ {c} :
             \/ op'[e] = op[e] /\ (disputed /\ op[e].kind = "find" => dir \notin op[e].home)
             \/ /\ op[e].kind = "find" /\ op'[e].kind = "find" /\ disputed
                /\ op'[e].id = op[e].id /\ op'[e].todo = op[e].todo /\ op'[e].home = op[e].home \ {dir}
        <2>1. ASSUME NEW e \in Clients \ {c}, disputed, op[e].kind = "find"
              PROVE  /\ op'[e].kind = "find"
                     /\ op'[e].id = op[e].id /\ op'[e].todo = op[e].todo /\ op'[e].home = op[e].home \ {dir}
            <3>1. op'[e] = [op[e] EXCEPT !.home = @ \ {dir}]
                BY <2>1, OverlookedType DEF BeginCreate
            <3>2. op[e] \in [kind : {"find"}, id : 1 .. MaxId, todo : SUBSET Dirs, home : SUBSET Dirs]
                BY <2>1, CallType
            <3> QED BY <3>1, <3>2
        <2>2. ASSUME NEW e \in Clients \ {c}, ~disputed \/ op[e].kind # "find"
              PROVE  op'[e] = op[e]
            BY <2>2, OverlookedType DEF BeginCreate, TypeOK
        <2> QED BY <2>1, <2>2
    <1> HIDE DEF dir, call, disputed
    <1>6. \A d \in Dirs \ contested :
              /\ \A b, e \in Clients : Holds(b, d) /\ Holds(e, d) => op[b].mine = op[e].mine
              /\ Stored(d) => \A e \in Clients : Holds(e, d) => op[e].mine = meta[d]
        BY AgreeMeans DEF AgreeInv
    <1>7. \A d : \A e \in Clients \ {c} : Holds(e, d)' => Holds(e, d) /\ op'[e] = op[e]
        BY <1>3 DEF Holds, OthersStay, Bearing
    <1>8. \A d : Holds(c, d)' => d = dir
        BY <1>4 DEF Holds
    <1>9. \A d : Holders(d)' = {e \in Clients : Holds(e, d)'}
        BY HoldersHoldNext
    <1>10. ~disputed => \A e \in Clients : ~Holds(e, dir)
        BY HoldersHold DEF disputed
    <1>11. ASSUME NEW d \in Dirs, d \notin contested'
           PROVE  /\ \A b, e \in Clients : Holds(b, d)' /\ Holds(e, d)' => op'[b].mine = op'[e].mine
                  /\ Stored(d) => \A e \in Clients : Holds(e, d)' => op'[e].mine = meta[d]
        <2>1. d \notin contested /\ (d = dir => ~disputed)
            BY <1>2, <1>11
        <2>2. CASE d = dir
            BY <1>1, <1>7, <1>10, <2>1, <2>2
        <2>3. CASE d # dir
            BY <1>6, <1>7, <1>8, <2>1, <2>3
        <2> QED BY <2>2, <2>3
    <1>12. ClientsAgreeWithDisk'
        BY <1>1, <1>9, <1>11 DEF ClientsAgreeWithDisk, Stored
    <1>13. HomesKnown'
        BY <1>1, <1>2, <1>4, <1>5 DEF AgreeInv, HomesKnown, HasId, Stored
    <1> QED BY <1>12, <1>13 DEF AgreeInv

\* The disk gets the metadata of a client that has the directory open: with all who
\* have it open agreed, that is what was there before.
LEMMA AgreeRename ==
    ASSUME TypeOK, TypeOK', AgreeInv, NEW c \in Clients, Rename(c)
    PROVE  AgreeInv'
    <1> DEFINE dir == op[c].dir
    <1>1. dir \in Dirs /\ op[c].kind = "rename" /\ op[c].kind \in Bearing /\ UNCHANGED contested
        BY CallType DEF Rename, Bearing
    <1>2. op'[c] = Opened(dir, op[c].mine) /\ OthersStay(c) /\ \A e \in Clients \ {c} : op'[e] = op[e]
        BY GoEffect DEF Rename, OthersStay
    <1>3. meta'[dir] = op[c].mine /\ \A d \in Dirs \ {dir} : meta'[d] = meta[d]
        BY <1>1 DEF Rename, TypeOK
    <1>4. Holds(c, dir)
        BY <1>1 DEF Holds
    <1>5. op'[c].kind = "open" /\ op'[c].dir = op[c].dir /\ op'[c].mine = op[c].mine
        BY <1>2 DEF Opened
    <1>6. \A d \in Dirs : meta'[d] \in {meta[d], None} \/ (Holds(c, d) /\ meta'[d] = op[c].mine)
        BY <1>3, <1>4
    <1>7. ClientsAgreeWithDisk'
        BY <1>1, <1>2, <1>5, <1>6, AgreeStep DEF AgreeInv
    <1>8. \A d \in Dirs \ contested : Stored(d) => meta'[d] = meta[d]
        BY <1>3, <1>4, AgreeMeans DEF AgreeInv
    <1>9. HomesKnown'
        BY <1>1, <1>2, <1>5, <1>8 DEF AgreeInv, HomesKnown, HasId, Stored
    <1> QED BY <1>7, <1>9 DEF AgreeInv

LEMMA AgreeDrop ==
    ASSUME TypeOK, TypeOK', AgreeInv, NEW c \in Clients, DropFiles(c)
    PROVE  AgreeInv'
    <1> DEFINE dir == op[c].dir
    <1>1. dir \in Dirs /\ op[c].kind = "open" /\ op[c].kind \in Bearing /\ op[c] \in Handles /\ UNCHANGED contested
        BY CallType DEF DropFiles, Bearing
    <1>2. op'[c] = [op[c] EXCEPT !.kind = "drop"] /\ OthersStay(c)
        BY OthersEffect DEF DropFiles
    <1>3. op'[c].kind = "drop" /\ op'[c].dir = op[c].dir /\ op'[c].mine = op[c].mine
        BY <1>1, <1>2 DEF Handles
    <1>4. meta'[dir] = None /\ \A d \in Dirs \ {dir} : meta'[d] = meta[d]
        BY <1>1 DEF DropFiles, TypeOK
    <1>5. ClientsAgreeWithDisk'
        BY <1>1, <1>2, <1>3, <1>4, AgreeStep DEF AgreeInv
    <1>6. ASSUME NEW e \in Clients, op'[e].kind = "find"
          PROVE  /\ op[e].kind = "find" /\ op'[e].id = op[e].id /\ op'[e].todo = op[e].todo
                 /\ op'[e].home = op[e].home \ {dir}
        <2>1. e # c /\ op[e].kind = "find"
            BY <1>3, <1>6 , OverlookedType DEF DropFiles
        <2>2. op'[e] = [op[e] EXCEPT !.home = @ \ {dir}]
            BY <2>1, OverlookedType DEF DropFiles
        <2>3. op[e] \in [kind : {"find"}, id : 1 .. MaxId, todo : SUBSET Dirs, home : SUBSET Dirs]
            BY <2>1, CallType
        <2> QED BY <2>1, <2>2, <2>3
    <1>7. HomesKnown'
        BY <1>1, <1>4, <1>6 DEF AgreeInv, HomesKnown, HasId, Stored
    <1> QED BY <1>5, <1>7 DEF AgreeInv

LEMMA AgreeNext ==
    ASSUME TypeOK, TypeOK', AgreeInv, NEW c \in Clients,
           Open(c) \/ Use(c) \/ Drop(c) \/ Crash(c) \/ WriteFails(c)
    PROVE  AgreeInv'
    <1>1. CASE Open(c)
        <2>1. ASSUME NEW ask \in Asks, RejectArgs(c, ask) \/ OpenNamed(c, ask) PROVE AgreeInv'
            BY <2>1, AgreeGo DEF RejectArgs, OpenNamed, Closed, Bearing
        <2>2. CASE NotFound(c) \/ MetadataExists(c) \/ LoadVanished(c)
            BY <2>2, AgreeGo DEF NotFound, MetadataExists, LoadVanished, Closed, Bearing
        <2> QED BY <1>1, <2>1, <2>2, AgreeSearch, AgreeLoad, AgreeCreate DEF Open
    <1>2. CASE WriteBack(c)
        <2> DEFINE call == [kind |-> "mkdir", dir |-> op[c].dir, mine |-> op[c].mine, opening |-> FALSE]
        <2>1. Go(c, call) /\ op[c].kind \in Bearing /\ UNCHANGED <<meta, contested>>
            BY <1>2 DEF WriteBack, Bearing
        <2>2. call.kind # "find" /\ call.dir = op[c].dir /\ call.mine = op[c].mine
            OBVIOUS
        <2> HIDE DEF call
        <2> QED BY <2>1, <2>2, AgreeGo
    <1>3. CASE CreateDir(c) \/ WriteTemp(c) \/ DropDir(c)
        <2>1. op[c] \in Writes \cup Handles /\ op[c].kind \in Bearing
            BY <1>3, CallType DEF CreateDir, WriteTemp, DropDir, Bearing
        <2>2. PICK kind \in {"temp", "rename", "open"} : Go(c, [op[c] EXCEPT !.kind = kind])
            BY <1>3 DEF CreateDir, WriteTemp, DropDir
        <2>3. [op[c] EXCEPT !.kind = kind].kind = kind /\ [op[c] EXCEPT !.kind = kind].dir = op[c].dir
              /\ [op[c] EXCEPT !.kind = kind].mine = op[c].mine
            BY <2>1 DEF Writes, Handles
        <2>4. UNCHANGED <<meta, contested>>
            BY <1>3 DEF CreateDir, WriteTemp, DropDir
        <2> QED BY <2>1, <2>2, <2>3, <2>4, AgreeGo
    <1>4. CASE WriteLost(c) \/ WriteFails(c)
        <2>1. op[c].kind \in Bearing /\ Fail(c) /\ UNCHANGED meta
            BY <1>4 DEF WriteLost, WriteFails, Bearing
        <2> QED BY <2>1, AgreeFail
    <1>5. CASE Crash(c)
        BY <1>5, AgreeLeave DEF Crash
    <1> QED BY <1>1, <1>2, <1>3, <1>4, <1>5, AgreeRename, AgreeDrop DEF Use, Drop

LEMMA AgreeInductive == Spec => []AgreeInv
    <1>1. Init => AgreeInv
        BY DEF Init, AgreeInv, ClientsAgreeWithDisk, HomesKnown, Holders, Closed, Stored
    <1>2. TypeOK /\ TypeOK' /\ AgreeInv /\ [Next]_vars => AgreeInv'
        <2> SUFFICES ASSUME TypeOK, TypeOK', AgreeInv, [Next]_vars PROVE AgreeInv'
            OBVIOUS
        <2>1. CASE UNCHANGED vars
            BY <2>1 DEF vars, AgreeInv, ClientsAgreeWithDisk, HomesKnown, Holders, HasId, Stored
        <2>2. ASSUME NEW c \in Clients, Open(c) \/ Use(c) \/ Drop(c) \/ Crash(c) \/ WriteFails(c) PROVE AgreeInv'
            BY <2>2, AgreeNext
        <2> QED BY <2>1, <2>2 DEF Next
    <1> QED BY <1>1, <1>2, TypeCorrect, PTL DEF Spec

\* Clients of one directory have the identity that is on disk, unless the directory was
\* created while another of them had it open: nothing else, no crash, drop or failed
\* write, ever makes them differ.
THEOREM ClientsStayAgreed == Spec => []ClientsAgreeWithDisk
    <1>1. AgreeInv => ClientsAgreeWithDisk
        BY DEF AgreeInv
    <1> QED BY <1>1, AgreeInductive, PTL

\* A search by id that ends with NotFound missed no storage that was there from its
\* beginning, however often its metadata was written again meanwhile.
THEOREM SearchesMissNothing == Spec => []SearchMissesNothing
    <1>1. AgreeInv => SearchMissesNothing
        BY DEF AgreeInv, HomesKnown, SearchMissesNothing
    <1> QED BY <1>1, AgreeInductive, PTL

-------------------------------------------------------------------------------
(* Orders: the elements of a finite set, one after the other *)

\* R orders T, and no element is before itself.
Orders(R, T) ==
    /\ \A a \in T : <<a, a>> \notin R
    /\ \A a, b \in T : a # b => <<a, b>> \in R \/ <<b, a>> \in R
    /\ \A a, b, c \in T : <<a, b>> \in R /\ <<b, c>> \in R => <<a, c>> \in R

Below(R, T, a) == {b \in T : <<b, a>> \in R}

LEMMA BelowGrows ==
    ASSUME NEW T, IsFiniteSet(T), NEW R, Orders(R, T), NEW a \in T, NEW b \in T, <<a, b>> \in R
    PROVE  Cardinality(Below(R, T, a)) < Cardinality(Below(R, T, b))
    <1>1. Below(R, T, a) \in SUBSET Below(R, T, b) /\ Below(R, T, b) \in SUBSET T
        BY DEF Below, Orders
    <1>2. a \in Below(R, T, b) /\ a \notin Below(R, T, a)
        BY DEF Below, Orders
    <1>3. IsFiniteSet(Below(R, T, b))
        BY <1>1, FS_Subset
    <1>4. Cardinality(Below(R, T, a)) <= Cardinality(Below(R, T, b)) /\ IsFiniteSet(Below(R, T, a))
        BY <1>1, <1>3, FS_Subset
    <1>5. Cardinality(Below(R, T, a)) # Cardinality(Below(R, T, b))
        BY <1>1, <1>2, <1>3, FS_Subset
    <1> QED BY <1>3, <1>4, <1>5, FS_CardinalityType

\* Every position has an element, since the elements have different ones and none is
\* beyond their number.
LEMMA EveryPosition ==
    ASSUME NEW T, IsFiniteSet(T), NEW R, Orders(R, T), NEW n \in 1 .. Cardinality(T)
    PROVE  \E a \in T : Cardinality(Below(R, T, a)) = n - 1
    <1> DEFINE N == Cardinality(T)
               f == [a \in T |-> Cardinality(Below(R, T, a)) + 1]
    <1>1. N \in Nat
        BY FS_CardinalityType
    <1>2. IsFiniteSet(1 .. N) /\ Cardinality(1 .. N) = N
        BY <1>1, FS_Interval
    <1>3. \A a \in T : Cardinality(Below(R, T, a)) \in 0 .. N - 1
        <2> SUFFICES ASSUME NEW a \in T PROVE Cardinality(Below(R, T, a)) \in 0 .. N - 1
            OBVIOUS
        <2>1. Below(R, T, a) \in SUBSET T /\ a \notin Below(R, T, a)
            BY DEF Below, Orders
        <2>2. /\ IsFiniteSet(Below(R, T, a))
              /\ Cardinality(Below(R, T, a)) <= Cardinality(T)
              /\ Cardinality(T) # Cardinality(Below(R, T, a))
            BY <2>1, FS_Subset
        <2> QED BY <1>1, <2>2, FS_CardinalityType
    <1>4. f \in [T -> 1 .. N]
        BY <1>1, <1>3
    <1>5. \A a, b \in T : f[a] = f[b] => a = b
        <2> SUFFICES ASSUME NEW a \in T, NEW b \in T, a # b
                     PROVE  Cardinality(Below(R, T, a)) + 1 # Cardinality(Below(R, T, b)) + 1
            OBVIOUS
        <2>1. <<a, b>> \in R \/ <<b, a>> \in R
            BY DEF Orders
        <2>2. \/ Cardinality(Below(R, T, a)) < Cardinality(Below(R, T, b))
              \/ Cardinality(Below(R, T, b)) < Cardinality(Below(R, T, a))
            BY <2>1, BelowGrows
        <2>3. Cardinality(Below(R, T, a)) \in Int /\ Cardinality(Below(R, T, b)) \in Int
            BY <1>1, <1>3
        <2> QED BY <2>2, <2>3
    <1> HIDE DEF f
    <1>6. f \in Injection(T, 1 .. N)
        BY <1>4, <1>5 DEF Injection, IsInjective
    <1>7. f \in Surjection(T, 1 .. N)
        <2> HIDE DEF N
        <2>1. Cardinality(T) = Cardinality(1 .. N)
            BY <1>2 DEF N
        <2> QED BY <1>2, <1>6, <2>1, FS_Injection
    <1>8. PICK a \in T : f[a] = n
        BY <1>7 DEF Surjection
    <1>9. Cardinality(Below(R, T, a)) + 1 = n /\ Cardinality(Below(R, T, a)) \in Int
        BY <1>1, <1>3, <1>8 DEF f
    <1> QED BY <1>9

-------------------------------------------------------------------------------
(* Loops: what every turn keeps, and that a function which is defined by *)
(* recursion over the turns satisfies its equation                       *)

LEMMA LeastNumber ==
    ASSUME NEW N \in Nat, NEW T \in SUBSET (0 .. N), T # {}
    PROVE  \E x \in T : \A y \in T : x <= y
    <1> DEFINE R == {p \in T \X T : p[1] < p[2]}
    <1>1. IsFiniteSet(0 .. N)
        BY FS_Interval
    <1>2. IsFiniteSet(T)
        BY <1>1, FS_Subset
    <1>3. Cardinality(T) \in Nat /\ Cardinality(T) # 0
        BY <1>2, FS_CardinalityType, FS_EmptySet
    <1>4. \A a, b \in T : <<a, b>> \in R <=> a < b
        OBVIOUS
    <1>5. Orders(R, T)
        <2> HIDE DEF R
        <2> QED BY <1>4 DEF Orders
    <1>6. 1 \in 1 .. Cardinality(T) /\ 1 - 1 = 0
        BY <1>3
    <1>7. PICK x \in T : Cardinality(Below(R, T, x)) = 1 - 1
        <2> HIDE DEF R
        <2> QED BY <1>2, <1>5, <1>6, EveryPosition
    <1>8. Below(R, T, x) \in SUBSET T
        BY DEF Below
    <1>9. Below(R, T, x) = {}
        <2> HIDE DEF R
        <2>1. IsFiniteSet(Below(R, T, x))
            BY <1>2, <1>8, FS_Subset
        <2> QED BY <1>6, <1>7, <2>1, FS_EmptySet
    <1>10. ASSUME NEW y \in T PROVE x <= y
        <2>1. y \notin Below(R, T, x)
            BY <1>9
        <2>2. ~(y < x)
            BY <1>4, <2>1 DEF Below
        <2> QED BY <2>2
    <1> QED BY <1>10

\* What holds before a loop and is kept by every turn of it holds after each turn.
LEMMA LoopKeeps ==
    ASSUME NEW N \in Nat, NEW f, NEW S, f[0] \in S,
           \A i \in 1 .. N : f[i - 1] \in S => f[i] \in S
    PROVE  \A i \in 0 .. N : f[i] \in S
    <1> SUFFICES ASSUME NEW k \in 0 .. N, f[k] \notin S PROVE FALSE
        OBVIOUS
    <1> DEFINE T == {i \in 0 .. N : f[i] \notin S}
    <1>1. T \in SUBSET (0 .. N) /\ T # {}
        OBVIOUS
    <1>2. PICK x \in T : \A y \in T : x <= y
        BY <1>1, LeastNumber
    <1>3. x # 0 /\ x \in 1 .. N /\ x - 1 \in 0 .. N /\ ~(x <= x - 1)
        BY <1>2
    <1>4. f[x - 1] \in S
        BY <1>2, <1>3
    <1> QED BY <1>2, <1>3, <1>4

\* The runs of a loop from a, each turn a step.
Runs(N, S, a, step) == {f \in [0 .. N -> S] : f[0] = a /\ \A i \in 1 .. N : f[i] = step[i][f[i - 1]]}

LEMMA LoopExists ==
    ASSUME NEW N \in Nat, NEW S, NEW a \in S, NEW step \in [1 .. N -> [S -> S]]
    PROVE  Runs(N, S, a, step) # {}
    <1> DEFINE Turns(n, f) == /\ f \in [0 .. n -> S]
                              /\ f[0] = a
                              /\ \A i \in 1 .. n : f[i] = step[i][f[i - 1]]
               T == {n \in 0 .. N : ~\E f : Turns(n, f)}
    <1>1. T = {}
        <2> SUFFICES ASSUME T # {} PROVE FALSE
            OBVIOUS
        <2>1. PICK x \in T : \A y \in T : x <= y
            <3>1. T \in SUBSET (0 .. N)
                OBVIOUS
            <3> HIDE DEF T
            <3> QED BY <3>1, LeastNumber
        <2>2. Turns(0, [i \in 0 .. 0 |-> a])
            OBVIOUS
        <2>3. x # 0 /\ x \in 1 .. N /\ x - 1 \in 0 .. N /\ ~(x <= x - 1)
            <3>1. x # 0
                <4> HIDE DEF Turns
                <4> QED BY <2>1, <2>2
            <3> QED BY <2>1, <3>1
        <2>4. PICK f : Turns(x - 1, f)
            <3> HIDE DEF Turns
            <3> QED BY <2>1, <2>3
        <2> DEFINE g == [i \in 0 .. x |-> IF i = x THEN step[x][f[x - 1]] ELSE f[i]]
        <2>5. f[x - 1] \in S
            BY <2>3, <2>4
        <2>6. step[x][f[x - 1]] \in S
            BY <2>3, <2>5
        <2>7. g \in [0 .. x -> S]
            BY <2>3, <2>4, <2>6
        <2>8. g[0] = a
            BY <2>3, <2>4
        <2>9. ASSUME NEW i \in 1 .. x PROVE g[i] = step[i][g[i - 1]]
            <3>1. i - 1 \in 0 .. x - 1 /\ i - 1 # x /\ i \in 0 .. x /\ i - 1 \in 0 .. x
                BY <2>3
            <3>2. g[i - 1] = f[i - 1]
                BY <3>1
            <3>3. CASE i = x
                BY <3>1, <3>2, <3>3
            <3>4. CASE i # x
                <4>1. i \in 1 .. x - 1 /\ g[i] = f[i]
                    BY <2>3, <3>1, <3>4
                <4> QED BY <2>4, <3>2, <4>1
            <3> QED BY <3>3, <3>4
        <2>10. Turns(x, g)
            <3> HIDE DEF g
            <3> QED BY <2>7, <2>8, <2>9
        <2> HIDE DEF Turns
        <2> QED BY <2>1, <2>10
    <1>2. PICK f : Turns(N, f)
        <2>1. N \in 0 .. N
            OBVIOUS
        <2> HIDE DEF Turns
        <2> QED BY <1>1, <2>1
    <1> QED BY <1>2 DEF Runs
-------------------------------------------------------------------------------
(* Brackets: the components of a path that its steps up leave *)

\* A root comes first or not at all.
Rooted(path) == path \in Seq(STRING) /\ \A i \in DOMAIN path : path[i] = "/" => i = 1

LEMMA BalanceType ==
    ASSUME NEW path, NEW i \in Int, NEW j \in Int
    PROVE  Balance(path, i, j) \in Int
    <1>1. IsFiniteSet(i .. j)
        BY FS_Interval
    <1>2. /\ {k \in i .. j : IsNormal(path[k])} \in SUBSET (i .. j)
          /\ {k \in i .. j : path[k] = ".."} \in SUBSET (i .. j)
        OBVIOUS
    <1>3. /\ Cardinality({k \in i .. j : IsNormal(path[k])}) \in Nat
          /\ Cardinality({k \in i .. j : path[k] = ".."}) \in Nat
        BY <1>1, <1>2, FS_Subset, FS_CardinalityType
    <1> QED BY <1>3 DEF Balance

Number(T, i, j) == Cardinality(T \cap (i .. j))

LEMMA NumberType ==
    ASSUME NEW T, NEW i \in Int, NEW j \in Int
    PROVE  Number(T, i, j) \in Nat
    <1>1. IsFiniteSet(i .. j) /\ T \cap (i .. j) \in SUBSET (i .. j)
        BY FS_Interval
    <1> QED BY <1>1, FS_Subset, FS_CardinalityType DEF Number

\* What lies between i and l is what lies before and what lies after j.
LEMMA NumberSplit ==
    ASSUME NEW T, NEW i \in Int, NEW j \in Int, NEW l \in Int, i - 1 <= j, j <= l
    PROVE  Number(T, i, l) = Number(T, i, j) + Number(T, j + 1, l)
    <1> DEFINE A == T \cap (i .. j)
               B == T \cap ((j + 1) .. l)
    <1>1. IsFiniteSet(i .. j) /\ IsFiniteSet((j + 1) .. l)
        BY FS_Interval
    <1>2. A \in SUBSET (i .. j) /\ B \in SUBSET ((j + 1) .. l)
        OBVIOUS
    <1>3. A \cap B = {} /\ A \cup B = T \cap (i .. l)
        OBVIOUS
    <1> HIDE DEF A, B
    <1>4. IsFiniteSet(A) /\ IsFiniteSet(B)
        BY <1>1, <1>2, FS_Subset
    <1>5. Cardinality(A \cup B) = Cardinality(A) + Cardinality(B) - Cardinality(A \cap B)
        BY <1>4, FS_Union
    <1>6. Cardinality(A) \in Nat /\ Cardinality(B) \in Nat
        BY <1>4, FS_CardinalityType
    <1>7. Cardinality(A \cap B) = 0
        BY <1>3, FS_EmptySet, Zenon
    <1>8. Cardinality(A \cup B) = Cardinality(A) + Cardinality(B)
        BY <1>5, <1>6, <1>7
    <1>9. Cardinality(A \cup B) = Number(T, i, l)
        BY <1>3, Zenon DEF Number
    <1>10. Cardinality(A) = Number(T, i, j) /\ Cardinality(B) = Number(T, j + 1, l)
        BY Zenon DEF Number, A, B
    <1> QED BY <1>8, <1>9, <1>10

LEMMA BalanceSplit ==
    ASSUME NEW path, NEW i \in Int, NEW j \in Int, NEW l \in Int, i - 1 <= j, j <= l
    PROVE  Balance(path, i, l) = Balance(path, i, j) + Balance(path, j + 1, l)
    <1> DEFINE N == {k \in i .. l : IsNormal(path[k])}
               U == {k \in i .. l : path[k] = ".."}
    <1>1. /\ N \cap (i .. l) = {k \in i .. l : IsNormal(path[k])}
          /\ N \cap (i .. j) = {k \in i .. j : IsNormal(path[k])}
          /\ N \cap ((j + 1) .. l) = {k \in (j + 1) .. l : IsNormal(path[k])}
        OBVIOUS
    <1>2. /\ U \cap (i .. l) = {k \in i .. l : path[k] = ".."}
          /\ U \cap (i .. j) = {k \in i .. j : path[k] = ".."}
          /\ U \cap ((j + 1) .. l) = {k \in (j + 1) .. l : path[k] = ".."}
        OBVIOUS
    <1> HIDE DEF N, U
    <1>3. Number(N, i, l) = Number(N, i, j) + Number(N, j + 1, l)
        BY NumberSplit
    <1>4. Number(U, i, l) = Number(U, i, j) + Number(U, j + 1, l)
        BY NumberSplit
    <1>5. /\ Balance(path, i, l) = Number(N, i, l) - Number(U, i, l)
          /\ Balance(path, i, j) = Number(N, i, j) - Number(U, i, j)
          /\ Balance(path, j + 1, l) = Number(N, j + 1, l) - Number(U, j + 1, l)
        BY <1>1, <1>2, Zenon DEF Balance, Number
    <1>6. /\ Number(N, i, j) \in Nat /\ Number(N, j + 1, l) \in Nat
          /\ Number(U, i, j) \in Nat /\ Number(U, j + 1, l) \in Nat
        BY NumberType
    <1> QED BY <1>3, <1>4, <1>5, <1>6

LEMMA BalanceOne ==
    ASSUME NEW path, NEW i \in Int
    PROVE  /\ IsNormal(path[i]) => Balance(path, i, i) = 1
           /\ path[i] = ".." => Balance(path, i, i) = -1
           /\ ~IsNormal(path[i]) /\ path[i] # ".." => Balance(path, i, i) = 0
    <1>1. Cardinality({i}) = 1 /\ Cardinality({}) = 0
        BY FS_Singleton, FS_EmptySet
    <1>2. CASE IsNormal(path[i])
        <2>1. path[i] # ".."
            BY <1>2 DEF IsNormal
        <2>2. {k \in i .. i : IsNormal(path[k])} = {i} /\ {k \in i .. i : path[k] = ".."} = {}
            BY <1>2, <2>1
        <2> QED BY <1>1, <1>2, <2>1, <2>2 DEF Balance
    <1>3. CASE path[i] = ".."
        <2>1. ~IsNormal(path[i])
            BY <1>3 DEF IsNormal
        <2>2. {k \in i .. i : IsNormal(path[k])} = {} /\ {k \in i .. i : path[k] = ".."} = {i}
            BY <1>3, <2>1
        <2> QED BY <1>1, <1>3, <2>1, <2>2 DEF Balance
    <1>4. CASE ~IsNormal(path[i]) /\ path[i] # ".."
        <2>1. {k \in i .. i : IsNormal(path[k])} = {} /\ {k \in i .. i : path[k] = ".."} = {}
            BY <1>4
        <2> QED BY <1>1, <1>4, <2>1 DEF Balance
    <1> QED BY <1>2, <1>3, <1>4

\* The last bracket that the first n components leave open is a name, and nothing
\* closes it.
LEMMA LastOpen ==
    ASSUME NEW path, NEW n \in Nat, NEW h \in 1 .. n, Balance(path, h, n) > 0
    PROVE  \E m \in 1 .. n : /\ IsNormal(path[m])
                             /\ Balance(path, m, n) = 1
                             /\ \A j \in m .. n : Balance(path, m, j) > 0
                             /\ \A k \in (m + 1) .. n : ~(Balance(path, k, n) > 0)
    <1> DEFINE T == {x \in 0 .. n : x # n /\ Balance(path, n - x, n) > 0}
    <1>1. n - h \in T
        <2>1. n - (n - h) = h /\ n - h \in 0 .. n /\ n - h # n
            OBVIOUS
        <2> QED BY <2>1
    <1>2. PICK x \in T : \A y \in T : x <= y
        <2>1. T \in SUBSET (0 .. n) /\ T # {}
            BY <1>1
        <2> HIDE DEF T
        <2> QED BY <2>1, LeastNumber
    <1> DEFINE m == n - x
    <1>3. m \in 1 .. n /\ Balance(path, m, n) > 0
        BY <1>2
    <1>4. ASSUME NEW k \in (m + 1) .. n PROVE ~(Balance(path, k, n) > 0)
        <2>1. n - (n - k) = k /\ n - k \in 0 .. n /\ n - k # n /\ ~(x <= n - k)
            BY <1>2, <1>3
        <2>2. n - k \notin T
            BY <1>2, <2>1
        <2> QED BY <2>1, <2>2
    <1> HIDE DEF m
    <1>5. ASSUME NEW j \in m .. n PROVE Balance(path, m, j) > 0 /\ (j = m => Balance(path, m, n) <= Balance(path, m, m))
        <2>1. Balance(path, m, n) = Balance(path, m, j) + Balance(path, j + 1, n)
            BY <1>3, BalanceSplit
        <2>2. Balance(path, m, n) \in Int /\ Balance(path, m, j) \in Int /\ Balance(path, j + 1, n) \in Int
            BY <1>3, BalanceType
        <2>3. Balance(path, j + 1, n) <= 0
            <3>1. CASE j = n
                <4>1. n + 1 .. n = {}
                    OBVIOUS
                <4>2. /\ {k \in (n + 1) .. n : IsNormal(path[k])} = {}
                      /\ {k \in (n + 1) .. n : path[k] = ".."} = {}
                    BY <4>1
                <4>3. Balance(path, n + 1, n) = 0
                    <5>1. Cardinality({}) = 0
                        BY FS_EmptySet
                    <5>2. Balance(path, n + 1, n) = Cardinality({}) - Cardinality({})
                        BY <4>2, Zenon DEF Balance
                    <5> QED BY <5>1, <5>2
                <4> QED BY <3>1, <4>3
            <3>2. CASE j # n
                <4>1. j + 1 \in (m + 1) .. n
                    BY <1>3, <3>2
                <4> QED BY <1>4, <2>2, <4>1
            <3> QED BY <3>1, <3>2
        <2> QED BY <1>3, <2>1, <2>2, <2>3
    <1>6. Balance(path, m, m) > 0 /\ Balance(path, m, n) <= Balance(path, m, m)
        <2>1. m \in m .. n
            BY <1>3
        <2> QED BY <1>5, <2>1
    <1>7. IsNormal(path[m]) /\ Balance(path, m, m) = 1
        BY <1>3, <1>6, BalanceOne
    <1>8. Balance(path, m, n) = 1
        BY <1>3, <1>6, <1>7, BalanceType
    <1> QED BY <1>3, <1>4, <1>5, <1>7, <1>8

LEMMA KeptNext ==
    ASSUME NEW path, NEW n \in Nat, NEW i \in 1 .. n
    PROVE  i \in Kept(path, n + 1) <=> i \in Kept(path, n) /\ (IsNormal(path[i]) => Balance(path, i, n + 1) > 0)
    <1>1. i .. (n + 1) = (i .. n) \cup {n + 1} /\ i \in 1 .. (n + 1)
        OBVIOUS
    <1>2. IsNormal(path[i]) => path[i] # "/" /\ path[i] # ".."
        BY DEF IsNormal
    <1>3. (\A j \in i .. (n + 1) : Balance(path, i, j) > 0)
          <=> (\A j \in i .. n : Balance(path, i, j) > 0) /\ Balance(path, i, n + 1) > 0
        BY <1>1
    <1> QED BY <1>1, <1>2, <1>3 DEF Kept

\* What is kept and names something is an open bracket.
LEMMA KeptNames ==
    ASSUME NEW path, NEW n \in Nat, NEW i \in Kept(path, n), IsNormal(path[i])
    PROVE  i \in 1 .. n /\ \A j \in i .. n : Balance(path, i, j) > 0
    BY DEF Kept, IsNormal

LEMMA KeptPlain ==
    ASSUME NEW path, NEW n \in Nat, path[n + 1] # ".."
    PROVE  Kept(path, n + 1) = IF path[n + 1] = "." THEN Kept(path, n) ELSE Kept(path, n) \cup {n + 1}
    <1>1. Kept(path, n) \in SUBSET (1 .. n) /\ Kept(path, n + 1) \in SUBSET (1 .. (n + 1))
        BY DEF Kept
    <1>2. ASSUME NEW i \in 1 .. n PROVE i \in Kept(path, n + 1) <=> i \in Kept(path, n)
        <2>1. ASSUME i \in Kept(path, n), IsNormal(path[i]) PROVE Balance(path, i, n + 1) > 0
            <3>1. Balance(path, i, n) > 0
                <4>1. n \in i .. n
                    OBVIOUS
                <4> QED BY <2>1, <4>1, KeptNames
            <3>2. Balance(path, i, n + 1) = Balance(path, i, n) + Balance(path, n + 1, n + 1)
                BY BalanceSplit
            <3>3. Balance(path, n + 1, n + 1) \in {0, 1}
                BY BalanceOne
            <3> QED BY <3>1, <3>2, <3>3, BalanceType
        <2> QED BY <2>1, KeptNext
    <1>3. n + 1 \in Kept(path, n + 1) <=> path[n + 1] # "."
        <2>1. (n + 1) .. (n + 1) = {n + 1} /\ n + 1 \in 1 .. (n + 1)
            OBVIOUS
        <2>2. IsNormal(path[n + 1]) => Balance(path, n + 1, n + 1) > 0
            BY BalanceOne
        <2>3. IsNormal(path[n + 1]) <=> path[n + 1] # "/" /\ path[n + 1] # "."
            BY DEF IsNormal
        <2> QED BY <2>1, <2>2, <2>3 DEF Kept
    <1>4. \A i \in 1 .. (n + 1) : i \in 1 .. n \/ i = n + 1
        OBVIOUS
    <1>5. n + 1 \notin 1 .. n
        OBVIOUS
    <1>6. CASE path[n + 1] = "."
        <2>1. n + 1 \notin Kept(path, n + 1)
            BY <1>3, <1>6
        <2>2. Kept(path, n + 1) = Kept(path, n)
            BY <1>1, <1>2, <1>4, <2>1
        <2> QED BY <1>6, <2>2
    <1>7. CASE path[n + 1] # "."
        <2>1. n + 1 \in Kept(path, n + 1)
            BY <1>3, <1>7
        <2>2. Kept(path, n + 1) = Kept(path, n) \cup {n + 1}
            BY <1>1, <1>2, <1>4, <2>1
        <2> QED BY <1>7, <2>2
    <1> QED BY <1>6, <1>7

\* A step up closes the last name that is open, which is the last component there is,
\* or there is no name left.
LEMMA KeptUp ==
    ASSUME NEW path, NEW n \in Nat, Rooted(path), n + 1 \in DOMAIN path, path[n + 1] = ".."
    PROVE  \/ /\ \A i \in Kept(path, n) : ~IsNormal(path[i])
              /\ Kept(path, n + 1) = Kept(path, n) \cup {n + 1}
           \/ \E m \in Kept(path, n) : /\ IsNormal(path[m])
                                       /\ \A i \in Kept(path, n) : i <= m
                                       /\ Kept(path, n + 1) = Kept(path, n) \ {m}
    <1>1. Kept(path, n) \in SUBSET (1 .. n) /\ Kept(path, n + 1) \in SUBSET (1 .. (n + 1))
        BY DEF Kept
    <1>2. \A i \in 1 .. (n + 1) : i \in 1 .. n \/ i = n + 1
        OBVIOUS
    <1>3. n + 1 \notin 1 .. n /\ n + 1 \in 1 .. (n + 1) /\ ~IsNormal(path[n + 1]) /\ path[n + 1] # "/"
        BY DEF IsNormal
    <1>4. \A i \in 1 .. n : Balance(path, i, n + 1) = Balance(path, i, n) - 1 /\ Balance(path, i, n) \in Int
        <2> SUFFICES ASSUME NEW i \in 1 .. n
                     PROVE  Balance(path, i, n + 1) = Balance(path, i, n) - 1 /\ Balance(path, i, n) \in Int
            OBVIOUS
        <2>1. Balance(path, i, n + 1) = Balance(path, i, n) + Balance(path, n + 1, n + 1)
            BY BalanceSplit
        <2> QED BY <2>1, BalanceType, BalanceOne
    <1>5. Balance(path, n + 1, n + 1) = -1
        BY BalanceOne
    <1>6. \A i \in Kept(path, n) : IsNormal(path[i]) => Balance(path, i, n) > 0
        <2> SUFFICES ASSUME NEW i \in Kept(path, n), IsNormal(path[i]) PROVE Balance(path, i, n) > 0
            OBVIOUS
        <2>1. n \in i .. n
            BY <1>1
        <2> QED BY <2>1, KeptNames
    <1>7. CASE \A h \in 1 .. n : ~(Balance(path, h, n) > 0)
        <2>1. \A i \in Kept(path, n) : ~IsNormal(path[i])
            BY <1>1, <1>6, <1>7
        <2>2. \A i \in 1 .. n : i \in Kept(path, n + 1) <=> i \in Kept(path, n)
            BY <2>1, KeptNext
        <2>3. \A h \in 1 .. (n + 1) : Balance(path, h, n + 1) < 0
            BY <1>2, <1>4, <1>5, <1>7
        <2>4. n + 1 \in Kept(path, n + 1)
            BY <1>3, <2>3 DEF Kept
        <2> QED BY <1>1, <1>2, <1>3, <2>1, <2>2, <2>4
    <1>8. ASSUME NEW h \in 1 .. n, Balance(path, h, n) > 0
          PROVE  \E m \in Kept(path, n) : /\ IsNormal(path[m])
                                          /\ \A i \in Kept(path, n) : i <= m
                                          /\ Kept(path, n + 1) = Kept(path, n) \ {m}
        <2>1. PICK m \in 1 .. n : /\ IsNormal(path[m])
                                  /\ Balance(path, m, n) = 1
                                  /\ \A j \in m .. n : Balance(path, m, j) > 0
                                  /\ \A k \in (m + 1) .. n : ~(Balance(path, k, n) > 0)
            BY <1>8, LastOpen
        <2>2. m \in Kept(path, n)
            BY <2>1 DEF Kept
        <2>3. ASSUME NEW i \in Kept(path, n), i > m PROVE FALSE
            <3>1. i \in (m + 1) .. n /\ i \in m .. n /\ m \in 1 .. i /\ i \in DOMAIN path /\ i # 1
                BY <1>1, <2>3 DEF Rooted
            <3>2. ~IsNormal(path[i])
                BY <1>6, <2>1, <3>1
            <3>3. path[i] # "/"
                BY <3>1 DEF Rooted
            <3>4. Balance(path, m, i) < 0
                BY <3>1, <3>2, <3>3 DEF Kept
            <3>5. Balance(path, m, i) > 0 /\ Balance(path, m, i) \in Int
                BY <1>1, <2>1, <3>1, BalanceType
            <3> QED BY <3>4, <3>5
        <2>4. \A i \in Kept(path, n) : i <= m
            BY <1>1, <2>3
        <2>5. m \notin Kept(path, n + 1)
            <3>1. Balance(path, m, n + 1) = 0
                BY <1>4, <2>1
            <3>2. m \in Kept(path, n + 1) => Balance(path, m, n + 1) > 0
                BY <2>1, KeptNext
            <3> QED BY <3>1, <3>2
        <2>6. n + 1 \notin Kept(path, n + 1)
            <3>1. m \in 1 .. (n + 1) /\ Balance(path, m, n + 1) = 0
                BY <1>4, <2>1
            <3> QED BY <1>3, <3>1 DEF Kept
        <2>7. ASSUME NEW i \in Kept(path, n), i # m PROVE i \in Kept(path, n + 1)
            <3>1. i \in 1 .. n /\ i < m /\ m - 1 \in Int /\ m - 1 \in i .. n
                BY <1>1, <2>4, <2>7
            <3>2. ASSUME IsNormal(path[i]) PROVE Balance(path, i, n + 1) > 0
                <4>1. Balance(path, i, n) = Balance(path, i, m - 1) + Balance(path, m, n)
                    <5>1. Balance(path, i, n) = Balance(path, i, m - 1) + Balance(path, (m - 1) + 1, n)
                        BY <3>1, BalanceSplit
                    <5>2. (m - 1) + 1 = m
                        OBVIOUS
                    <5> QED BY <5>1, <5>2
                <4>2. Balance(path, i, m - 1) > 0 /\ Balance(path, i, m - 1) \in Int
                    BY <3>1, <3>2, KeptNames, BalanceType
                <4> QED BY <1>4, <2>1, <3>1, <4>1, <4>2
            <3> QED BY <3>1, <3>2, KeptNext
        <2>8. Kept(path, n + 1) = Kept(path, n) \ {m}
            <3>1. \A i \in Kept(path, n + 1) : i \in Kept(path, n) /\ i # m
                BY <1>1, <1>2, <2>5, <2>6, KeptNext
            <3> QED BY <2>7, <3>1
        <2> QED BY <2>1, <2>2, <2>4, <2>8
    <1> QED BY <1>7, <1>8

-------------------------------------------------------------------------------
(* Normalizing a path, one component after the other *)

\* out holds the components of path at the places K, in their order.
Spells(out, path, K) ==
    /\ Len(out) = Cardinality(K)
    /\ \A i \in K : out[Cardinality({j \in K : j < i}) + 1] = path[i]

Places(K, n) == K \in SUBSET (1 .. n)

LEMMA PlacesCount ==
    ASSUME NEW n \in Nat, NEW K, Places(K, n), NEW i \in K
    PROVE  /\ IsFiniteSet(K) /\ Cardinality(K) \in Nat
           /\ Cardinality({j \in K : j < i}) + 1 \in 1 .. Cardinality(K)
    <1>1. IsFiniteSet(K) /\ Cardinality(K) \in Nat
        <2>1. IsFiniteSet(1 .. n)
            BY FS_Interval
        <2> QED BY <2>1, FS_Subset, FS_CardinalityType DEF Places
    <1> DEFINE B == {j \in K : j < i}
    <1>2. B \in SUBSET K /\ B # K
        BY DEF Places
    <1> HIDE DEF B
    <1>3. IsFiniteSet(B) /\ Cardinality(B) <= Cardinality(K) /\ Cardinality(B) # Cardinality(K)
        BY <1>1, <1>2, FS_Subset
    <1>4. Cardinality(B) \in Nat
        BY <1>3, FS_CardinalityType
    <1>5. Cardinality(B) + 1 \in 1 .. Cardinality(K)
        BY <1>1, <1>3, <1>4
    <1> QED BY <1>1, <1>5 DEF B

\* Every position of out has its place.
LEMMA PlaceOf ==
    ASSUME NEW n \in Nat, NEW K, Places(K, n), NEW r \in 1 .. Cardinality(K)
    PROVE  \E i \in K : Cardinality({j \in K : j < i}) = r - 1
    <1> DEFINE R == {p \in K \X K : p[1] < p[2]}
    <1>1. IsFiniteSet(K)
        <2>1. IsFiniteSet(1 .. n)
            BY FS_Interval
        <2> QED BY <2>1, FS_Subset DEF Places
    <1>2. \A a, b \in K : <<a, b>> \in R <=> a < b
        OBVIOUS
    <1>3. \A a \in K : a \in Int
        BY DEF Places
    <1> HIDE DEF R
    <1>4. Orders(R, K)
        BY <1>2, <1>3 DEF Orders
    <1>5. PICK i \in K : Cardinality(Below(R, K, i)) = r - 1
        BY <1>1, <1>4, EveryPosition
    <1>6. Below(R, K, i) = {j \in K : j < i}
        BY <1>2 DEF Below
    <1> QED BY <1>5, <1>6

LEMMA SpellsMore ==
    ASSUME NEW n \in Nat, NEW K, Places(K, n), NEW path, NEW out \in Seq(STRING), path[n + 1] \in STRING,
           Spells(out, path, K)
    PROVE  Spells(Append(out, path[n + 1]), path, K \cup {n + 1})
    <1> DEFINE M == K \cup {n + 1}
               more == Append(out, path[n + 1])
    <1>1. n + 1 \notin K /\ \A i \in K : i \in 1 .. n
        BY DEF Places
    <1>2. IsFiniteSet(K) /\ Cardinality(K) \in Nat
        <2>1. IsFiniteSet(1 .. n)
            BY FS_Interval
        <2> QED BY <2>1, FS_Subset, FS_CardinalityType DEF Places
    <1>3. Cardinality(M) = Cardinality(K) + 1
        BY <1>1, <1>2, FS_AddElement
    <1>4. Len(out) = Cardinality(K)
        BY DEF Spells
    <1>5. Len(more) = Cardinality(M)
        BY <1>3, <1>4
    <1>6. ASSUME NEW i \in M PROVE more[Cardinality({j \in M : j < i}) + 1] = path[i]
        <2>1. CASE i \in K
            <3>1. {j \in M : j < i} = {j \in K : j < i}
                BY <1>1, <2>1
            <3>2. Cardinality({j \in K : j < i}) + 1 \in 1 .. Len(out)
                BY <1>4, <2>1, PlacesCount
            <3>3. out[Cardinality({j \in K : j < i}) + 1] = path[i]
                BY <2>1 DEF Spells
            <3>4. more[Cardinality({j \in K : j < i}) + 1] = path[i]
                BY <3>2, <3>3
            <3> QED BY <3>1, <3>4, Zenon
        <2>2. CASE i = n + 1
            <3>1. {j \in M : j < i} = K
                <4>1. \A j \in K : j < n + 1
                    BY <1>1
                <4>2. ~(n + 1 < n + 1)
                    OBVIOUS
                <4> QED BY <2>2, <4>1, <4>2
            <3>2. more[Cardinality(K) + 1] = path[n + 1]
                BY <1>4
            <3> QED BY <2>2, <3>1, <3>2, Zenon
        <2> QED BY <2>1, <2>2
    <1> QED BY <1>5, <1>6 DEF Spells

LEMMA SpellsLess ==
    ASSUME NEW n \in Nat, NEW K, Places(K, n), NEW path, NEW out \in Seq(STRING), Spells(out, path, K),
           NEW m \in K, \A i \in K : i <= m
    PROVE  out # << >> /\ Last(out) = path[m] /\ Spells(Front(out), path, K \ {m})
    <1>1. \A i \in K : i \in 1 .. n
        BY DEF Places
    <1>2. IsFiniteSet(K) /\ Cardinality(K) \in Nat /\ Cardinality(K) >= 1
        <2>1. Cardinality({j \in K : j < m}) + 1 \in 1 .. Cardinality(K) /\ IsFiniteSet(K) /\ Cardinality(K) \in Nat
            BY PlacesCount
        <2> QED BY <2>1
    <1>3. Cardinality(K \ {m}) = Cardinality(K) - 1
        BY <1>2, FS_RemoveElement
    <1>4. Len(out) = Cardinality(K)
        BY DEF Spells
    <1>5. {j \in K : j < m} = K \ {m}
        BY <1>1
    <1>6. Cardinality({j \in K : j < m}) + 1 = Len(out)
        <2>1. Cardinality({j \in K : j < m}) = Cardinality(K \ {m})
            BY <1>5, Zenon
        <2> QED BY <1>2, <1>3, <1>4, <2>1
    <1>7. out[Cardinality({j \in K : j < m}) + 1] = path[m]
        BY DEF Spells
    <1>8. out # << >> /\ Last(out) = path[m]
        BY <1>2, <1>4, <1>6, <1>7 DEF Last
    <1>9. Front(out) \in Seq(STRING) /\ Len(Front(out)) = Cardinality(K \ {m})
          /\ \A r \in 1 .. Cardinality(K \ {m}) : Front(out)[r] = out[r]
        <2>1. Len(out) \in Nat /\ Len(out) >= 1 /\ Len(out) - 1 = Cardinality(K \ {m})
            BY <1>2, <1>3, <1>4
        <2>2. \A r \in 1 .. Len(out) - 1 : out[r] \in STRING
            OBVIOUS
        <2>3. Front(out) = [r \in 1 .. Len(out) - 1 |-> out[r]]
            BY <2>1 DEF Front
        <2>4. Front(out) \in Seq(STRING) /\ Len(Front(out)) = Len(out) - 1
            BY <2>1, <2>2, <2>3
        <2> QED BY <2>1, <2>3, <2>4
    <1>10. ASSUME NEW i \in K \ {m}
           PROVE  Front(out)[Cardinality({j \in K \ {m} : j < i}) + 1] = path[i]
        <2>1. {j \in K \ {m} : j < i} = {j \in K : j < i}
            BY <1>1
        <2>2. Places(K \ {m}, n)
            BY DEF Places
        <2>3. Cardinality({j \in K \ {m} : j < i}) + 1 \in 1 .. Cardinality(K \ {m})
            BY <2>2, PlacesCount
        <2>4. Front(out)[Cardinality({j \in K \ {m} : j < i}) + 1] = out[Cardinality({j \in K \ {m} : j < i}) + 1]
            BY <1>9, <2>3
        <2>5. out[Cardinality({j \in K : j < i}) + 1] = path[i]
            BY DEF Spells
        <2> QED BY <2>1, <2>4, <2>5, Zenon
    <1> QED BY <1>8, <1>9, <1>10 DEF Spells

LEMMA AppendType ==
    ASSUME NEW S, NEW s \in Seq(S), NEW e \in S
    PROVE  Append(s, e) \in Seq(S)
    OBVIOUS

\* One more component, as the loop takes it.
LEMMA DescendSpells ==
    ASSUME NEW path, Rooted(path), NEW n \in Nat, n + 1 \in DOMAIN path, NEW out \in Seq(STRING),
           Spells(out, path, Kept(path, n))
    PROVE  /\ Descend(out, path[n + 1]) \in Seq(STRING)
           /\ Spells(Descend(out, path[n + 1]), path, Kept(path, n + 1))
    <1> DEFINE K == Kept(path, n)
               part == path[n + 1]
    <1>1. part \in STRING /\ Places(K, n) /\ Spells(out, path, K)
        BY DEF Rooted, Places, Kept
    <1>2. Append(out, part) \in Seq(STRING) /\ Spells(Append(out, part), path, K \cup {n + 1})
        <2> HIDE DEF K
        <2> QED BY <1>1, SpellsMore, AppendType
    <1>3. CASE part = "."
        <2>1. Kept(path, n + 1) = K
            BY <1>3, KeptPlain
        <2>2. Descend(out, part) = out
            BY <1>3 DEF Descend
        <2> QED BY <2>1, <2>2, Zenon
    <1>4. CASE part # "." /\ part # ".."
        <2>1. Kept(path, n + 1) = K \cup {n + 1}
            BY <1>4, KeptPlain
        <2>2. Descend(out, part) = Append(out, part)
            BY <1>4 DEF Descend
        <2> QED BY <1>2, <2>1, <2>2, Zenon
    <1>5. CASE part = ".." /\ (\A i \in K : ~IsNormal(path[i])) /\ Kept(path, n + 1) = K \cup {n + 1}
        <2>1. ASSUME out # << >> PROVE ~IsNormal(Last(out))
            <3>1. Len(out) \in Nat /\ Len(out) \in 1 .. Cardinality(K) /\ Len(out) = Cardinality(K)
                <4>1. Len(out) = Cardinality(K)
                    BY DEF Spells
                <4> HIDE DEF K
                <4> QED BY <2>1, <4>1
            <3>2. PICK i \in K : Cardinality({j \in K : j < i}) = Len(out) - 1
                <4> HIDE DEF K
                <4>1. Places(K, n) /\ n \in Nat
                    BY <1>1
                <4>2. \A r \in 1 .. Cardinality(K) : \E i \in K : Cardinality({j \in K : j < i}) = r - 1
                    BY <4>1, PlaceOf
                <4> QED BY <3>1, <4>2
            <3>3. out[Cardinality({j \in K : j < i}) + 1] = path[i]
                BY DEF Spells
            <3>4. Cardinality({j \in K : j < i}) + 1 = Len(out)
                BY <3>1, <3>2
            <3>5. Last(out) = path[i]
                BY <3>3, <3>4 DEF Last
            <3> QED BY <1>5, <3>5
        <2>2. Descend(out, part) = Append(out, part)
            BY <1>5, <2>1 DEF Descend
        <2> QED BY <1>2, <1>5, <2>2, Zenon
    <1>6. ASSUME part = "..", NEW m \in K, IsNormal(path[m]), \A i \in K : i <= m, Kept(path, n + 1) = K \ {m}
          PROVE  /\ Descend(out, part) \in Seq(STRING)
                 /\ Spells(Descend(out, part), path, Kept(path, n + 1))
        <2>1. out # << >> /\ Last(out) = path[m] /\ Spells(Front(out), path, K \ {m})
            <3> HIDE DEF K
            <3> QED BY <1>1, <1>6, SpellsLess
        <2>2. Descend(out, part) = Front(out)
            BY <1>6, <2>1 DEF Descend
        <2>3. Front(out) \in Seq(STRING)
            BY <2>1 DEF Front
        <2> QED BY <1>6, <2>1, <2>2, <2>3, Zenon
    <1> QED BY <1>3, <1>4, <1>5, <1>6, KeptUp

LEMMA DescendType ==
    ASSUME NEW out \in Seq(STRING), NEW part \in STRING
    PROVE  Descend(out, part) \in Seq(STRING)
    <1>1. out # << >> => Front(out) \in Seq(STRING)
        BY DEF Front
    <1>2. Append(out, part) \in Seq(STRING)
        BY AppendType
    <1> QED BY <1>1, <1>2 DEF Descend

\* normalize_lexically leaves what the steps up of the path leave.
LEMMA Normalized ==
    ASSUME NEW path, Rooted(path)
    PROVE  /\ NormalizeLexically(path) \in Seq(STRING)
           /\ Spells(NormalizeLexically(path), path, Kept(path, Len(path)))
    <1> DEFINE N == Len(path)
               Turn(f) == [i \in 0 .. N |-> IF i = 0 THEN << >> ELSE Descend(f[i - 1], path[i])]
               step == [i \in 1 .. N |-> [s \in Seq(STRING) |-> Descend(s, path[i])]]
    <1>1. N \in Nat /\ DOMAIN path = 1 .. N /\ \A i \in 1 .. N : path[i] \in STRING
        BY DEF Rooted
    <1>2. step \in [1 .. N -> [Seq(STRING) -> Seq(STRING)]]
        <2> HIDE DEF N
        <2> QED BY <1>1, DescendType
    <1>3. PICK f \in [0 .. N -> Seq(STRING)] : f[0] = << >> /\ \A i \in 1 .. N : f[i] = step[i][f[i - 1]]
        <2>1. << >> \in Seq(STRING)
            OBVIOUS
        <2> HIDE DEF N, step
        <2>2. Runs(N, Seq(STRING), << >>, step) # {}
            BY <1>1, <1>2, <2>1, LoopExists
        <2> QED BY <2>2 DEF Runs
    <1>4. f = Turn(f)
        <2>1. ASSUME NEW i \in 0 .. N, i # 0 PROVE f[i] = Descend(f[i - 1], path[i])
            <3> HIDE DEF N
            <3>1. i \in 1 .. N /\ i - 1 \in 0 .. N
                BY <1>1, <2>1
            <3>2. f[i - 1] \in Seq(STRING) /\ f[i] = step[i][f[i - 1]]
                BY <1>3, <3>1
            <3> QED BY <3>1, <3>2
        <2> HIDE DEF N, step
        <2> QED BY <1>3, <2>1
    <1> DEFINE out == CHOOSE g : g = Turn(g)
    <1>5. out = Turn(out)
        <2> HIDE DEF Turn
        <2> QED BY <1>4
    <1>6. NormalizeLexically(path) = out[N]
        BY DEF NormalizeLexically
    <1> HIDE DEF out
    <1>7. out[0] = << >> /\ \A i \in 1 .. N : out[i] = Descend(out[i - 1], path[i])
        <2> HIDE DEF N
        <2>1. 0 \in 0 .. N /\ \A i \in 1 .. N : i \in 0 .. N /\ i # 0
            BY <1>1
        <2> QED BY <1>5, <2>1
    <1> HIDE DEF Turn, step
    <1> DEFINE Done(i) == out[i] \in Seq(STRING) /\ Spells(out[i], path, Kept(path, i))
               done == [i \in 0 .. N |-> Done(i)]
    <1>8. Done(0)
        <2>1. Kept(path, 0) = {}
            BY DEF Kept
        <2>2. Spells(<< >>, path, {})
            BY FS_EmptySet DEF Spells
        <2>3. Spells(<< >>, path, Kept(path, 0))
            BY <2>1, <2>2, Zenon
        <2> QED BY <1>7, <2>3
    <1>9. ASSUME NEW i \in 1 .. N, Done(i - 1) PROVE Done(i)
        <2>1. i - 1 \in Nat /\ (i - 1) + 1 = i /\ (i - 1) + 1 \in DOMAIN path
            BY <1>1
        <2>2. /\ Descend(out[i - 1], path[(i - 1) + 1]) \in Seq(STRING)
              /\ Spells(Descend(out[i - 1], path[(i - 1) + 1]), path, Kept(path, (i - 1) + 1))
            BY <1>9, <2>1, DescendSpells
        <2> QED BY <1>7, <2>1, <2>2
    <1>10. \A i \in 0 .. N : done[i] \in {TRUE}
        <2> HIDE DEF N, Done
        <2>1. 0 \in 0 .. N /\ \A i \in 1 .. N : i \in 0 .. N /\ i - 1 \in 0 .. N
            BY <1>1
        <2>2. done[0] \in {TRUE}
            BY <1>8, <2>1
        <2>3. \A i \in 1 .. N : done[i - 1] \in {TRUE} => done[i] \in {TRUE}
            <3> SUFFICES ASSUME NEW i \in 1 .. N, done[i - 1] \in {TRUE} PROVE done[i] \in {TRUE}
                OBVIOUS
            <3>1. Done(i - 1)
                BY <2>1
            <3>2. Done(i)
                BY <1>9, <3>1
            <3> QED BY <2>1, <3>2
        <2> HIDE DEF done
        <2> QED BY <1>1, <2>2, <2>3, LoopKeeps
    <1>11. Done(N)
        <2> HIDE DEF N, Done
        <2>1. N \in 0 .. N
            BY <1>1
        <2>2. done[N] = TRUE
            BY <1>10, <2>1
        <2> QED BY <2>1, <2>2
    <1> QED BY <1>6, <1>11

LEMMA SpelledSurviving ==
    ASSUME NEW path, Rooted(path), NEW out \in Seq(STRING), Spells(out, path, Kept(path, Len(path)))
    PROVE  out = Surviving(path)
    <1> DEFINE K == Kept(path, Len(path))
               place(r) == CHOOSE i \in K : Cardinality({j \in K : j < i}) = r - 1
    <1>1. Len(path) \in Nat /\ Places(K, Len(path))
        BY DEF Rooted, Places, Kept
    <1>2. Len(out) = Cardinality(K) /\ \A i \in K : out[Cardinality({j \in K : j < i}) + 1] = path[i]
        BY DEF Spells
    <1>3. Surviving(path) = [r \in 1 .. Cardinality(K) |-> path[place(r)]]
        BY DEF Surviving
    <1> HIDE DEF K
    <1>4. ASSUME NEW r \in 1 .. Cardinality(K) PROVE out[r] = path[place(r)]
        <2>1. \E i \in K : Cardinality({j \in K : j < i}) = r - 1
            BY <1>1, PlaceOf
        <2>2. place(r) \in K /\ Cardinality({j \in K : j < place(r)}) = r - 1
            BY <2>1
        <2> DEFINE i == place(r)
        <2>3. i \in K /\ Cardinality({j \in K : j < i}) = r - 1
            BY <2>2
        <2> HIDE DEF i
        <2>4. out[Cardinality({j \in K : j < i}) + 1] = path[i] /\ Cardinality({j \in K : j < i}) + 1 = r
            BY <1>2, <2>3
        <2>5. out[r] = path[i]
            BY <2>4
        <2> QED BY <2>5 DEF i
    <1> HIDE DEF place
    <1>5. out = [r \in 1 .. Cardinality(K) |-> path[place(r)]]
        BY <1>2, <1>4
    <1> QED BY <1>3, <1>5

-------------------------------------------------------------------------------
(* NamesStayBelow *)

LEMMA PathsRooted ==
    ASSUME NEW name \in Names \cup Aliases
    PROVE  Rooted(Base) /\ Rooted(Join(Base, name))
    <1>1. /\ Base \in Seq(STRING) /\ name \in Seq(STRING)
          /\ \A i \in DOMAIN Base : Base[i] = "/" => i = 1
          /\ \A i \in DOMAIN name : name[i] = "/" => i = 1
        BY PathsAssumption
    <1>2. CASE name # << >> /\ Head(name) = "/"
        BY <1>1, <1>2 DEF Rooted, Join
    <1>3. CASE name = << >> \/ Head(name) # "/"
        <2>1. Join(Base, name) = Base \o name
            BY <1>3 DEF Join
        <2>2. Base \o name \in Seq(STRING)
            BY <1>1
        <2>3. ASSUME NEW i \in DOMAIN (Base \o name), (Base \o name)[i] = "/" PROVE i = 1
            <3>1. Len(Base) \in Nat /\ Len(name) \in Nat /\ i \in 1 .. (Len(Base) + Len(name))
                BY <1>1, <2>3
            <3>2. CASE i <= Len(Base)
                <4>1. (Base \o name)[i] = Base[i] /\ i \in DOMAIN Base
                    BY <1>1, <3>1, <3>2
                <4> QED BY <1>1, <2>3, <4>1
            <3>3. CASE i > Len(Base)
                <4>1. (Base \o name)[i] = name[i - Len(Base)] /\ i - Len(Base) \in DOMAIN name
                    BY <1>1, <3>1, <3>3
                <4>2. i - Len(Base) = 1 /\ name[1] = "/"
                    BY <1>1, <2>3, <4>1
                <4>3. name # << >> /\ Head(name) = "/"
                    BY <1>1, <4>1, <4>2
                <4> QED BY <1>3, <4>3
            <3> QED BY <3>1, <3>2, <3>3
        <2>4. \A i \in DOMAIN (Base \o name) : (Base \o name)[i] = "/" => i = 1
            BY <2>3
        <2> QED BY <1>1, <2>1, <2>2, <2>4 DEF Rooted
    <1> QED BY <1>1, <1>2, <1>3

\* The base directory ends with a name, of the subdirectory, and still does normalized.
LEMMA BaseEnds ==
    LET base == NormalizeLexically(Base)
    IN  base \in Seq(STRING) /\ base # << >> /\ IsNormal(Last(base))
    <1> DEFINE base == NormalizeLexically(Base)
               n == Len(Base)
               K == Kept(Base, n)
    <1>1. Rooted(Base)
        BY PathsAssumption DEF Rooted
    <1>2. base \in Seq(STRING) /\ Spells(base, Base, K)
        BY <1>1, Normalized
    <1>3. n \in Nat /\ n \in 1 .. n /\ IsNormal(Base[n]) /\ n .. n = {n}
        BY PathsAssumption DEF Last, IsNormal
    <1>4. n \in K /\ Places(K, n) /\ \A i \in K : i <= n
        BY <1>3, BalanceOne DEF Kept, Places
    <1>5. base # << >> /\ Last(base) = Base[n]
        <2> HIDE DEF K, n, base
        <2> QED BY <1>2, <1>3, <1>4, SpellsLess
    <1> QED BY <1>2, <1>3, <1>5

\* Nothing but a name follows a name in a normalized path.
LEMMA NamesFollow ==
    ASSUME NEW path, Rooted(path), NEW n \in Nat, n = Len(path), NEW out, Spells(out, path, Kept(path, n)),
           NEW r \in Nat, r + 1 \in 1 .. Len(out), r \in 1 .. Len(out), IsNormal(out[r])
    PROVE  IsNormal(out[r + 1])
    <1> DEFINE K == Kept(path, n)
    <1>1. Places(K, n) /\ Len(out) = Cardinality(K)
          /\ \A i \in K : out[Cardinality({j \in K : j < i}) + 1] = path[i]
        BY DEF Places, Kept, Spells
    <1>2. \A q \in 1 .. Cardinality(K) : \E i \in K : Cardinality({j \in K : j < i}) = q - 1
        <2> HIDE DEF K
        <2> QED BY <1>1, PlaceOf
    <1>3. PICK h \in K : Cardinality({j \in K : j < h}) = r - 1
        <2> HIDE DEF K
        <2> QED BY <1>1, <1>2
    <1>4. PICK i \in K : Cardinality({j \in K : j < i}) = (r + 1) - 1
        <2> HIDE DEF K
        <2> QED BY <1>1, <1>2
    <1>5. out[r] = path[h] /\ out[r + 1] = path[i]
        <2>1. Cardinality({j \in K : j < h}) + 1 = r
            BY <1>3
        <2>2. Cardinality({j \in K : j < i}) + 1 = r + 1
            BY <1>4
        <2>3. out[Cardinality({j \in K : j < h}) + 1] = path[h]
            BY <1>1
        <2>4. out[Cardinality({j \in K : j < i}) + 1] = path[i]
            BY <1>1
        <2> HIDE DEF K
        <2> QED BY <2>1, <2>2, <2>3, <2>4
    <1>6. h \in 1 .. n /\ i \in 1 .. n
        BY <1>1 DEF Places
    <1>7. h < i
        <2> SUFFICES ASSUME i <= h PROVE FALSE
            BY <1>6
        <2> DEFINE A == {j \in K : j < i}
                   B == {j \in K : j < h}
        <2>1. A \in SUBSET B /\ B \in SUBSET (1 .. n)
            BY <1>1, <1>6 DEF Places
        <2>2. Cardinality(A) = (r + 1) - 1 /\ Cardinality(B) = r - 1
            BY <1>3, <1>4
        <2> HIDE DEF A, B
        <2>3. IsFiniteSet(1 .. n)
            BY FS_Interval
        <2>4. IsFiniteSet(B)
            BY <2>1, <2>3, FS_Subset
        <2>5. Cardinality(A) <= Cardinality(B)
            BY <2>1, <2>4, FS_Subset
        <2> QED BY <2>2, <2>5
    <1>8. Balance(path, h, i) > 0
        <2>1. i \in h .. n
            BY <1>6, <1>7
        <2> QED BY <1>3, <1>5, <2>1, KeptNames
    <1>9. path[i] # ".." \/ IsNormal(path[i])
        <2> SUFFICES ASSUME path[i] = ".." PROVE FALSE
            OBVIOUS
        <2>1. h \in 1 .. i /\ ~IsNormal(path[i]) /\ path[i] # "/"
            BY <1>6, <1>7 DEF IsNormal
        <2>2. Balance(path, h, i) < 0
            BY <2>1 DEF Kept
        <2> QED BY <1>6, <1>8, <2>2, BalanceType
    <1>10. path[i] # "/"
        <2>1. i \in DOMAIN path /\ i # 1
            BY <1>6, <1>7 DEF Rooted
        <2> QED BY <2>1 DEF Rooted
    <1>11. path[i] # "."
        BY DEF Kept, IsNormal
    <1>12. IsNormal(path[i])
        BY <1>9, <1>10, <1>11 DEF IsNormal
    <1> QED BY <1>5, <1>12

\* What validate_subdirectory accepts is one name below the base directory.
LEMMA AcceptedBelow ==
    ASSUME NEW name \in Names \cup Aliases, IsSubdirectory(name)
    PROVE  /\ Surviving(Join(Base, name)) = Append(Surviving(Base), Last(Target(name)))
           /\ IsNormal(Last(Target(name)))
    <1> DEFINE path == Join(Base, name)
               n == Len(path)
               out == NormalizeLexically(path)
               base == NormalizeLexically(Base)
    <1>1. Rooted(Base) /\ Rooted(path) /\ n \in Nat
        BY PathsRooted DEF Rooted
    <1>2. out \in Seq(STRING) /\ Spells(out, path, Kept(path, n)) /\ out = Surviving(path)
        BY <1>1, Normalized, SpelledSurviving
    <1>3. base = Surviving(Base)
        BY <1>1, Normalized, SpelledSurviving
    <1>4. out # << >> /\ Front(out) = base /\ Target(name) = out
        BY DEF IsSubdirectory, Target
    <1>5. base \in Seq(STRING) /\ base # << >> /\ IsNormal(Last(base))
        BY BaseEnds
    <1> HIDE DEF base, out, n, path
    <1>6. out = Append(base, Last(out))
        BY <1>2, <1>4 DEF Front, Last
    <1>7. IsNormal(Last(out))
        <2>1. Len(out) \in Nat /\ Len(base) = Len(out) - 1 /\ Len(base) \in Nat /\ Len(base) >= 1
            BY <1>2, <1>4, <1>5 DEF Front
        <2>2. out[Len(base)] = Last(base)
            BY <1>2, <1>4, <1>5, <2>1 DEF Front, Last
        <2>3. IsNormal(out[Len(base) + 1])
            BY <1>1, <1>2, <1>5, <2>1, <2>2, NamesFollow DEF n
        <2>4. Len(base) + 1 = Len(out)
            BY <2>1
        <2> QED BY <2>3, <2>4 DEF Last
    <1> QED BY <1>2, <1>3, <1>4, <1>6, <1>7 DEF path

\* An open by name was accepted, and goes to the last component of where it leads.
Checked(call) ==
    call.kind = "check" /\ call.name # None =>
        call.name \in Names /\ IsSubdirectory(call.name) /\ call.dir = Last(Target(call.name))

AllChecked == \A c \in Clients : Checked(op[c])

LEMMA OthersChecked ==
    ASSUME TypeOK, AllChecked, NEW c \in Clients, NEW call, Checked(call),
           Go(c, call) \/ \E d : op' = [Overlooked(d) EXCEPT ![c] = call]
    PROVE  AllChecked'
    <1>1. op'[c] = call /\ OthersStay(c)
        <2>1. CASE Go(c, call)
            BY <2>1, GoEffect DEF OthersStay
        <2>2. ASSUME NEW d, op' = [Overlooked(d) EXCEPT ![c] = call] PROVE op'[c] = call /\ OthersStay(c)
            BY <2>2, OthersEffect
        <2> QED BY <2>1, <2>2
    <1>2. ASSUME NEW e \in Clients PROVE Checked(op'[e])
        <2>1. CASE e = c
            BY <1>1, <2>1
        <2>2. CASE e # c
            BY <1>1, <2>2 DEF OthersStay, AllChecked, Checked
        <2> QED BY <2>1, <2>2
    <1> QED BY <1>2 DEF AllChecked, Checked

LEMMA CheckedOpen ==
    ASSUME TypeOK, AllChecked, NEW c \in Clients, Open(c)
    PROVE  AllChecked'
    <1>1. ASSUME NEW ask \in Asks, RejectArgs(c, ask) \/ Search(c, ask) PROVE AllChecked'
        BY <1>1, OthersChecked DEF RejectArgs, Search, Closed, Checked
    <1>2. ASSUME NEW ask \in Asks, OpenNamed(c, ask) PROVE AllChecked'
        <2> DEFINE call == [kind |-> "check", dir |-> Directory(ask), id |-> None, name |-> ask.name]
        <2>1. Go(c, call) /\ Acceptable(ask) /\ ask.id = None
            BY <1>2 DEF OpenNamed
        <2>2. Checked(call)
            <3> SUFFICES ASSUME ask.name # None
                         PROVE  ask.name \in Names /\ IsSubdirectory(ask.name) /\ Directory(ask) = Last(Target(ask.name))
                BY DEF Checked
            <3>1. Given(ask) = ask.name /\ ask.name \in Names
                BY DEF Given, Asks
            <3> QED BY <2>1, <3>1 DEF Acceptable, Directory
        <2> HIDE DEF call
        <2> QED BY <2>1, <2>2, OthersChecked
    <1>3. ASSUME NEW d \in Dirs, Inspect(c, d) PROVE AllChecked'
        <2>1. op[c] \in [kind : {"find"}, id : 1 .. MaxId, todo : SUBSET Dirs, home : SUBSET Dirs]
            BY <1>3, CallType DEF Inspect
        <2>2. CASE Matches(c, d)
            BY <1>3, <2>2, OthersChecked DEF Inspect, Checked
        <2>3. CASE ~Matches(c, d)
            <3> DEFINE call == [op[c] EXCEPT !.todo = @ \ {d}]
            <3>1. call.kind = "find" /\ Go(c, call)
                BY <1>3, <2>1, <2>3 DEF Inspect
            <3> HIDE DEF call
            <3> QED BY <3>1, OthersChecked DEF Checked
        <2> QED BY <2>2, <2>3
    <1>4. CASE NotFound(c) \/ MetadataExists(c) \/ LoadVanished(c) \/ Load(c)
        BY <1>4, OthersChecked DEF NotFound, MetadataExists, LoadVanished, Load, Closed, Opened, Checked
    <1>5. CASE BeginCreate(c)
        <2> DEFINE d == op[c].dir
                   call == [kind |-> "mkdir", dir |-> d, mine |-> NewMetadata(c), opening |-> TRUE]
        <2>1. Checked(call)
            BY DEF Checked
        <2>2. op' = [(IF Holders(d) # {} THEN Overlooked(d) ELSE op) EXCEPT ![c] = call]
            BY <1>5 DEF BeginCreate
        <2> HIDE DEF call
        <2>3. Go(c, call) \/ op' = [Overlooked(d) EXCEPT ![c] = call]
            BY <2>2 DEF Go
        <2> QED BY <2>1, <2>3, OthersChecked
    <1> QED BY <1>1, <1>2, <1>3, <1>4, <1>5 DEF Open

LEMMA CheckedFail ==
    ASSUME TypeOK, AllChecked, NEW c \in Clients, (\E error : Leave(c, error)) \/ Fail(c)
    PROVE  AllChecked'
    BY OthersChecked DEF Fail, Leave, Closed, Opened, Checked

LEMMA CheckedUse ==
    ASSUME TypeOK, AllChecked, NEW c \in Clients, Use(c) \/ Drop(c) \/ Crash(c) \/ WriteFails(c)
    PROVE  AllChecked'
    <1>1. CASE WriteBack(c) \/ Rename(c)
        BY <1>1, OthersChecked DEF WriteBack, Rename, Opened, Checked
    <1>2. CASE CreateDir(c) \/ WriteTemp(c) \/ DropDir(c) \/ DropFiles(c)
        <2>1. op[c] \in Writes \cup Handles
            BY <1>2, CallType DEF CreateDir, WriteTemp, DropDir, DropFiles
        <2>2. PICK kind \in {"temp", "rename", "open", "drop"} :
                  \/ Go(c, [op[c] EXCEPT !.kind = kind])
                  \/ op' = [Overlooked(op[c].dir) EXCEPT ![c] = [op[c] EXCEPT !.kind = kind]]
            BY <1>2 DEF CreateDir, WriteTemp, DropDir, DropFiles
        <2> DEFINE call == [op[c] EXCEPT !.kind = kind]
        <2>3. call.kind = kind
            BY <2>1 DEF Writes, Handles
        <2>4. Go(c, call) \/ \E d : op' = [Overlooked(d) EXCEPT ![c] = call]
            BY <2>2
        <2> HIDE DEF call
        <2>5. Checked(call)
            BY <2>3 DEF Checked
        <2> QED BY <2>4, <2>5, OthersChecked
    <1>3. CASE WriteLost(c) \/ WriteFails(c) \/ Crash(c)
        BY <1>3, CheckedFail DEF WriteLost, WriteFails, Crash
    <1> QED BY <1>1, <1>2, <1>3 DEF Use, Drop

\* A storage opened by name lives in a directory that is one name below the base
\* directory, and its path is that of the name with every bracket of a name and a step up
\* taken out: whatever components the base and the name are made of.
THEOREM NamesBelow == Spec => []NamesStayBelow
    <1>1. Init => AllChecked
        BY DEF Init, AllChecked, Checked, Closed
    <1>2. TypeOK /\ AllChecked /\ [Next]_vars => AllChecked'
        <2> SUFFICES ASSUME TypeOK, AllChecked, [Next]_vars PROVE AllChecked'
            OBVIOUS
        <2>1. CASE UNCHANGED vars
            BY <2>1 DEF vars, AllChecked, Checked
        <2>2. ASSUME NEW c \in Clients, Open(c) \/ Use(c) \/ Drop(c) \/ Crash(c) \/ WriteFails(c) PROVE AllChecked'
            BY <2>2, CheckedOpen, CheckedUse
        <2> QED BY <2>1, <2>2 DEF Next
    <1>3. AllChecked => NamesStayBelow
        <2> SUFFICES ASSUME AllChecked, NEW c \in Clients, op[c].kind = "check", op[c].name # None
                     PROVE  /\ Surviving(Join(Base, op[c].name)) = Append(Surviving(Base), op[c].dir)
                            /\ IsNormal(op[c].dir)
            BY DEF NamesStayBelow
        <2>1. op[c].name \in Names /\ IsSubdirectory(op[c].name) /\ op[c].dir = Last(Target(op[c].name))
            BY DEF AllChecked, Checked
        <2> QED BY <2>1, AcceptedBelow
    <1> QED BY <1>1, <1>2, <1>3, TypeCorrect, PTL DEF Spec

===============================================================================
