------------------------------ MODULE StorageOpen ------------------------------
(***************************************************************************)
(* How the clients of one kind of storage open, rewrite and drop the       *)
(* directories under {storage_dir}/{datasets, key_value_stores,            *)
(* request_queues}: the code is the same in dataset.rs, key_value_store.rs *)
(* and request_queue.rs, on the helpers of utils.rs.                       *)
(*                                                                         *)
(* Nothing locks a directory.  Clients of several processes look for the   *)
(* metadata file, create it, write their own copy of it back with every    *)
(* call and remove the directory, their file operations interleaving.      *)
(***************************************************************************)
EXTENDS Integers, SequencesExt

CONSTANTS
    Clients,        \* client instances, in any number of processes
    None,           \* an argument or a field that is not given, a file that is not there
    Base,           \* {storage_dir}/{subdirectory}, as a sequence of path components
    Names,          \* the names callers give, as sequences of path components
    Aliases,        \* the aliases callers give, too
    DefaultName,    \* the directory of the unnamed storage
    Dirs,           \* the directories those names lead to
    MaxId,          \* bound: on the ids ever generated
    MaxFaults,      \* bound: crashes and failed writes
    FaultKinds      \* "crash" of a client's process, a failed "write"

\* A root comes first in a path or not at all, and the base directory ends with the
\* name of the subdirectory.
ASSUME PathsAssumption ==
    /\ Names \cup Aliases \subseteq Seq(STRING)
    /\ Base \in Seq(STRING) /\ Base # << >>
    /\ Last(Base) \notin {"/", ".", ".."}
    /\ \A path \in Names \cup Aliases \cup {Base} : \A i \in DOMAIN path : path[i] = "/" => i = 1
    /\ DefaultName \in Dirs
ASSUME ClientsAssumption == IsFiniteSet(Clients)
ASSUME BoundsAssumption ==
    /\ {MaxId, MaxFaults} \subseteq Nat
    /\ FaultKinds \subseteq {"crash", "write"}

VARIABLES
    dirs,       \* the directories that are there
    meta,       \* the metadata file in each of them
    temps,      \* the clients whose temporary file lies in each of them
    op,         \* what each client does, and the metadata it has in memory
    lastId,     \* the ids generated so far
    contested,  \* directories created anew while another client had them open
    faults      \* faults so far

vars == <<dirs, meta, temps, op, lastId, contested, faults>>

\* StorageMetadata: of the shared fields, those that tell storages apart.
Metadata == [id : 1 .. MaxId, name : Names \cup {None}]
ASSUME SentinelAssumption ==
    None \notin Names \cup Aliases \cup Metadata \cup Nat

\* The kinds of StorageError an open can end with.
Errors == {"Io", "InvalidArgs", "NotFound"}

\* "mkdir", "temp" and "rename" are the steps of atomic_write: of an open that
\* creates the storage, or of any later call that writes the metadata back.
Opens ==
    [kind : {"find"}, id : 1 .. MaxId, todo : SUBSET Dirs, home : SUBSET Dirs]
    \cup [kind : {"check"}, dir : Dirs, id : 1 .. MaxId \cup {None}, name : Names \cup {None}]
    \cup [kind : {"load"}, dir : Dirs]
Writes == [kind : {"mkdir", "temp", "rename"}, dir : Dirs, mine : Metadata, opening : BOOLEAN]
Handles == [kind : {"open", "drop"}, dir : Dirs, mine : Metadata]
Calls == [kind : {"closed"}, error : Errors \cup {None}] \cup Opens \cup Writes \cup Handles

-------------------------------------------------------------------------------
(* The directory a name leads to *)

IsNormal(part) == part \notin {"/", ".", ".."}

\* An absolute path replaces what it is joined to.
Join(base, name) == IF name # << >> /\ Head(name) = "/" THEN name ELSE base \o name

\* Mutant of Descend: a step up always takes the last component away.
DescendOrPop(out, part) ==
    IF part = "." THEN out
    ELSE IF part = ".." THEN (IF out = << >> THEN out ELSE Front(out))
    ELSE Append(out, part)

\* A step up takes the last component away if that is a name, and stays otherwise.
Descend(out, part) ==
    IF part = "." THEN out
    ELSE IF part = ".." /\ out # << >> /\ IsNormal(Last(out)) THEN Front(out)
    ELSE Append(out, part)

NormalizeLexically(path) ==
    LET out[i \in 0 .. Len(path)] == IF i = 0 THEN << >> ELSE Descend(out[i - 1], path[i])
    IN  out[Len(path)]

Target(name) == NormalizeLexically(Join(Base, name))

\* validate_subdirectory: the target is a direct child of the base directory.
IsSubdirectory(name) == Target(name) # << >> /\ Front(Target(name)) = NormalizeLexically(Base)

\* Dirs has the directories of all names that are accepted.
ASSUME DirsAssumption == \A name \in Names \cup Aliases : IsSubdirectory(name) => Last(Target(name)) \in Dirs

\* What an open asks for; the name wins over the alias, and neither is the default.
Asks ==
    [id : 1 .. MaxId \cup {None}, name : Names \cup {None}, alias : Aliases \cup {None}]

Exclusive(ask) == Cardinality({f \in DOMAIN ask : ask[f] # None}) <= 1

Given(ask) == IF ask.name # None THEN ask.name ELSE ask.alias

Acceptable(ask) == Exclusive(ask) /\ (ask.id = None /\ Given(ask) # None => IsSubdirectory(Given(ask)))

Directory(ask) == IF Given(ask) = None THEN DefaultName ELSE Last(Target(Given(ask)))

-------------------------------------------------------------------------------
(* Helpers *)

Stored(d) == meta[d] # None
HasId(d, id) == Stored(d) /\ meta[d].id = id
Undecided == {c \in Clients : op[c].kind = "check" /\ op[c].id = None}
Holders(d) == {c \in Clients : "mine" \in DOMAIN op[c] /\ op[c].dir = d}

Go(c, call) == op' = [op EXCEPT ![c] = call]
Opened(d, m) == [kind |-> "open", dir |-> d, mine |-> m]
Closed(error) == [kind |-> "closed", error |-> error]

\* The client is gone; a directory no client has open is no longer in dispute.
Leave(c, error) ==
    /\ Go(c, Closed(error))
    /\ contested' = {d \in contested : Holders(d) \ {c} # {}}

\* A call that fails closes a client that is being opened, and only that.
Fail(c) ==
    IF op[c].opening THEN Leave(c, "Io")
    ELSE Go(c, Opened(op[c].dir, op[c].mine)) /\ UNCHANGED contested

-------------------------------------------------------------------------------
(* open_with_clock *)

MayOpen(c, ask) == op[c].kind = "closed" /\ (ask.id # None => ask.id <= lastId)

RejectArgs(c, ask) ==
    /\ MayOpen(c, ask)
    /\ ~Acceptable(ask)
    /\ Go(c, Closed("InvalidArgs"))
    /\ UNCHANGED <<dirs, meta, temps, lastId, contested, faults>>

OpenNamed(c, ask) ==
    /\ MayOpen(c, ask)
    /\ Acceptable(ask)
    /\ ask.id = None
    /\ lastId + Cardinality(Undecided) < MaxId
    /\ Go(c, [kind |-> "check", dir |-> Directory(ask), id |-> None, name |-> ask.name])
    /\ UNCHANGED <<dirs, meta, temps, lastId, contested, faults>>

\* find_storage_by_id: one directory after another, in any order.
Search(c, ask) ==
    /\ MayOpen(c, ask)
    /\ Acceptable(ask)
    /\ ask.id # None
    /\ Go(c, [kind |-> "find", id |-> ask.id, todo |-> dirs, home |-> {d \in dirs \ contested : HasId(d, ask.id)}])
    /\ UNCHANGED <<dirs, meta, temps, lastId, contested, faults>>

\* Mutant of Matches: any storage will do.
MatchesAny(c, d) == Stored(d)

Matches(c, d) == HasId(d, op[c].id)

Inspect(c, d) ==
    /\ op[c].kind = "find"
    /\ d \in op[c].todo
    /\ Go(c, IF Matches(c, d)
             THEN [kind |-> "check", dir |-> d, id |-> op[c].id, name |-> None]
             ELSE [op[c] EXCEPT !.todo = @ \ {d}])
    /\ UNCHANGED <<dirs, meta, temps, lastId, contested, faults>>

NotFound(c) ==
    /\ op[c].kind = "find"
    /\ op[c].todo = {}
    /\ Go(c, Closed("NotFound"))
    /\ UNCHANGED <<dirs, meta, temps, lastId, contested, faults>>

\* The metadata file is looked for and read in two steps.
MetadataExists(c) ==
    /\ op[c].kind = "check"
    /\ Stored(op[c].dir)
    /\ Go(c, [kind |-> "load", dir |-> op[c].dir])
    /\ UNCHANGED <<dirs, meta, temps, lastId, contested, faults>>

Load(c) ==
    /\ op[c].kind = "load"
    /\ Stored(op[c].dir)
    /\ Go(c, Opened(op[c].dir, meta[op[c].dir]))
    /\ UNCHANGED <<dirs, meta, temps, lastId, contested, faults>>

LoadVanished(c) ==
    /\ op[c].kind = "load"
    /\ ~Stored(op[c].dir)
    /\ Go(c, Closed("Io"))
    /\ UNCHANGED <<dirs, meta, temps, lastId, contested, faults>>

\* Mutant of MustCreate: a storage is created whatever is there.
MustCreateAlways(d) == TRUE

MustCreate(d) == ~Stored(d)

\* A storage asked for by id keeps that id; any other gets a fresh one.  Only a
\* name is stored, never an alias.
NewMetadata(c) ==
    [id |-> IF op[c].id = None THEN lastId + 1 ELSE op[c].id, name |-> op[c].name]

\* A search that is under way is not owed a directory that is in dispute.
Overlooked(d) ==
    [c \in Clients |-> IF op[c].kind = "find" THEN [op[c] EXCEPT !.home = @ \ {d}] ELSE op[c]]

BeginCreate(c) ==
    /\ op[c].kind = "check"
    /\ MustCreate(op[c].dir)
    /\ LET d == op[c].dir
           disputed == Holders(d) # {}
           call == [kind |-> "mkdir", dir |-> d, mine |-> NewMetadata(c), opening |-> TRUE]
       IN  /\ op' = [(IF disputed THEN Overlooked(d) ELSE op) EXCEPT ![c] = call]
           /\ contested' = IF disputed THEN contested \cup {d} ELSE contested
    /\ lastId' = IF op[c].id = None THEN lastId + 1 ELSE lastId
    /\ UNCHANGED <<dirs, meta, temps, faults>>

-------------------------------------------------------------------------------
(* atomic_write of the metadata file *)

\* Every call of an open client ends with writing its own copy of the metadata.
WriteBack(c) ==
    /\ op[c].kind = "open"
    /\ Go(c, [kind |-> "mkdir", dir |-> op[c].dir, mine |-> op[c].mine, opening |-> FALSE])
    /\ UNCHANGED <<dirs, meta, temps, lastId, contested, faults>>

CreateDir(c) ==
    /\ op[c].kind = "mkdir"
    /\ dirs' = dirs \cup {op[c].dir}
    /\ Go(c, [op[c] EXCEPT !.kind = "temp"])
    /\ UNCHANGED <<meta, temps, lastId, contested, faults>>

\* Mutant of WriteTemp: the metadata file itself is emptied, to be written next.
WriteTempInPlace(c) ==
    /\ op[c].kind = "temp"
    /\ op[c].dir \in dirs
    /\ temps' = [temps EXCEPT ![op[c].dir] = @ \cup {c}]
    /\ meta' = [meta EXCEPT ![op[c].dir] = None]
    /\ Go(c, [op[c] EXCEPT !.kind = "rename"])
    /\ UNCHANGED <<dirs, lastId, contested, faults>>

WriteTemp(c) ==
    /\ op[c].kind = "temp"
    /\ op[c].dir \in dirs
    /\ temps' = [temps EXCEPT ![op[c].dir] = @ \cup {c}]
    /\ Go(c, [op[c] EXCEPT !.kind = "rename"])
    /\ UNCHANGED <<dirs, meta, lastId, contested, faults>>

\* Mutant of Renamable: a rename also brings a removed directory back.
RenamableAnyhow(c) == TRUE

Renamable(c) == c \in temps[op[c].dir]

Rename(c) ==
    /\ op[c].kind = "rename"
    /\ Renamable(c)
    /\ meta' = [meta EXCEPT ![op[c].dir] = op[c].mine]
    /\ temps' = [temps EXCEPT ![op[c].dir] = @ \ {c}]
    /\ Go(c, Opened(op[c].dir, op[c].mine))
    /\ UNCHANGED <<dirs, lastId, contested, faults>>

\* The directory, or the temporary file in it, was dropped in the meantime.
WriteLost(c) ==
    /\ \/ op[c].kind = "temp" /\ op[c].dir \notin dirs
       \/ op[c].kind = "rename" /\ c \notin temps[op[c].dir]
    /\ Fail(c)
    /\ UNCHANGED <<dirs, meta, temps, lastId, faults>>

-------------------------------------------------------------------------------
(* drop_storage: the client stays usable, and its next call writes anew *)

DropFiles(c) ==
    /\ op[c].kind = "open"
    /\ op[c].dir \in dirs
    /\ meta' = [meta EXCEPT ![op[c].dir] = None]
    /\ temps' = [temps EXCEPT ![op[c].dir] = {}]
    /\ op' = [Overlooked(op[c].dir) EXCEPT ![c] = [op[c] EXCEPT !.kind = "drop"]]
    /\ UNCHANGED <<dirs, lastId, contested, faults>>

\* A directory that is not empty any more stays; the call ends with an error.
DropDir(c) ==
    /\ op[c].kind = "drop"
    /\ dirs' = IF Stored(op[c].dir) \/ temps[op[c].dir] # {} THEN dirs ELSE dirs \ {op[c].dir}
    /\ Go(c, [op[c] EXCEPT !.kind = "open"])
    /\ UNCHANGED <<meta, temps, lastId, contested, faults>>

-------------------------------------------------------------------------------
(* Faults *)

MayFault(kind) == kind \in FaultKinds /\ faults < MaxFaults /\ faults' = faults + 1

\* The process dies, or its caller lets go of the client; a temporary file stays.
Crash(c) ==
    /\ MayFault("crash")
    /\ op[c].kind # "closed"
    /\ Leave(c, None)
    /\ UNCHANGED <<dirs, meta, temps, lastId>>

\* A failed write or rename takes its temporary file away again.
WriteFails(c) ==
    /\ MayFault("write")
    /\ op[c].kind \in {"mkdir", "temp", "rename"}
    /\ Fail(c)
    /\ temps' = [temps EXCEPT ![op[c].dir] = @ \ {c}]
    /\ UNCHANGED <<dirs, meta, lastId>>

-------------------------------------------------------------------------------
(* The specification *)

Init ==
    /\ dirs = {}
    /\ meta = [d \in Dirs |-> None]
    /\ temps = [d \in Dirs |-> {}]
    /\ op = [c \in Clients |-> Closed(None)]
    /\ lastId = 0
    /\ contested = {}
    /\ faults = 0

Open(c) ==
    \/ \E ask \in Asks : RejectArgs(c, ask) \/ OpenNamed(c, ask) \/ Search(c, ask)
    \/ \E d \in Dirs : Inspect(c, d)
    \/ NotFound(c) \/ MetadataExists(c) \/ Load(c) \/ LoadVanished(c) \/ BeginCreate(c)

Use(c) == WriteBack(c) \/ CreateDir(c) \/ WriteTemp(c) \/ Rename(c) \/ WriteLost(c)

Drop(c) == DropFiles(c) \/ DropDir(c)

Next == \E c \in Clients : Open(c) \/ Use(c) \/ Drop(c) \/ Crash(c) \/ WriteFails(c)

Spec == Init /\ [][Next]_vars

-------------------------------------------------------------------------------
(* Properties *)

\* Every variable keeps its shape, and a file lies only in a directory that is
\* there: no write revives part of a directory that was dropped under it.
TypeOK ==
    /\ dirs \subseteq Dirs
    /\ meta \in [Dirs -> Metadata \cup {None}]
    /\ temps \in [Dirs -> SUBSET Clients]
    /\ op \in [Clients -> Calls]
    /\ lastId \in 0 .. MaxId
    /\ contested \subseteq Dirs
    /\ faults \in Nat
    /\ \A d \in Dirs \ dirs : ~Stored(d) /\ temps[d] = {}

\* The names of path[i], ..., path[j] less the steps up.
Balance(path, i, j) ==
    Cardinality({k \in i .. j : IsNormal(path[k])}) - Cardinality({k \in i .. j : path[k] = ".."})

\* Of the first n components of a path, those that its steps up leave: they match no
\* bracket, a name opening one and a step up closing it.
Kept(path, n) ==
    {i \in 1 .. n :
        \/ path[i] = "/"
        \/ IsNormal(path[i]) /\ \A j \in i .. n : Balance(path, i, j) > 0
        \/ path[i] = ".." /\ \A h \in 1 .. i : Balance(path, h, i) < 0}

Surviving(path) ==
    LET kept == Kept(path, Len(path))
        place(r) == CHOOSE i \in kept : Cardinality({j \in kept : j < i}) = r - 1
    IN  [r \in 1 .. Cardinality(kept) |-> path[place(r)]]

\* A storage opened by name lives in the one directory below the base directory
\* that the name denotes, however the name winds its way there.
NamesStayBelow ==
    \A c \in Clients :
        op[c].kind = "check" /\ op[c].name # None =>
            /\ Surviving(Join(Base, op[c].name)) = Append(Surviving(Base), op[c].dir)
            /\ IsNormal(op[c].dir)

\* An id never stands for two directories: not on disk, not in the memory of any
\* client, not in an open that is under way.
Identities ==
    {<<meta[d].id, d>> : d \in {e \in Dirs : Stored(e)}}
    \cup {<<op[c].mine.id, op[c].dir>> : c \in {x \in Clients : "mine" \in DOMAIN op[x]}}
IdsNameOneDirectory == \A p, q \in Identities : p[1] = q[1] => p[2] = q[2]

\* Clients of one directory have the identity that is on disk, unless the directory
\* was created while another of them had it open, by an open at the same time or
\* after a drop; once all of them are closed, a new client brings no new dispute.
ClientsAgreeWithDisk ==
    \A d \in Dirs \ contested :
        /\ \A c, e \in Holders(d) : op[c].mine = op[e].mine
        /\ Stored(d) => \A c \in Holders(d) : op[c].mine = meta[d]

\* A search that ends with NotFound never missed a storage that was there from its
\* beginning: rewriting the metadata does not hide a directory for a moment.
SearchMissesNothing ==
    \A c \in Clients : op[c].kind = "find" => op[c].home \subseteq op[c].todo

=============================================================================
