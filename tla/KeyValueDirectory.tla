-------------------------- MODULE KeyValueDirectory --------------------------
(***************************************************************************)
(* What the calls of a key-value store (crawlee-storage/src/               *)
(* key_value_store.rs) make of its directory: one flat namespace in which  *)
(* values, sidecars, temporary files and whatever other programs put there *)
(* are told apart by their names.  The operators take the directory, a     *)
(* function from file names to contents, and give the answer of a call or  *)
(* the directory after it.  KeyValueFiles is the program made of them.     *)
(*                                                                         *)
(* A key or a name is a sequence of letters.  A letter stands for a        *)
(* character or for a run of them that the code looks at as a whole, like  *)
(* the suffix of a sidecar or an escape of percent-encoding.               *)
(***************************************************************************)
EXTENDS SequencesExt, FiniteSetsExt, Functions, Patterns

CONSTANTS
    Escape,     \* percent-encoding: the letter that stands for each letter of a key
    Rank,       \* the order of the letters
    Dotted,     \* the letters that begin with a dot
    None,       \* no filename, no size, no cursor, no limit, no record
    Error       \* the call fails

Suffix == ".__metadata__.json"
StoreFile == <<"__metadata__.json">>

ASSUME LettersAssumption ==
    /\ Escape \in [DOMAIN Escape -> DOMAIN Rank]
    /\ \A a, b \in DOMAIN Escape : Escape[a] = Escape[b] => a = b
    /\ Rank \in [DOMAIN Rank -> Nat]
    /\ \A a, b \in DOMAIN Rank : Rank[a] = Rank[b] => a = b
    /\ {Suffix, StoreFile[1]} \cup DOMAIN Escape \subseteq DOMAIN Rank
ASSUME NothingAssumption ==
    /\ None # Error
    /\ {None, Error} \cap (Nat \cup Seq(DOMAIN Rank)) = {}

(* The contents of a file *)
Bytes(of, size) == [kind |-> "value", of |-> of, size |-> size]
Sidecar(key, type, size, filename) ==
    [kind |-> "sidecar", key |-> key, type |-> type, size |-> size, filename |-> filename]
StoreMetadata == [kind |-> "store"]
Garbage == [kind |-> "garbage"]     \* what does not parse
Missing == [kind |-> "missing"]

Octets == "application/octet-stream"

-------------------------------------------------------------------------------
(* Names *)

\* Mutant of EncodeKey: a key is used for a name as it is.
EncodeKeyAsIs(key) == key

EncodeKey(key) == [i \in DOMAIN key |-> Escape[key[i]]]

DecodeKey(name) ==
    [i \in DOMAIN name |->
        IF \E a \in DOMAIN Escape : Escape[a] = name[i]
        THEN CHOOSE a \in DOMAIN Escape : Escape[a] = name[i]
        ELSE name[i]]

\* The order of strings.
Before(a, b) ==
    \E i \in 1 .. Len(b) :
        /\ i <= Len(a) + 1
        /\ SubSeq(a, 1, i - 1) = SubSeq(b, 1, i - 1)
        /\ i <= Len(a) => Rank[a[i]] < Rank[b[i]]

\* The names in a set from the least one on.
Sorted(names) ==
    [i \in 1 .. Cardinality(names) |->
        CHOOSE n \in names : Cardinality({m \in names : Before(m, n)}) = i - 1]

SidecarName(encoded) == Append(encoded, Suffix)
IsSidecarName(name) == Len(name) > 1 /\ Last(name) = Suffix
IsMetadataFilename(name) == name = StoreFile \/ (name # << >> /\ Last(name) = Suffix)
IsDotFile(name) == Head(name) \in Dotted

\* A single component of a path, and none that is a metadata file.
ValidFilename(name) ==
    /\ name # << >> /\ name \notin {<<".">>, <<"..">>}
    /\ \A i \in DOMAIN name : name[i] # "/"
    /\ ~IsMetadataFilename(name)

-------------------------------------------------------------------------------
(* Files and sidecars *)

There(dir, name) == name \in DOMAIN dir
At(dir, name) == IF There(dir, name) THEN dir[name] ELSE Missing

Write(dir, name, content) ==
    [n \in DOMAIN dir \cup {name} |-> IF n = name THEN content ELSE dir[n]]
Without(dir, names) == Restrict(dir, DOMAIN dir \ names)
SaveMetadata(dir) == Write(dir, StoreFile, StoreMetadata)

ReadSidecar(dir, key) == At(dir, SidecarName(EncodeKey(key)))
Parses(dir, key) == ReadSidecar(dir, key).kind = "sidecar"

ValuePath(key, filename) == IF filename = None THEN EncodeKey(key) ELSE filename
ValidPath(filename) == IF filename = None THEN TRUE ELSE ValidFilename(filename)

\* A sidecar that can be read and that names a file of the store.
Binds(dir, key) == Parses(dir, key) /\ ValidPath(ReadSidecar(dir, key).filename)

\* Where a key leads, with or without a sidecar that is any good.
FileOf(dir, key) ==
    IF Binds(dir, key) THEN ValuePath(key, ReadSidecar(dir, key).filename) ELSE EncodeKey(key)

\* Mutant of PublicFile: the sidecar is not asked.
PublicFileOwn(dir, key) == EncodeKey(key)

\* get_public_url
PublicFile(dir, key) == FileOf(dir, key)

RecordExists(dir, key, requireMetadata) ==
    IF Parses(dir, key)
    THEN Binds(dir, key) /\ There(dir, FileOf(dir, key))
    ELSE ~requireMetadata /\ There(dir, EncodeKey(key))

Tracked(dir, key) == RecordExists(dir, key, TRUE)

-------------------------------------------------------------------------------
(* Reading a value *)

Found(path, key, type, size) == [path |-> path, key |-> key, type |-> type, size |-> size]

\* A size that a sidecar leaves out is taken from the file.
Backfilled(dir, size, path) == IF size = None /\ There(dir, path) THEN dir[path].size ELSE size

\* Mutant of GetValue: the size that a sidecar leaves out stays out.
GetValueAsIs(dir, key, requireMetadata) ==
    LET sidecar == ReadSidecar(dir, key)
        path == FileOf(dir, key)
    IN  IF Parses(dir, key)
        THEN IF ~Binds(dir, key) THEN Error
             ELSE IF ~There(dir, path) THEN None
             ELSE Found(path, sidecar.key, sidecar.type, sidecar.size)
        ELSE IF sidecar # Missing THEN Error
        ELSE IF requireMetadata \/ ~There(dir, path) THEN None
        ELSE Found(path, key, Octets, dir[path].size)

GetValue(dir, key, requireMetadata) ==
    LET sidecar == ReadSidecar(dir, key)
        path == FileOf(dir, key)
    IN  IF Parses(dir, key)
        THEN IF ~Binds(dir, key) THEN Error
             ELSE IF ~There(dir, path) THEN None
             ELSE Found(path, sidecar.key, sidecar.type, Backfilled(dir, sidecar.size, path))
        ELSE IF sidecar # Missing THEN Error
        ELSE IF requireMetadata \/ ~There(dir, path) THEN None
        ELSE Found(path, key, Octets, dir[path].size)

\* A bare file that is found in place of a key has the type declared for it.
InPlaceOf(key, fallback, hit) ==
    IF hit = Error THEN Error
    ELSE [hit EXCEPT !.key = key, !.type = IF fallback.type = "" THEN hit.type ELSE fallback.type]

\* The tracked record of the key, or else the first bare file with an extension that
\* is there, under the type declared for it.
ResolveValue(dir, key, fallbacks) ==
    LET Probe(i) == GetValue(dir, key \o fallbacks[i].extension, FALSE)
        tracked == GetValue(dir, key, TRUE)
        hits == {i \in DOMAIN fallbacks : Probe(i) # None}
    IN  IF tracked # None THEN tracked
        ELSE IF hits = {} THEN None
        ELSE InPlaceOf(key, fallbacks[Min(hits)], Probe(Min(hits)))

\* The key that such a search ends at.
ResolveExistingKey(dir, key, fallbacks) ==
    LET hits == {i \in DOMAIN fallbacks : RecordExists(dir, key \o fallbacks[i].extension, FALSE)}
    IN  IF RecordExists(dir, key, TRUE) THEN key
        ELSE IF hits = {} THEN None
        ELSE key \o fallbacks[Min(hits)].extension

-------------------------------------------------------------------------------
(* Listing keys *)

\* The candidates in the order of their keys: a sidecar's metadata once it is read,
\* a declared bare file's at once.
Candidates(dir, fallbacks) ==
    LET tracked == {Front(name) : name \in {n \in DOMAIN dir : IsSidecarName(n)}}
        bare == {i \in DOMAIN fallbacks :
                    /\ ~\E j \in 1 .. i - 1 : fallbacks[j].name = fallbacks[i].name
                    /\ EncodeKey(fallbacks[i].name) \notin tracked
                    /\ There(dir, EncodeKey(fallbacks[i].name))}
        Declared(f) ==
            Sidecar(f.name, IF f.type = "" THEN Octets ELSE f.type,
                    dir[EncodeKey(f.name)].size, None)
    IN  {[sort |-> DecodeKey(e), own |-> e, meta |-> dir[SidecarName(e)]] : e \in tracked}
        \cup {[sort |-> fallbacks[i].name, own |-> EncodeKey(fallbacks[i].name),
               meta |-> Declared(fallbacks[i])] : i \in bare}

\* Mutant of InOrder: the candidates are sorted by the names of their files.
InFileOrder(candidates) ==
    [i \in 1 .. Cardinality(candidates) |->
        CHOOSE c \in candidates : Cardinality({d \in candidates : Before(d.own, c.own)}) = i - 1]

InOrder(candidates) ==
    [i \in 1 .. Cardinality(candidates) |->
        CHOOSE c \in candidates : Cardinality({d \in candidates : Before(d.sort, c.sort)}) = i - 1]

UpTo(results, limit) == SubSeq(results, 1, Min({limit, Len(results)}))

\* What a listing says of a key.
Described(dir, meta) ==
    IF ValidPath(meta.filename)
    THEN [meta EXCEPT !.size = Backfilled(dir, meta.size, ValuePath(meta.key, meta.filename))]
    ELSE meta

\* At most "limit" keys with the prefix behind the cursor, which must be one of them.
ListKeysRaw(dir, cursor, limit, prefix, fallbacks) ==
    LET shown == {c \in Candidates(dir, fallbacks) :
                    c.meta.kind = "sidecar" /\ IsPrefix(prefix, c.meta.key)}
        behind == {c \in shown : IF cursor = None THEN TRUE ELSE Before(cursor, c.meta.key)}
        page == UpTo(InOrder(behind), limit)
    IN  IF cursor # None /\ ~\E c \in shown : c.meta.key = cursor THEN Error
        ELSE [i \in DOMAIN page |-> Described(dir, page[i].meta)]

\* Of the results, one of which is more than the page holds.
Page(results, fetch, wanted) ==
    IF results = Error THEN Error
    ELSE [items |-> UpTo(results, fetch),
          hasMore |-> Len(results) > fetch /\ (wanted = None \/ fetch < wanted)]

\* One key more than the page holds is looked for; "limit" is what the caller still wants.
IterateKeysPage(dir, cursor, limit, pageSize, prefix, fallbacks) ==
    LET fetch == IF limit = None THEN pageSize ELSE Min({pageSize, limit})
    IN  Page(ListKeysRaw(dir, cursor, fetch + 1, prefix, fallbacks), fetch, limit)

WithNextCursor(page) ==
    IF page = Error THEN Error
    ELSE [items |-> page.items,
          next |-> IF page.hasMore /\ page.items # << >> THEN Last(page.items).key ELSE None]

\* One page with the cursor of the next one, which there is if the page is truncated.
ListKeys(dir, cursor, limit, prefix, fallbacks) ==
    WithNextCursor(IterateKeysPage(dir, cursor, None, limit, prefix, fallbacks))

-------------------------------------------------------------------------------
(* Changing a value *)

\* The file of a binding that the write ends is removed.
PrepareWrite(dir, key, path) ==
    IF Binds(dir, key) /\ FileOf(dir, key) # path THEN Without(dir, {FileOf(dir, key)}) ELSE dir

\* The value and its sidecar are in place, then the metadata of the store is saved.
Recorded(dir, key, type, size, filename, content) ==
    SaveMetadata(
        Write(Write(dir, ValuePath(key, filename), content),
              SidecarName(EncodeKey(key)), Sidecar(key, type, size, filename)))

DeleteValue(dir, key) == SaveMetadata(Without(dir, {FileOf(dir, key), SidecarName(EncodeKey(key))}))

\* All files go but those of the keys to keep, wherever they are bound.
PurgeFiles(dir, keep) ==
    LET spared == {StoreFile} \cup {FileOf(dir, k) : k \in keep} \cup {SidecarName(EncodeKey(k)) : k \in keep}
    IN  SaveMetadata(Restrict(dir, DOMAIN dir \cap spared))

-------------------------------------------------------------------------------
(* Adopting files that have no sidecar *)

Declares(candidate) == {candidate.files[i].filename : i \in DOMAIN candidate.files}
DeclaredFiles(candidates) ==
    UNION {Declares(candidates[i]) : i \in {j \in DOMAIN candidates : candidates[j].kind = "key"}}

\* Mutant of OwnedFilenames: only the names that the sidecars have, not what they bind.
OwnedByName(dir, candidates) ==
    {Front(name) : name \in {n \in DOMAIN dir : IsSidecarName(n)}}
        \cup {f \in DeclaredFiles(candidates) : ~IsMetadataFilename(f)}

\* The names of all records, the files bound by those whose own name is missing, and
\* every file declared for a key.
OwnedFilenames(dir, candidates) ==
    LET named == {Front(name) : name \in {n \in DOMAIN dir : IsSidecarName(n)}}
        Bound(e) == LET sidecar == dir[SidecarName(e)]
                    IN  IF sidecar.kind = "sidecar" THEN {sidecar.filename} \ {None} ELSE {}
    IN  named
        \cup {f \in UNION {Bound(e) : e \in named \ DOMAIN dir} : ValidFilename(f)}
        \cup {f \in DeclaredFiles(candidates) : ~IsMetadataFilename(f)}

\* The sidecar says nothing of a file under the key's own name.
WriteAdoptedSidecar(dir, key, filename, type) ==
    Write(dir, SidecarName(EncodeKey(key)),
          Sidecar(key, type, dir[filename].size, IF filename = EncodeKey(key) THEN None ELSE filename))

\* An adoption under way: the directory, the owned files, and whether it failed.
Adopted(adoption, key, filename, type) ==
    [adoption EXCEPT !.dir = WriteAdoptedSidecar(@, key, filename, type),
                     !.owned = @ \cup {filename, EncodeKey(key)}]
Failed(adoption) == [adoption EXCEPT !.ok = FALSE]

\* A key with a record is left alone.  Of the declared files only one may be there.
AdoptForKey(adoption, candidate) ==
    LET files == candidate.files
        offered == {i \in DOMAIN files : ~IsMetadataFilename(files[i].filename)}
        present == {i \in offered : There(adoption.dir, files[i].filename)}
    IN  IF ~adoption.ok \/ Tracked(adoption.dir, candidate.key) THEN adoption
        ELSE IF \E i \in offered : ~ValidFilename(files[i].filename) THEN Failed(adoption)
        ELSE IF present = {} THEN adoption
        ELSE IF Cardinality(present) > 1 THEN Failed(adoption)
        ELSE LET only == files[CHOOSE i \in present : TRUE]
             IN  Adopted(adoption, candidate.key, only.filename, only.type)

\* The first rule that a name matches, 0 if there is none.
RuleFor(rules, name) ==
    LET matched == {i \in DOMAIN rules : MatchesPattern(rules[i].pattern, name)}
    IN  IF matched = {} THEN 0 ELSE Min(matched)

\* Mutant of MaySweep: a dot at the beginning of a name means nothing.
MaySweepDotFiles(adoption, listing, name) ==
    ~IsMetadataFilename(name) /\ name \notin adoption.owned /\ SidecarName(name) \notin listing

MaySweep(adoption, listing, name) ==
    /\ ~IsMetadataFilename(name)
    /\ ~IsDotFile(name)
    /\ name \notin adoption.owned
    /\ SidecarName(name) \notin listing

SweepFile(adoption, listing, rules, name) ==
    LET rule == RuleFor(rules, name)
    IN  IF MaySweep(adoption, listing, name) /\ rule # 0
        THEN Adopted(adoption, name, name, rules[rule].type)
        ELSE adoption

\* The first n files of the listing are swept.
SweptFiles(adoption, listing, rules, n) ==
    LET names == Sorted(listing)
        Swept[i \in 0 .. n] ==
            IF i = 0 THEN adoption ELSE SweepFile(Swept[i - 1], listing, rules, names[i])
    IN  Swept[n]

Sweep(adoption, listing, rules) ==
    IF ~adoption.ok THEN adoption
    ELSE IF \E i \in DOMAIN rules : ~ValidPattern(rules[i].pattern) THEN Failed(adoption)
    ELSE SweptFiles(adoption, listing, rules, Cardinality(listing))

\* Of the first n candidates those with a key.
KeysAdopted(adoption, candidates, n) ==
    LET Keyed[i \in 0 .. n] ==
            IF i = 0 THEN adoption
            ELSE IF candidates[i].kind = "key" THEN AdoptForKey(Keyed[i - 1], candidates[i])
            ELSE Keyed[i - 1]
    IN  Keyed[n]

\* Of the first n candidates the sweeps.
SweepsDone(adoption, listing, candidates, n) ==
    LET Done[i \in 0 .. n] ==
            IF i = 0 THEN adoption
            ELSE IF candidates[i].kind = "sweep" THEN Sweep(Done[i - 1], listing, candidates[i].rules)
            ELSE Done[i - 1]
    IN  Done[n]

\* All keys first, then all sweeps, on the listing made before both.
AdoptFiles(dir, candidates) ==
    LET begun == [dir |-> dir, owned |-> OwnedFilenames(dir, candidates), ok |-> TRUE]
        keyed == KeysAdopted(begun, candidates, Len(candidates))
    IN  SweepsDone(keyed, DOMAIN dir, candidates, Len(candidates))

=============================================================================
