---------------------------- MODULE KeyValueFiles ----------------------------
(***************************************************************************)
(* FileSystemKeyValueStoreClient as its callers see it: whole calls on the *)
(* directory of a store, with what every one of them does to every file.   *)
(* Where KeyValueStore interleaves the steps of concurrent calls, this     *)
(* module looks at long sequences of calls, reopenings that adopt files,   *)
(* and other programs that put files into the directory.                   *)
(*                                                                         *)
(* Only setValueStream of the node bindings (lib.js) spans several calls:  *)
(* it writes a temporary file chunk by chunk while others go on, and hands *)
(* it over in the end.                                                     *)
(***************************************************************************)
EXTENDS KeyValueDirectory

CONSTANTS
    Keys,           \* the keys of the store, those of swept files among them
    Bindings,       \* the keys and filenames of set_value calls
    Sizes,          \* the lengths of their values
    StreamBindings, \* the keys and filenames of setValueStream calls
    StreamSizes,    \* the lengths of what they write
    SizeLimit,      \* 2^32: a streamed size comes into Rust as a u32
    Keeps,          \* the sets of keys that purge is told to keep
    Adoption,       \* the candidates that open is given
    Outside,        \* the names under which other programs put values
    Foreign,        \* the keys for which older clients leave sidecars without a size
    Unparsable,     \* the keys whose sidecar somebody spoils
    MaxValues       \* bound: on the values ever written

\* The random part of the name of a temporary file is a length here.
TemporaryName(of) == [i \in 1 .. of |-> ".tmp"]
IsTemporary(name) == name # << >> /\ Head(name) = ".tmp"

\* The name of a value, which nobody takes for that of a temporary file, and which
\* can be a key in its turn.
Proper(name) == name \in Seq(DOMAIN Escape) /\ ValidFilename(name) /\ ~IsTemporary(name)

\* The extensions that readers of files without a sidecar look for.
Extensions == {[extension |-> <<".c">>, type |-> ""], [extension |-> <<".j">>, type |-> "application/json"]}

\* Bare files that a listing is told of, whether they are there or not.
BareFiles == <<[name |-> <<"a", ".j">>, type |-> "application/json"], [name |-> <<"b", ".j">>, type |-> ""]>>

Plain == "text/plain"
Types == STRING \cup {Plain, Octets} \cup {e.type : e \in Extensions}

\* The names that callers and other programs give to files.
Chosen == Outside \cup {b.filename : b \in Bindings \cup StreamBindings}

ASSUME KeysAssumption ==
    /\ \A k \in Keys : k \in Seq(DOMAIN Escape) /\ Proper([i \in DOMAIN k |-> Escape[k[i]]])
    /\ \A name \in Outside : Proper(name)
    /\ Foreign \cup Unparsable \subseteq Keys /\ Keeps \subseteq SUBSET Keys
    /\ Bindings \cup StreamBindings \subseteq [key : Keys, filename : {None} \cup Seq(DOMAIN Escape)]
    /\ \A b \in Bindings \cup StreamBindings : b.filename # None => ~IsTemporary(b.filename)
    /\ ".tmp" \in Dotted \cap DOMAIN Escape
    /\ \A i \in DOMAIN BareFiles : BareFiles[i].name \in Seq(DOMAIN Escape)
    /\ \A letter \in {".c", ".j"} : letter \in DOMAIN Escape /\ Escape[letter] = letter
ASSUME AdoptionAssumption ==
    /\ Adoption \in Seq([kind : {"key"}, key : Keys,
                          files : Seq([filename : Seq(DOMAIN Escape), type : STRING])]
                       \cup [kind : {"sweep"},
                             rules : Seq([pattern : Seq(STRING), type : STRING])])
    /\ \A name \in DeclaredFiles(Adoption) : ~IsTemporary(name)
    /\ \A i, j \in DOMAIN Adoption :
          Adoption[i].kind = "key" /\ Adoption[j].kind = "key" /\ Adoption[i].key # Adoption[j].key =>
              Declares(Adoption[i]) \cap Declares(Adoption[j]) = {}
\* What a sweep may claim of the files that callers and other programs name has the name
\* that its key would get.
ASSUME SweepsAssumption ==
    \A f \in Chosen \ ({None} \cup DeclaredFiles(Adoption)) :
        ValidFilename(f) /\ (\E i \in DOMAIN Adoption : Adoption[i].kind = "sweep" /\ RuleFor(Adoption[i].rules, f) # 0)
            => f \in Keys /\ EncodeKey(f) = f
ASSUME SizesAssumption ==
    /\ {SizeLimit, MaxValues} \subseteq Nat \ {0}
    /\ Sizes \subseteq Nat /\ StreamSizes \subseteq Nat \ {0}
\* No answer that stands for something is one of those that stand for nothing.
Sidecars == [kind : {"sidecar"}, key : Seq(DOMAIN Escape), type : Types, size : Nat \cup {None},
             filename : {None} \cup Seq(DOMAIN Escape)]
ASSUME RecordsAssumption ==
    /\ {None, Error} \cap [path : Seq(DOMAIN Rank), key : Seq(DOMAIN Rank), type : Types, size : Nat] = {}
    /\ Error \notin Seq(Sidecars) \cup [items : Seq(Sidecars), hasMore : BOOLEAN]
                        \cup [items : Seq(Sidecars), next : {None} \cup Seq(DOMAIN Escape)]

VARIABLES
    dir,        \* the files of the store's directory, none if there is no directory
    open,       \* is the store open
    stream,     \* the setValueStream call under way
    lengths     \* the lengths of the values ever written, in their order

vars == <<dir, open, stream, lengths>>

NoStream == [kind |-> "none"]

-------------------------------------------------------------------------------
(* What the environment keeps to: no file is given to two keys *)

DirectoryExists == There(dir, StoreFile)

\* Somebody's already: the file of another record, or one declared for another key.
Taken(name, k) ==
    \/ \E j \in Keys \ {k} : Parses(dir, j) /\ name \in {FileOf(dir, j), EncodeKey(j)}
    \/ \E i \in DOMAIN Adoption :
          Adoption[i].kind = "key" /\ Adoption[i].key # k /\ name \in Declares(Adoption[i])

\* A key that is bound to another file has no file under its own name.
Stray(k, filename) ==
    /\ filename \notin {None, EncodeKey(k)}
    /\ There(dir, EncodeKey(k))
    /\ ~(Binds(dir, k) /\ FileOf(dir, k) = EncodeKey(k))

MayBind(k, filename) == ~Taken(ValuePath(k, filename), k) /\ ~Stray(k, filename)

-------------------------------------------------------------------------------
(* set_value, delete_value, purge and drop_storage *)

NextValue(size) == Len(lengths) < MaxValues /\ lengths' = Append(lengths, size)

SetValue ==
    /\ open
    /\ \E b \in Bindings, size \in Sizes :
          /\ ValidPath(b.filename)
          /\ MayBind(b.key, b.filename)
          /\ NextValue(size)
          /\ dir' = Recorded(PrepareWrite(dir, b.key, ValuePath(b.key, b.filename)),
                             b.key, Plain, size, b.filename, Bytes(Len(lengths'), size))
    /\ UNCHANGED <<open, stream>>

Delete ==
    /\ open
    /\ \E k \in Keys : dir' = DeleteValue(dir, k)
    /\ UNCHANGED <<open, stream, lengths>>

Purge ==
    /\ open
    /\ \E keep \in Keeps : dir' = PurgeFiles(dir, keep)
    /\ UNCHANGED <<open, stream, lengths>>

\* There is a directory again after the next call that saves the metadata.
DropStorage ==
    /\ open
    /\ dir' = << >>
    /\ UNCHANGED <<open, stream, lengths>>

\* get_value saves the metadata, whether the key is there or not.
Read ==
    /\ open
    /\ dir' = SaveMetadata(dir)
    /\ UNCHANGED <<open, stream, lengths>>

-------------------------------------------------------------------------------
(* setValueStream and finalize_streamed_value *)

StartStream ==
    /\ open
    /\ stream = NoStream
    /\ DirectoryExists
    /\ \E b \in StreamBindings, size \in StreamSizes :
          /\ NextValue(size)
          /\ stream' = [kind |-> "pipe", key |-> b.key, filename |-> b.filename,
                        of |-> Len(lengths'), left |-> size]
          /\ dir' = Write(dir, TemporaryName(Len(lengths')), Bytes(Len(lengths'), 0))
    /\ UNCHANGED open

\* The stream goes on writing into a file that a purge or a drop has removed.
StreamChunk ==
    /\ stream.kind = "pipe"
    /\ stream.left > 0
    /\ stream' = [stream EXCEPT !.left = @ - 1]
    /\ LET temporary == TemporaryName(stream.of)
       IN  dir' = IF There(dir, temporary) THEN [dir EXCEPT ![temporary].size = @ + 1] ELSE dir
    /\ UNCHANGED <<open, lengths>>

\* The source fails, and the temporary file goes.
StreamFails ==
    /\ stream.kind = "pipe"
    /\ dir' = Without(dir, {TemporaryName(stream.of)})
    /\ stream' = NoStream
    /\ UNCHANGED <<open, lengths>>

\* Mutant of Streamed: the source need not be at its end.
StreamedSoFar == stream.kind = "pipe"

Streamed == stream.kind = "pipe" /\ stream.left = 0

Finalize ==
    LET path == ValuePath(stream.key, stream.filename)
        temporary == TemporaryName(stream.of)
        prepared == PrepareWrite(dir, stream.key, path)
    IN
    /\ Streamed
    /\ ValidPath(stream.filename)
    /\ There(dir, temporary)
    /\ MayBind(stream.key, stream.filename)
    /\ dir' = Recorded(Without(prepared, {temporary}), stream.key, Octets,
                       lengths[stream.of] % SizeLimit, stream.filename, dir[temporary])
    /\ stream' = NoStream
    /\ UNCHANGED <<open, lengths>>

\* A filename that is not valid: the temporary file stays behind.
FinalizeRefused ==
    /\ Streamed
    /\ ~ValidPath(stream.filename)
    /\ stream' = NoStream
    /\ UNCHANGED <<dir, open, lengths>>

\* The temporary file is gone, and so is the file that the key was bound to before.
FinalizeFails ==
    /\ Streamed
    /\ ValidPath(stream.filename)
    /\ ~There(dir, TemporaryName(stream.of))
    /\ dir' = PrepareWrite(dir, stream.key, ValuePath(stream.key, stream.filename))
    /\ stream' = NoStream
    /\ UNCHANGED <<open, lengths>>

-------------------------------------------------------------------------------
(* Opening the store, and what happens while it is closed *)

OpenStore ==
    /\ ~open
    /\ LET adoption == AdoptFiles(SaveMetadata(dir), Adoption)
       IN  dir' = adoption.dir /\ open' = adoption.ok
    /\ UNCHANGED <<stream, lengths>>

\* The process ends, in the middle of a stream perhaps, whose file stays behind.
Exit ==
    /\ open
    /\ open' = FALSE
    /\ stream' = NoStream
    /\ UNCHANGED <<dir, lengths>>

\* Another program puts a value into the directory, under a name nobody has.
OutsideWrite ==
    /\ DirectoryExists
    /\ \E name \in Outside :
          /\ ~There(dir, name)
          /\ ~\E k \in Keys : Parses(dir, k) /\ name \in {FileOf(dir, k), EncodeKey(k), k}
          /\ NextValue(1)
          /\ dir' = Write(dir, name, Bytes(Len(lengths'), 1))
    /\ UNCHANGED <<open, stream>>

\* An older client leaves a record whose sidecar does not say how long the value is.
ForeignWrite ==
    /\ DirectoryExists
    /\ \E k \in Foreign :
          /\ ~Parses(dir, k)
          /\ MayBind(k, None)
          /\ NextValue(1)
          /\ dir' = Write(Write(dir, EncodeKey(k), Bytes(Len(lengths'), 1)),
                          SidecarName(EncodeKey(k)), Sidecar(k, Plain, None, None))
    /\ UNCHANGED <<open, stream>>

\* Somebody leaves a sidecar that does not parse.
Spoil ==
    /\ DirectoryExists
    /\ \E k \in Unparsable :
          /\ ReadSidecar(dir, k) = Missing
          /\ dir' = Write(dir, SidecarName(EncodeKey(k)), Garbage)
    /\ UNCHANGED <<open, stream, lengths>>

-------------------------------------------------------------------------------
(* The specification *)

Init ==
    /\ dir = << >>
    /\ open = FALSE
    /\ stream = NoStream
    /\ lengths = << >>

Next ==
    \/ SetValue \/ Delete \/ Purge \/ DropStorage \/ Read
    \/ StartStream \/ StreamChunk \/ StreamFails \/ Finalize \/ FinalizeRefused \/ FinalizeFails
    \/ OpenStore \/ Exit \/ OutsideWrite \/ ForeignWrite \/ Spoil

Spec == Init /\ [][Next]_vars

-------------------------------------------------------------------------------
(* Properties *)

\* Every file is what its name says: a sidecar is named after the key that it
\* states, a value never has the name of a metadata file, and a temporary file
\* belongs to a value that was being written.
TypeOK ==
    /\ \A name \in DOMAIN dir : LET content == dir[name] IN
          /\ content = StoreMetadata <=> name = StoreFile
          /\ content.kind = "sidecar" => name = SidecarName(EncodeKey(content.key))
          /\ content.kind = "value" => ValidFilename(name) /\ content.of \in DOMAIN lengths
          /\ content.kind = "garbage" => IsSidecarName(name)
    /\ open \in BOOLEAN
    /\ stream = NoStream \/ (open /\ stream.of \in DOMAIN lengths /\ stream.left \in Nat)
    /\ lengths \in Seq(Nat) /\ Len(lengths) <= MaxValues

\* Nobody ever finds a part of a streamed value under the name of a value, however
\* long the stream takes, and whatever else is called, ends or is reopened meanwhile.
WholeValues ==
    \A name \in DOMAIN dir : dir[name].kind = "value" =>
        IsTemporary(name) \/ dir[name].size = lengths[dir[name].of]

\* A record is read with the length of its value, also when an older client did not
\* say how long it is, except for a streamed value that is too long for a u32.
SizesAgree ==
    \A k \in Keys : LET hit == GetValue(dir, k, TRUE) IN
        hit \notin {None, Error} =>
            LET length == dir[hit.path].size IN hit.size = length \/ (length >= SizeLimit /\ hit.size = length % SizeLimit)

\* Where a reader of a file without a sidecar looks for it.
Fallbacks == {<< >>} \cup {pair \in Extensions \X Extensions : pair[1] # pair[2]}

\* The three ways to find a record lead to the same file: resolve_value; the key that
\* resolve_existing_key finds, turned into a URL; and for a tracked record
\* record_exists.  Only resolve_value fails if it meets a sidecar that is no good.
ResolutionAgrees ==
    \A k \in Keys, fallbacks \in Fallbacks :
        LET value == ResolveValue(dir, k, fallbacks)
            existing == ResolveExistingKey(dir, k, fallbacks)
        IN  value # Error =>
                /\ value = None <=> existing = None
                /\ value # None => value.key = k /\ value.path = PublicFile(dir, existing)
                /\ RecordExists(dir, k, TRUE) => existing = k

\* The keys to be listed: those of all sidecars that parse, and those of the declared
\* files that have none.
KeysToList(prefix, fallbacks) ==
    LET stated == {dir[n].key : n \in {m \in DOMAIN dir : dir[m].kind = "sidecar"}}
        bare == {f \in {fallbacks[i].name : i \in DOMAIN fallbacks} :
                    There(dir, EncodeKey(f)) /\ ReadSidecar(dir, f) = Missing}
    IN  Sorted({k \in stated \cup bare : IsPrefix(prefix, k)})

\* A page that ends where the keys do or has the cursor to go on with, and that says of
\* a readable record what a read says.
GoesOn(page, keys, from, limit) ==
    /\ page # Error
    /\ [n \in DOMAIN page.items |-> page.items[n].key] = SubSeq(keys, from + 1, Min({from + limit, Len(keys)}))
    /\ page.next = IF from + limit < Len(keys) THEN keys[from + limit] ELSE None
    /\ \A item \in Range(page.items) :
          LET hit == GetValue(dir, item.key, TRUE) IN
          hit \notin {None, Error} => hit.size = item.size /\ hit.type = item.type

PagesOf(keys, prefix, fallbacks) ==
    /\ \A limit \in {1, 2}, i \in 0 .. Len(keys) :
          GoesOn(ListKeys(dir, IF i = 0 THEN None ELSE keys[i], limit, prefix, fallbacks), keys, i, limit)
    /\ \A k \in Keys \ Range(keys) : ListKeys(dir, k, 1, prefix, fallbacks) = Error

\* list_keys with any limit goes on from any key of the listing with exactly the keys
\* that come next and returns the last of them as the cursor of the next page if there
\* are more.  So feeding the cursor back gives every key with the prefix once and in
\* order, tracked and bare ones merged, although their files sort differently, and a
\* key that is not listed is no cursor.
PagesComplete ==
    \A prefix \in {<< >>, <<"b">>} : PagesOf(KeysToList(prefix, BareFiles), prefix, BareFiles)

\* Opening leaves every file where it is, touches no value and no usable record.
NothingTouched(before, after) ==
    /\ DOMAIN before \subseteq DOMAIN after
    /\ \A name \in DOMAIN before : ~IsMetadataFilename(name) => after[name] = before[name]
    /\ \A k \in Keys : Tracked(before, k) => ReadSidecar(after, k) = ReadSidecar(before, k)

\* The files declared for a key that are there, and what open promises if the key has no
\* usable record and no candidate before has any: there is at most one, and it is bound.
Present(before, candidate) ==
    {i \in DOMAIN candidate.files : LET name == candidate.files[i].filename
                                    IN  ~IsMetadataFilename(name) /\ There(before, name)}

KeyBound(before, after, candidate) ==
    /\ Cardinality(Present(before, candidate)) <= 1
    /\ \A i \in Present(before, candidate) :
          LET file == candidate.files[i]
          IN  GetValue(after, candidate.key, TRUE)
                  = Found(file.filename, candidate.key, file.type, before[file.filename].size)

KeyCandidates == {i \in DOMAIN Adoption : Adoption[i].kind = "key"}

KeysBound(before, after) ==
    \A i \in KeyCandidates :
        LET k == Adoption[i].key IN
        (/\ ~Tracked(before, k)
         /\ \A j \in KeyCandidates : j < i /\ Adoption[j].key = k => Present(before, Adoption[j]) = {})
            => KeyBound(before, after, Adoption[i])

\* A file that a sweep may claim: no dotfile, no metadata, no sidecar by its name, not
\* bound by a record and not declared for a key.
Unclaimed(before, name) ==
    /\ ~IsMetadataFilename(name) /\ ~IsDotFile(name)
    /\ ~There(before, SidecarName(name))
    /\ ~\E n \in DOMAIN before : before[n].kind = "sidecar" /\ before[n].filename = name
    /\ name \notin DeclaredFiles(Adoption)

\* The rules of a sweep that mean a name, the sweeps that have some, and what the first
\* rule of the first of them says that the file is.
Ruling(i, name) == {j \in DOMAIN Adoption[i].rules : Stands(Adoption[i].rules[j].pattern, name)}
Sweeping(name) == {i \in DOMAIN Adoption : Adoption[i].kind = "sweep" /\ Ruling(i, name) # {}}
RuledType(name) == LET i == Min(Sweeping(name)) IN Adoption[i].rules[Min(Ruling(i, name))].type

SweptNames(before) == {name \in DOMAIN before : Unclaimed(before, name) /\ Sweeping(name) # {}}

\* Of the files that no candidate declares exactly those that nobody claims and that a
\* rule means become records, as keys of their own names.  No sidecar but that of a
\* declared key is replaced.
FilesSwept(before, after) ==
    /\ \A name \in SweptNames(before) : Tracked(after, name)
    /\ \A n \in DOMAIN after : IsSidecarName(n) =>
          \/ There(before, n) /\ after[n] = before[n]
          \/ \E i \in KeyCandidates : n = SidecarName(EncodeKey(Adoption[i].key))
          \/ \E name \in SweptNames(before) :
                /\ n = SidecarName(EncodeKey(name)) /\ ~There(before, n)
                /\ after[n] = Sidecar(name, RuledType(name), before[name].size, None)

\* Opening a store with candidates does what its documentation says, whatever a long
\* history has left in the directory.
AdoptionSound ==
    [][~open /\ open' => /\ NothingTouched(dir, dir')
                         /\ KeysBound(dir, dir')
                         /\ FilesSwept(dir, dir')]_vars

\* The patterns and names of up to four letters on which the loop of matches_pattern
\* is wrong.
WrongMatches ==
    LET patterns == UNION {[1 .. n -> {"a", "b", "*", "?"}] : n \in 0 .. 4}
        names == UNION {[1 .. n -> {"a", "b"}] : n \in 0 .. 4}
    IN  {pair \in patterns \X names : MatchesPattern(pair[1], pair[2]) # Stands(pair[1], pair[2])}

\* A store that is not open yet can be opened with any rules: although its loop goes
\* back to the last star only, matches_pattern finds what a pattern means.
PatternsAgree == ~open => WrongMatches = {}

\* The value that each key reads as.
Map ==
    [k \in Keys |-> LET hit == GetValue(dir, k, TRUE) IN IF hit \in {None, Error} THEN None ELSE dir[hit.path]]

Values == [kind : {"value"}, of : Nat, size : Nat]
Store == INSTANCE KeyValueMap WITH map <- Map

\* Files, sidecars, bindings, adoption and the files of others implement a map: no
\* call and no opening ever changes what another key reads as.
ImplementsKeyValueMap == Store!Spec

=============================================================================
