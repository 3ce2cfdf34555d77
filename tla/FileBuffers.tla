---------------------------- MODULE FileBuffers -----------------------------
(***************************************************************************)
(* One source file as serena sees it (solidlsp/ls.py, code_editor.py): the *)
(* file on disk, the reference-counted buffers of open_file, the document  *)
(* the language server was told about, the two symbol caches keyed by a    *)
(* hash of the contents, and the copies of the caches that are loaded when *)
(* serena starts again.  Tool threads look symbols up and edit symbols;    *)
(* others (the user, the agent's own tools) write the file at any time.    *)
(*                                                                         *)
(* Contents are the set of edits they carry, and stand for their own hash  *)
(* and for their own symbols.  Replacing a symbol's body is two edits, the *)
(* deletion and the insertion.  A buffer's recorded mtime is kept as       *)
(* "stale": the file's mtime is greater.  Saving truncates the file first: *)
(* contents with Cut in them have lost everything the file had before.     *)
(***************************************************************************)
EXTENDS Naturals, Sequences, FiniteSets

CONSTANTS
    Threads,       \* threads of tool calls
    Bufs,          \* ids of LSPFileBuffer objects: a model bound
    Edits,         \* edits made by tool calls: a model bound
    Writes,        \* writes made by others: a model bound
    MaxRestarts,   \* a model bound
    Cut,           \* the mark of a file that was truncated and not yet written
    Empty,         \* the answer [] of a server that has nothing to tell yet
    None           \* Python's None

VARIABLES
    disk,          \* the contents of the file
    buf,           \* the LSPFileBuffer objects, None where there is none
    open,          \* open_file_buffers[uri]
    doc,           \* the language server's text of the document; None: closed
    ready,         \* has the language server finished indexing?
    raw, high,     \* the entries of _raw_document_symbols_cache and
                   \* _document_symbols_cache: a pair of hash and symbols
    rawSaved, highSaved,  \* the cache files
    todo,          \* what each thread still has to do
    own,           \* fb, the buffer each thread has got from open_file
    edit,          \* the edit each thread makes; None: it only looks up
    symbols,       \* what the symbol lookup of each thread has got
    text,          \* new_contents of _save_edited_file
    seen,          \* history: contents the file had during the thread's call
    unready,       \* history: threads whose call met an unready server
    done,          \* history: edits whose call returned, and others' writes
    broken,        \* history: threads that hit an assertion or a KeyError
    disturbed,     \* history: threads since whose last didOpen others wrote
    mixed,         \* history: cache entries stored by a disturbed thread
    lost,          \* history: edits and writes that may be lost: made while the
                   \* other was under way, or before a save that was cut short
    restarts       \* the number of restarts so far

callVars  == <<todo, own, edit, symbols, text>>
cacheVars == <<raw, high, rawSaved, highSaved>>
history   == <<seen, unready, done, broken, disturbed, mixed, lost, restarts>>
vars == <<disk, buf, open, doc, ready, cacheVars, callVars, history>>

\* What one tool call does, step by step.
Lookup == <<"peek", "cached", "didOpen", "rawCached", "ask", "store", "bodies", "close">>
Replace == Lookup \o <<"open", "delete", "insert", "contents", "write", "rewrite", "close", "save">>
Rename  == Lookup \o <<"open", "open", "delete", "insert", "close", "contents", "write", "rewrite",
                       "close", "save">>

Halves(e) == {<<e, "deletion">>, <<e, "insertion">>}
Contents  == SUBSET ({Cut} \cup Writes \cup UNION {Halves(e) : e \in Edits})
Entries   == Contents \X (Contents \cup {Empty})
Buffers   == [contents : Contents \cup {None}, stale : BOOLEAN, hash : Contents \cup {None},
              refs : Nat, inLs : BOOLEAN]

ASSUME FileConstants ==
    /\ None \notin Bufs /\ None \notin Edits /\ None \notin Buffers /\ None # Empty
    /\ \A c \in Contents : c # None /\ c # Empty
    /\ \A entry \in Entries : entry # None
    /\ \A e \in Edits : Writes \cap Halves(e) = {} /\ Cut \notin Halves(e)
    /\ Writes \cap Edits = {} /\ Cut \notin Writes /\ MaxRestarts \in Nat

\* Mutant: a buffer starts without a reference.
NewBufferUnreferenced ==
    [contents |-> None, stale |-> FALSE, hash |-> None, refs |-> 0, inLs |-> FALSE]

NewBuffer == [contents |-> None, stale |-> FALSE, hash |-> None, refs |-> 1, inLs |-> FALSE]

Init ==
    /\ disk = {} /\ buf = [b \in Bufs |-> None] /\ open = None /\ doc = None
    /\ ready \in BOOLEAN
    /\ raw = None /\ high = None /\ rawSaved = None /\ highSaved = None
    /\ todo = [t \in Threads |-> <<>>] /\ own = [t \in Threads |-> None]
    /\ edit = [t \in Threads |-> None] /\ symbols = [t \in Threads |-> None]
    /\ text = [t \in Threads |-> None]
    /\ seen = [t \in Threads |-> {}] /\ unready = {} /\ done = {} /\ broken = {}
    /\ disturbed = {} /\ mixed = {} /\ lost = {} /\ restarts = 0

-----------------------------------------------------------------------------
(* LSPFileBuffer.                                                          *)

\* Reading the property contents: stale contents are read again.
Read(b) == IF b.contents = None \/ b.stale
           THEN [b EXCEPT !.contents = disk, !.stale = FALSE, !.hash = None]
           ELSE b

\* Reading the property content_hash.
Hashed(b) == IF b.hash # None THEN b
             ELSE [Read(b) EXCEPT !.hash = Read(b).contents]

\* ensure_open_in_ls: didOpen carries the contents, once.
Opened(b) == IF b.inLs THEN b ELSE [Read(b) EXCEPT !.inLs = TRUE]

\* Every buffer is older than a file that has just been written.
Outdated == [b \in Bufs |-> IF buf[b] = None THEN None ELSE [buf[b] EXCEPT !.stale = TRUE]]

-----------------------------------------------------------------------------
At(t, step) == todo[t] # <<>> /\ Head(todo[t]) = step
Advance(t)  == todo' = [todo EXCEPT ![t] = Tail(@)]

\* Going on at the next close: what remains of the lookup is not needed.
SkipToClose(t) ==
    LET n == CHOOSE i \in 1 .. Len(todo[t]) :
                 todo[t][i] = "close" /\ \A k \in 1 .. i - 1 : todo[t][k] # "close"
    IN  todo' = [todo EXCEPT ![t] = SubSeq(@, n, Len(@))]

\* An AssertionError or a KeyError ends the call where it stands.
Break(t) ==
    /\ broken' = broken \cup {t}
    /\ todo' = [todo EXCEPT ![t] = <<>>]
    /\ UNCHANGED <<disk, buf, open, doc, ready, cacheVars, own, edit, symbols, text,
                   seen, unready, done, disturbed, mixed, lost, restarts>>

\* A tool call: a symbol lookup, or an edit of the symbol that was looked up.
Call(t) ==
    /\ todo[t] = <<>> /\ t \notin broken
    /\ \/ /\ todo' = [todo EXCEPT ![t] = Append(Lookup, "save")]
          /\ edit' = [edit EXCEPT ![t] = None]
       \/ \E e \in Edits \ ({edit[u] : u \in Threads} \cup done) :
              /\ Halves(e) \cap disk = {}
              /\ \E plan \in {Replace, Rename} : todo' = [todo EXCEPT ![t] = plan]
              /\ edit' = [edit EXCEPT ![t] = e]
    /\ symbols' = [symbols EXCEPT ![t] = None]
    /\ seen' = [seen EXCEPT ![t] = {disk}]
    /\ unready' = IF ready THEN unready \ {t} ELSE unready \cup {t}
    /\ mixed' = mixed \cap {raw, high, rawSaved, highSaved}
    /\ UNCHANGED <<disk, buf, open, doc, ready, cacheVars, own, text, done, broken,
                   disturbed, lost, restarts>>

Opening(t) == At(t, "peek") \/ (At(t, "open") /\ symbols[t] # Empty)

\* find_unique raises: the symbol to edit is not in an empty answer.
SymbolNotFound(t) ==
    /\ At(t, "open") /\ symbols[t] = Empty
    /\ todo' = [todo EXCEPT ![t] = <<>>]
    /\ UNCHANGED <<disk, buf, open, doc, ready, cacheVars, own, edit, symbols, text, history>>

\* open_file finds the buffer and shares it.
Share(t) ==
    /\ Opening(t) /\ open # None
    /\ LET b == [buf[open] EXCEPT !.refs = @ + 1]
           c == IF At(t, "open") THEN Opened(b) ELSE b
       IN  /\ buf' = [buf EXCEPT ![open] = c]
           /\ doc' = IF c.inLs /\ ~b.inLs THEN c.contents ELSE doc
           /\ disturbed' = IF c.inLs /\ ~b.inLs THEN disturbed \ {t} ELSE disturbed
    /\ own' = [own EXCEPT ![t] = open]
    /\ Advance(t)
    /\ UNCHANGED <<disk, open, ready, cacheVars, edit, symbols, text, seen, unready, done, broken,
                   mixed, lost, restarts>>

\* open_file finds none and creates one: didOpen is sent ...
Create(t) ==
    /\ Opening(t) /\ open = None
    /\ \E b \in {x \in Bufs : buf[x] = None} :
           LET c == IF At(t, "open") THEN Opened(NewBuffer) ELSE NewBuffer
           IN  /\ buf' = [buf EXCEPT ![b] = c]
               /\ doc' = IF c.inLs THEN c.contents ELSE doc
               /\ disturbed' = IF c.inLs THEN disturbed \ {t} ELSE disturbed
               /\ own' = [own EXCEPT ![t] = b]
    /\ todo' = [todo EXCEPT ![t] = <<"register">> \o Tail(@)]
    /\ UNCHANGED <<disk, open, ready, cacheVars, edit, symbols, text, seen, unready, done, broken,
                   mixed, lost, restarts>>

\* ... before the buffer is entered in open_file_buffers.
Register(t) ==
    /\ At(t, "register")
    /\ open' = own[t]
    /\ Advance(t)
    /\ UNCHANGED <<disk, buf, doc, ready, cacheVars, own, edit, symbols, text, history>>

\* The end of "with open_file(...)".
Close(t) ==
    /\ At(t, "close")
    /\ LET b == [buf[own[t]] EXCEPT !.refs = @ - 1]
       IN  IF b.refs > 0
           THEN /\ buf' = [buf EXCEPT ![own[t]] = b]
                /\ Advance(t)
                /\ UNCHANGED <<open, doc, own, broken, disturbed>>
           ELSE /\ buf' = [buf EXCEPT ![own[t]] = None]
                /\ doc' = IF b.inLs THEN None ELSE doc
                /\ open' = None
                /\ own' = [own EXCEPT ![t] = None]
                /\ disturbed' = disturbed \ {t}
                /\ IF open = None
                   THEN broken' = broken \cup {t} /\ todo' = [todo EXCEPT ![t] = <<>>]
                   ELSE UNCHANGED broken /\ Advance(t)
    /\ UNCHANGED <<disk, ready, cacheVars, edit, symbols, text, seen, unready, done, mixed, lost,
                   restarts>>

-----------------------------------------------------------------------------
(* request_document_symbols and _request_document_symbols.                 *)

\* Mutant: an entry is good whatever its hash.
ProbeByPath(t, entry, hit, miss) ==
    /\ UNCHANGED buf
    /\ IF entry # None THEN symbols' = [symbols EXCEPT ![t] = entry[2]] /\ hit
                       ELSE UNCHANGED symbols /\ miss

\* Is the entry of a cache the one for the buffer's contents?  (The hash is
\* read only when there is an entry.)
Probe(t, entry, hit, miss) ==
    LET b == IF entry = None THEN buf[own[t]] ELSE Hashed(buf[own[t]])
    IN  /\ buf' = [buf EXCEPT ![own[t]] = b]
        /\ IF entry # None /\ entry[1] = b.hash
           THEN symbols' = [symbols EXCEPT ![t] = entry[2]] /\ hit
           ELSE UNCHANGED symbols /\ miss

CheckCache(t) ==
    /\ At(t, "cached")
    /\ Probe(t, high, SkipToClose(t), Advance(t))
    /\ UNCHANGED <<disk, open, doc, ready, cacheVars, own, edit, text, history>>

EnsureOpenInLs(t) ==
    /\ At(t, "didOpen")
    /\ LET b == buf[own[t]] IN
       /\ buf' = [buf EXCEPT ![own[t]] = Opened(b)]
       /\ doc' = IF b.inLs THEN doc ELSE Opened(b).contents
       /\ disturbed' = IF b.inLs THEN disturbed ELSE disturbed \ {t}
    /\ Advance(t)
    /\ UNCHANGED <<disk, open, ready, cacheVars, own, edit, symbols, text, seen, unready, done,
                   broken, mixed, lost, restarts>>

\* A hit needs no request and nothing stored.
CheckRawCache(t) ==
    /\ At(t, "rawCached")
    /\ Probe(t, raw, todo' = [todo EXCEPT ![t] = Tail(Tail(Tail(@)))], Advance(t))
    /\ UNCHANGED <<disk, open, doc, ready, cacheVars, own, edit, text, history>>

\* The server answers for the document it was told about; before it is ready
\* with nothing (None, which is returned at once) or with an empty list.
Answer(t) ==
    /\ At(t, "ask")
    /\ \E answer \in IF ready THEN {doc} ELSE {Empty, None} :
           /\ symbols' = [symbols EXCEPT ![t] = IF answer = None THEN Empty ELSE answer]
           /\ IF answer = None THEN SkipToClose(t) ELSE Advance(t)
    /\ UNCHANGED <<disk, buf, open, doc, ready, cacheVars, own, edit, text, history>>

\* An entry stored by a disturbed thread is remembered.
Remember(t, entry) == mixed' = IF t \in disturbed THEN mixed \cup {entry} ELSE mixed

\* Only a non-empty answer is kept in the raw cache.
StoreRaw(t) ==
    /\ At(t, "store")
    /\ IF symbols[t] = Empty
       THEN UNCHANGED <<buf, raw, mixed>>
       ELSE LET b == Hashed(buf[own[t]])
            IN  /\ buf' = [buf EXCEPT ![own[t]] = b]
                /\ raw' = <<b.hash, symbols[t]>> /\ Remember(t, raw')
    /\ Advance(t)
    /\ UNCHANGED <<disk, open, doc, ready, high, rawSaved, highSaved, own, edit, symbols, text,
                   seen, unready, done, broken, disturbed, lost, restarts>>

\* Mutant: the hash read from the outdated entry is used for the new one.
StoreSymbolsUnderOldHash(t) ==
    /\ At(t, "bodies")
    /\ LET b == Hashed(Read(buf[own[t]]))
       IN  /\ buf' = [buf EXCEPT ![own[t]] = b]
           /\ high' = <<IF high = None THEN b.hash ELSE high[1], symbols[t]>>
    /\ Remember(t, high')
    /\ Advance(t)
    /\ UNCHANGED <<disk, open, doc, ready, raw, rawSaved, highSaved, own, edit, symbols, text,
                   seen, unready, done, broken, disturbed, lost, restarts>>

\* SymbolBodyFactory reads the contents; the result is cached.
StoreSymbols(t) ==
    /\ At(t, "bodies")
    /\ LET b == Hashed(Read(buf[own[t]]))
       IN  /\ buf' = [buf EXCEPT ![own[t]] = b]
           /\ high' = <<b.hash, symbols[t]>> /\ Remember(t, high')
    /\ Advance(t)
    /\ UNCHANGED <<disk, open, doc, ready, raw, rawSaved, highSaved, own, edit, symbols, text,
                   seen, unready, done, broken, disturbed, lost, restarts>>

\* The request raises: every "with" of the call is left, nothing is saved.
RequestFails(t) ==
    /\ At(t, "ask")
    /\ todo' = [todo EXCEPT ![t] = <<"close">>]
    /\ UNCHANGED <<disk, buf, open, doc, ready, cacheVars, own, edit, symbols, text, history>>

-----------------------------------------------------------------------------
(* Editing: delete_text_between_positions, insert_text_at_position,        *)
(* edited_file_context.                                                    *)

\* Mutant: the server is not told of the change.
ChangeUnannounced(t, step, half) ==
    /\ At(t, step)
    /\ IF open = None
       THEN Break(t)
       ELSE /\ LET b == Read(buf[open])
               IN  buf' = [buf EXCEPT ![open] =
                              [b EXCEPT !.contents = @ \cup {<<edit[t], half>>}, !.hash = None]]
            /\ Advance(t)
            /\ UNCHANGED <<disk, open, doc, ready, cacheVars, own, edit, symbols, text, history>>

\* One change of the buffer in open_file_buffers ("assert uri in
\* self.open_file_buffers"), and didChange.
Change(t, step, half) ==
    /\ At(t, step)
    /\ IF open = None
       THEN Break(t)
       ELSE /\ LET b == Read(buf[open])
               IN  buf' = [buf EXCEPT ![open] =
                              [b EXCEPT !.contents = @ \cup {<<edit[t], half>>}, !.hash = None]]
            /\ doc' = IF doc = None THEN None ELSE doc \cup {<<edit[t], half>>}
            /\ Advance(t)
            /\ UNCHANGED <<disk, open, ready, cacheVars, own, edit, symbols, text, history>>

DeleteText(t) == Change(t, "delete", "deletion")
InsertText(t) == Change(t, "insert", "insertion")

\* Mutant: the file is saved although the change raised.
ChangeFailsButSaves(t) ==
    /\ At(t, "insert")
    /\ Advance(t)
    /\ UNCHANGED <<disk, buf, open, doc, ready, cacheVars, own, edit, symbols, text, history>>

\* The "with open_file(...)" that the thread is in.
Contexts(t) == {k \in DOMAIN todo[t] : todo[t][k] = "close"}

\* The second change raises: the contexts are left without saving.
ChangeFails(t) ==
    /\ At(t, "insert")
    /\ todo' = [todo EXCEPT ![t] = [k \in 1 .. Cardinality(Contexts(t)) |-> "close"]]
    /\ UNCHANGED <<disk, buf, open, doc, ready, cacheVars, own, edit, symbols, text, history>>

GetContents(t) ==
    /\ At(t, "contents")
    /\ buf' = [buf EXCEPT ![own[t]] = Read(@)]
    /\ text' = [text EXCEPT ![t] = Read(buf[own[t]]).contents]
    /\ Advance(t)
    /\ UNCHANGED <<disk, open, doc, ready, cacheVars, own, edit, symbols, history>>

\* _save_edited_file: open(path, "w") truncates the file ...
Truncate(t) ==
    /\ At(t, "write")
    /\ disk' = {Cut} /\ buf' = Outdated
    /\ seen' = [u \in Threads |-> seen[u] \cup {disk'}]
    /\ Advance(t)
    /\ UNCHANGED <<open, doc, ready, cacheVars, own, edit, symbols, text, unready, done, broken,
                   disturbed, mixed, lost, restarts>>

\* ... and the contents are written.
WriteText(t) ==
    /\ At(t, "rewrite")
    /\ disk' = text[t] /\ buf' = Outdated
    /\ text' = [text EXCEPT ![t] = None]
    /\ seen' = [u \in Threads |-> seen[u] \cup {disk'}]
    /\ Advance(t)
    /\ UNCHANGED <<open, doc, ready, cacheVars, own, edit, symbols, unready, done, broken,
                   disturbed, mixed, lost, restarts>>

\* The file cannot be opened for writing, or, once it is truncated, the contents
\* cannot be encoded or the disk is full: it stays as it is.
SaveFails(t) ==
    /\ At(t, "write") \/ At(t, "rewrite")
    /\ todo' = [todo EXCEPT ![t] = <<"close">>]
    /\ lost' = IF At(t, "rewrite") THEN lost \cup done ELSE lost
    /\ text' = [text EXCEPT ![t] = None]
    /\ UNCHANGED <<disk, buf, open, doc, ready, cacheVars, own, edit, symbols,
                   seen, unready, done, broken, disturbed, mixed, restarts>>

-----------------------------------------------------------------------------
(* The end of a call, the server, restarts and other writers.              *)

\* save_all_caches after the tool was applied; each file may fail to be saved.
SaveCaches(t) ==
    /\ At(t, "save")
    /\ rawSaved' \in {raw, rawSaved} /\ highSaved' \in {high, highSaved}
    /\ done' = IF edit[t] = None THEN done ELSE done \cup {edit[t]}
    /\ edit' = [edit EXCEPT ![t] = None] /\ symbols' = [symbols EXCEPT ![t] = None]
    /\ seen' = [seen EXCEPT ![t] = {}]
    /\ Advance(t)
    /\ UNCHANGED <<disk, buf, open, doc, ready, raw, high, own, text,
                   unready, broken, disturbed, mixed, lost, restarts>>

ServerReady ==
    /\ ~ready /\ ready' = TRUE
    /\ UNCHANGED <<disk, buf, open, doc, cacheVars, callVars, history>>

\* Serena and its language server die, perhaps in the middle of a save, and
\* start again: the caches are loaded, or found corrupt and ignored.
Restart ==
    /\ restarts < MaxRestarts /\ restarts' = restarts + 1
    /\ buf' = [b \in Bufs |-> None] /\ open' = None /\ doc' = None /\ ready' = FALSE
    /\ raw' \in {rawSaved, None} /\ high' \in {highSaved, None}
    /\ todo' = [t \in Threads |-> <<>>] /\ own' = [t \in Threads |-> None]
    /\ edit' = [t \in Threads |-> None] /\ text' = [t \in Threads |-> None]
    /\ symbols' = [t \in Threads |-> None]
    /\ lost' = IF \E t \in Threads : At(t, "rewrite") THEN lost \cup done ELSE lost
    /\ seen' = [t \in Threads |-> {}] /\ disturbed' = {}
    /\ UNCHANGED <<disk, rawSaved, highSaved, unready, done, broken, mixed>>

\* The edits under way.
Unfinished == {edit[t] : t \in {u \in Threads : todo[u] # <<>> /\ edit[u] # None}}

\* Others edit the file on disk, perhaps within the resolution of its mtime.
OthersWrite(w) ==
    /\ w \notin done
    /\ disk' = disk \cup {w} /\ done' = done \cup {w}
    /\ buf' \in {Outdated, buf}
    /\ seen' = [t \in Threads |-> IF todo[t] = <<>> THEN seen[t] ELSE seen[t] \cup {disk'}]
    /\ disturbed' = IF doc = None THEN disturbed ELSE Threads
    /\ lost' = IF Unfinished = {} THEN lost ELSE lost \cup Unfinished \cup {w}
    /\ UNCHANGED <<open, doc, ready, cacheVars, callVars, unready, broken, mixed, restarts>>

-----------------------------------------------------------------------------

Open(t)   == SymbolNotFound(t) \/ Share(t) \/ Create(t) \/ Register(t) \/ Close(t)
Request(t) == CheckCache(t) \/ EnsureOpenInLs(t) \/ CheckRawCache(t) \/ Answer(t)
                \/ StoreRaw(t) \/ StoreSymbols(t) \/ RequestFails(t)
Edit(t)   == DeleteText(t) \/ InsertText(t) \/ ChangeFails(t)
                \/ GetContents(t) \/ Truncate(t) \/ WriteText(t) \/ SaveFails(t)

Next ==
    \/ \E t \in Threads : Call(t) \/ Open(t) \/ Request(t) \/ Edit(t) \/ SaveCaches(t)
    \/ ServerReady
    \/ Restart
    \/ \E w \in Writes : OthersWrite(w)

Spec == Init /\ [][Next]_vars

-----------------------------------------------------------------------------
\* Type correctness.
TypeOK ==
    /\ disk \in Contents
    /\ \A b \in Bufs : buf[b] # None =>
           buf[b] \in Buffers /\ buf[b].refs \in 1 .. 2 * Cardinality(Threads)
    /\ open \in Bufs \cup {None} /\ doc \in Contents \cup {None}
    /\ {raw, high, rawSaved, highSaved} \subseteq Entries \cup {None}
    /\ \A t \in Threads : own[t] \in Bufs \cup {None} /\ edit[t] \in Edits \cup {None}

\* An entry has the symbols of the contents with its hash (or the empty list),
\* unless others wrote while it was made.
Sound(entry) == entry[2] \in {entry[1], Empty} \/ entry \in mixed

\* Contents have what was written and what the edits of returned calls made,
\* except what may be lost, and no other edit but excused ones by half.
Kept(contents, excused) ==
    /\ \A e \in done \ lost : e \in Writes \cap contents \/ Halves(e) \subseteq contents
    /\ \A e \in Edits \ (lost \cup excused) :
           Halves(e) \subseteq contents \/ Halves(e) \cap contents = {}

\* In memory, in the cache files and after a restart, the only entries with
\* wrong symbols under a hash are those a request stored while others wrote the
\* file, after didOpen: the hash is read after the answer.
CacheSound ==
    \A entry \in {raw, high, rawSaved, highSaved} : entry # None => Sound(entry)

\* A lookup answers with the symbols of contents that the file had during the
\* call, whoever wrote it meanwhile and whatever the caches held from earlier
\* calls, edits and restarts; only such an entry may still give others.
FreshSymbols ==
    \A t \in Threads : symbols[t] \notin {None, Empty} =>
        \E contents \in seen[t] : Sound(<<contents, symbols[t]>>)

\* An edit whose call returned is on disk, with everything that was written
\* before and since, and none is there by half: an edit and a write made while it
\* was under way may cost each other, and a save that fails or is killed after
\* the truncation costs what was there, but no other.
EditsLand ==
    (\E t \in Threads : At(t, "rewrite")) \/ Kept(disk, {})

\* Unless others wrote since it was sent, the language server's text of the
\* document is the buffer's; and it is told to close what it was told to open,
\* also when a call fails on the way.
ServerInSync ==
    /\ \A t \in Threads \ disturbed :
           open # None /\ own[t] = open /\ buf[open] # None /\ buf[open].inLs
               => doc = buf[open].contents
    /\ (\A t \in Threads : todo[t] = <<>>) =>
           open = None /\ doc = None /\ \A b \in Bufs : buf[b] = None

\* "assert uri in self.open_file_buffers" and its relatives hold.
AssertionsHold == broken = {}

\* The same without the exception: what a write of others in the middle of a
\* request does to the caches.
NothingMixed ==
    \A entry \in {raw, high, rawSaved, highSaved} : entry # None => entry[2] \in {entry[1], Empty}

\* ls.py:2030, "Only cache non-empty results": an empty answer of a server that
\* was not ready is not given to a call that began when it was.
EmptyNotCached ==
    \A t \in Threads : symbols[t] = Empty => t \in unready

=============================================================================
