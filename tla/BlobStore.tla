----------------------------- MODULE BlobStore ------------------------------
(***************************************************************************)
(* Chunks in content-addressed storage: the local blob store               *)
(* (internal/storage/blob/local.go), the ingestion that shares blobs       *)
(* between chunks and keeps their references (ingestion.go), and the       *)
(* garbage collector with its trash (gc.go).                               *)
(*                                                                         *)
(* There is no lock around any of it: every access to the file system or   *)
(* to the database is a step.  Chunks are ingested by the workers of the   *)
(* transfer manager, and the collector may be another process (bib admin   *)
(* blob gc).  A file is absent, empty or whole; a process that has it open *)
(* keeps writing to it where a rename has moved it.  Metadata that cannot  *)
(* be parsed is as good as none; readers do not see it half written.       *)
(*                                                                         *)
(* Time is two-valued: what exists when a long time passes is then older   *)
(* than MinAgeDays and TrashRetentionDays.  Rows of chunks are never       *)
(* deleted: deleting a dataset only sets its status.  Left out: sizes,     *)
(* compression, encryption, tags, and metadata in the trash, which nobody  *)
(* reads.                                                                  *)
(*                                                                         *)
(* A definition whose name ends in _Broken or the like is the definition   *)
(* that follows it with a plausible mistake; no specification uses it.     *)
(***************************************************************************)

CONSTANTS
    Hashes,    \* content hashes
    Chunks,    \* rows of the chunks table, each of a version of its own
    HashOf,    \* HashOf[c] is the hash of chunk c
    Gc,        \* the garbage collector
    NoHash,    \* the collector is at no blob
    NoMeta,    \* there is no metadata file
    Methods,   \* the methods of collection that may be configured
    Readers,   \* hashes that are read by Get
    Faults     \* whether accesses to files and to the database may fail

ASSUME BlobAssumption ==
    /\ HashOf \in [Chunks -> Hashes]
    /\ Gc \notin Chunks
    /\ NoHash \notin Hashes
    /\ NoMeta \notin [refs : SUBSET Chunks, old : BOOLEAN]
    /\ Methods \subseteq {"mark-and-sweep", "reference-counting"}
    /\ Readers \subseteq Hashes
    /\ Faults \in BOOLEAN

VARIABLES
    temp,       \* the file <hash>.tmp
    blob,       \* the file <hash>
    trash,      \* the file .trash/<hash>
    blobOld,    \* the blob file was last modified a long time ago
    trashOld,   \* the file in the trash was last modified a long time ago
    meta,       \* the file <hash>.meta: its references and whether CreatedAt is old
    row,        \* the status of a chunk in the database
    pc,         \* where a process is
    reg,        \* the metadata a process has read
    fd,         \* where the file is that a Put has open
    touching,   \* the metadata read by the Touch of a Get, by hash
    method,     \* cfg.Method
    gcHash,     \* the blob the collector is at
    todo,       \* versions the collector has still to list
    marked,     \* referenced, in runMarkAndSweep
    listed,     \* allBlobs that are still to visit: hashes and whether CreatedAt is old
    history     \* of a hash: clean, dirty (calls overlapped, met the collector or
                \* failed half-way), overlapped (two Puts used the temp file at once),
                \* broken (one of them ended while it was writing to the blob)

fileVars == <<temp, blob, trash, blobOld, trashOld>>
gcVars == <<method, gcHash, todo, marked, listed>>
vars == <<fileVars, meta, row, pc, reg, fd, touching, gcVars, history>>

Procs == Chunks \cup {Gc}
Files == {"none", "empty", "whole"}
Metadata == [refs : SUBSET Chunks, old : BOOLEAN] \cup {NoMeta}

ChunkPcs == {"idle", "stat", "create", "write", "rename", "meta", "dedup", "addref",
             "row", "unref", "delete", "deletemeta", "status"}
GcPcs == {"idle", "mark", "list", "sweep", "delete", "deletemeta"}

TypeOK ==
    /\ temp \in [Hashes -> Files]
    /\ blob \in [Hashes -> Files]
    /\ trash \in [Hashes -> BOOLEAN]
    /\ blobOld \in [Hashes -> BOOLEAN]
    /\ trashOld \in [Hashes -> BOOLEAN]
    /\ meta \in [Hashes -> Metadata]
    /\ row \in [Chunks -> {"none", "verified", "failed"}]
    /\ pc \in [Procs -> ChunkPcs \cup GcPcs]
    /\ reg \in [Chunks -> Metadata]
    /\ fd \in [Chunks -> {"none", "temp", "blob", "lost"}]
    /\ touching \in [Hashes -> Metadata]
    /\ method \in Methods
    /\ gcHash \in Hashes \cup {NoHash}
    /\ todo \subseteq Chunks
    /\ marked \subseteq Hashes
    /\ listed \subseteq Hashes \X BOOLEAN
    /\ history \in [Hashes -> {"clean", "dirty", "overlapped", "broken"}]

Init ==
    /\ temp = [h \in Hashes |-> "none"]
    /\ blob = [h \in Hashes |-> "none"]
    /\ trash = [h \in Hashes |-> FALSE]
    /\ blobOld = [h \in Hashes |-> FALSE]
    /\ trashOld = [h \in Hashes |-> FALSE]
    /\ meta = [h \in Hashes |-> NoMeta]
    /\ row = [c \in Chunks |-> "none"]
    /\ pc = [p \in Procs |-> "idle"]
    /\ reg = [c \in Chunks |-> NoMeta]
    /\ fd = [c \in Chunks |-> "none"]
    /\ touching = [h \in Hashes |-> NoMeta]
    /\ method \in Methods
    /\ gcHash = NoHash
    /\ todo = {}
    /\ marked = {}
    /\ listed = {}
    /\ history = [h \in Hashes |-> "clean"]

-----------------------------------------------------------------------------
\* Some call other than that of c is at hash h, or the collector is running.
Busy(h, c) ==
    \/ \E b \in Chunks \ {c} : HashOf[b] = h /\ pc[b] # "idle"
    \/ touching[h] # NoMeta
    \/ pc[Gc] # "idle"

Dirty(old) == IF old = "clean" THEN "dirty" ELSE old

Begin(h, c) == history' = [history EXCEPT ![h] = IF Busy(h, c) THEN Dirty(@) ELSE @]

Fault(h) == Faults /\ history' = [history EXCEPT ![h] = Dirty(@)]

Goto(p, l) == pc' = [pc EXCEPT ![p] = l]

\* os.WriteFile of metadata fails before it truncates the file, or after.
MetaFault(h) ==
    /\ Fault(h)
    /\ \E m \in {meta[h], NoMeta} : meta' = [meta EXCEPT ![h] = m]

\* The Put of c has the blob open and is still to write it.
Writing(h, c) == HashOf[c] = h /\ fd[c] = "blob" /\ pc[c] = "write"

\* The file of hash h that calls may have open is moved, or is gone.
Moved(h, from, to) == [c \in Chunks |-> IF HashOf[c] = h /\ fd[c] = from THEN to ELSE fd[c]]

-----------------------------------------------------------------------------
(* IngestChunk and LocalStore.Put *)

\* IngestChunk with data of the right hash, up to and including Exists.
IngestStart(c) ==
    LET h == HashOf[c]
    IN  /\ pc[c] = "idle"
        /\ Goto(c, IF blob[h] = "none" THEN "stat" ELSE "dedup")
        /\ Begin(h, c)
        /\ UNCHANGED <<fileVars, meta, row, reg, fd, touching, gcVars>>

\* Put: the blob must not exist.
PutStat(c) ==
    /\ pc[c] = "stat"
    /\ Goto(c, IF blob[HashOf[c]] = "none" THEN "create" ELSE "idle")
    /\ UNCHANGED <<fileVars, meta, row, reg, fd, touching, gcVars, history>>

\* Put: os.Create truncates a temp file that is there.
PutCreate(c) ==
    LET h == HashOf[c]
    IN  /\ pc[c] = "create"
        /\ \/ /\ temp' = [temp EXCEPT ![h] = "empty"]
              /\ fd' = [fd EXCEPT ![c] = "temp"]
              /\ Goto(c, "write")
              /\ history' = [history EXCEPT ![h] =
                   IF @ # "broken" /\ \E b \in Chunks : HashOf[b] = h /\ pc[b] \in {"write", "rename"}
                   THEN "overlapped" ELSE @]
           \/ /\ Faults
              /\ Goto(c, "idle")
              /\ UNCHANGED <<temp, fd, history>>
        /\ UNCHANGED <<blob, trash, blobOld, trashOld, meta, row, reg,
                       touching, gcVars>>

\* The deferred clean-up of a Put that fails: it removes the temp file by name.
RemoveTemp(c) ==
    LET h == HashOf[c]
    IN  /\ temp' = [temp EXCEPT ![h] = "none"]
        /\ fd' = [Moved(h, "temp", "lost") EXCEPT ![c] = "none"]
        /\ Goto(c, "idle")

PutWrite_Broken(c) ==  \* the error of Write is dropped
    LET h == HashOf[c]
    IN  /\ pc[c] = "write"
        /\ \/ /\ temp' = [temp EXCEPT ![h] = IF fd[c] = "temp" THEN "whole" ELSE @]
              /\ blob' = [blob EXCEPT ![h] = IF fd[c] = "blob" THEN "whole" ELSE @]
           \/ Faults /\ UNCHANGED <<temp, blob>>
        /\ fd' = [fd EXCEPT ![c] = "none"]
        /\ Goto(c, "rename")
        /\ UNCHANGED <<trash, blobOld, trashOld, meta, row, reg, touching, gcVars, history>>

\* Put: the data is written, wherever the open file is by now, and the file is
\* closed; or the write fails.
PutWrite(c) ==
    LET h == HashOf[c]
    IN  /\ pc[c] = "write"
        /\ \/ /\ temp' = [temp EXCEPT ![h] = IF fd[c] = "temp" THEN "whole" ELSE @]
              /\ blob' = [blob EXCEPT ![h] = IF fd[c] = "blob" THEN "whole" ELSE @]
              /\ fd' = [fd EXCEPT ![c] = "none"]
              /\ Goto(c, "rename")
              /\ UNCHANGED history
           \/ /\ Faults
              /\ RemoveTemp(c)
              /\ history' = [history EXCEPT ![h] = IF Writing(h, c) THEN "broken" ELSE @]
              /\ UNCHANGED blob
        /\ UNCHANGED <<trash, blobOld, trashOld, meta, row, reg, touching, gcVars>>

\* Put: the temp file gets its final name; without a temp file the rename fails.
PutRename(c) ==
    LET h == HashOf[c]
    IN  /\ pc[c] = "rename"
        /\ \/ /\ temp[h] # "none"
              /\ blob' = [blob EXCEPT ![h] = temp[h]]
              /\ temp' = [temp EXCEPT ![h] = "none"]
              /\ blobOld' = [blobOld EXCEPT ![h] = FALSE]
              /\ fd' = [b \in Chunks |-> IF HashOf[b] = h /\ fd[b] = "temp" THEN "blob"
                                        ELSE Moved(h, "blob", "lost")[b]]
              /\ Goto(c, "meta")
           \/ /\ temp[h] = "none" \/ Faults
              /\ RemoveTemp(c)
              /\ UNCHANGED <<blob, blobOld>>
        /\ UNCHANGED <<trash, trashOld, meta, row, reg, touching, gcVars, history>>

\* Put: new metadata with this chunk as the reference; an error is logged.
PutMeta(c) ==
    LET h == HashOf[c]
    IN  /\ pc[c] = "meta"
        /\ \/ /\ meta' = [meta EXCEPT ![h] = [refs |-> {c}, old |-> FALSE]]
              /\ UNCHANGED history
           \/ MetaFault(h)
        /\ Goto(c, "row")
        /\ UNCHANGED <<fileVars, row, reg, fd, touching, gcVars>>

\* IngestChunk of content that exists reads the metadata ...
DedupRead(c) ==
    LET h == HashOf[c]
    IN  /\ pc[c] = "dedup"
        /\ \/ /\ IF meta[h] = NoMeta \/ c \in meta[h].refs
                 THEN Goto(c, "row") /\ UNCHANGED reg
                 ELSE Goto(c, "addref") /\ reg' = [reg EXCEPT ![c] = meta[h]]
              /\ UNCHANGED history
           \/ /\ Fault(h)
              /\ Goto(c, "row")
              /\ UNCHANGED reg
        /\ UNCHANGED <<fileVars, meta, row, fd, touching, gcVars>>

\* ... and writes it back with the reference; an error is logged.
DedupWrite(c) ==
    LET h == HashOf[c]
    IN  /\ pc[c] = "addref"
        /\ \/ /\ meta' = [meta EXCEPT ![h] = [reg[c] EXCEPT !.refs = @ \cup {c}]]
              /\ UNCHANGED history
           \/ MetaFault(h)
        /\ reg' = [reg EXCEPT ![c] = NoMeta]
        /\ Goto(c, "row")
        /\ UNCHANGED <<fileVars, row, fd, touching, gcVars>>

\* IngestChunk: CreateChunk, which fails if the row exists.
CreateChunk(c) ==
    /\ pc[c] = "row"
    /\ \/ row[c] = "none" /\ row' = [row EXCEPT ![c] = "verified"]
       \/ (Faults \/ row[c] # "none") /\ UNCHANGED row
    /\ Goto(c, "idle")
    /\ UNCHANGED <<fileVars, meta, reg, fd, touching, gcVars, history>>

-----------------------------------------------------------------------------
(* DeleteChunk and LocalStore.Delete *)

DeleteChunk_Broken(c) ==  \* other references are not looked at
    LET h == HashOf[c]
    IN  /\ pc[c] = "idle"
        /\ meta[h] # NoMeta
        /\ Goto(c, "delete")
        /\ Begin(h, c)
        /\ UNCHANGED <<fileVars, meta, row, reg, fd, touching, gcVars>>

\* DeleteChunk of any chunk, in the database or not, reads the metadata, without
\* which it fails, and takes its reference out of what it read.
DeleteChunk(c) ==
    LET h == HashOf[c]
        rest == meta[h].refs \ {c}
    IN  /\ pc[c] = "idle"
        /\ meta[h] # NoMeta
        /\ IF rest = {}
           THEN Goto(c, "delete") /\ UNCHANGED reg
           ELSE Goto(c, "unref") /\ reg' = [reg EXCEPT ![c] = [meta[h] EXCEPT !.refs = rest]]
        /\ Begin(h, c)
        /\ UNCHANGED <<fileVars, meta, row, fd, touching, gcVars>>

\* DeleteChunk of a blob with other references writes the metadata back.
WriteRest(c) ==
    /\ pc[c] = "unref"
    /\ \/ /\ meta' = [meta EXCEPT ![HashOf[c]] = reg[c]]
          /\ Goto(c, "status")
          /\ UNCHANGED history
       \/ /\ MetaFault(HashOf[c])
          /\ Goto(c, "idle")
    /\ reg' = [reg EXCEPT ![c] = NoMeta]
    /\ UNCHANGED <<fileVars, row, fd, touching, gcVars>>

At(p) == IF p = Gc THEN gcHash ELSE HashOf[p]

\* Delete moves the blob to the trash; without a blob it fails.
DeleteBlob(p) ==
    LET h == At(p)
    IN  /\ pc[p] = "delete"
        /\ \/ /\ blob[h] # "none"
              /\ trash' = [trash EXCEPT ![h] = TRUE]
              /\ trashOld' = [trashOld EXCEPT ![h] = blobOld[h]]
              /\ blob' = [blob EXCEPT ![h] = "none"]
              /\ blobOld' = [blobOld EXCEPT ![h] = FALSE]
              /\ fd' = Moved(h, "blob", "lost")
              /\ Goto(p, "deletemeta")
              /\ UNCHANGED temp
           \/ /\ blob[h] = "none" \/ Faults
              /\ Goto(p, IF p = Gc THEN "sweep" ELSE "idle")
              /\ UNCHANGED <<fileVars, fd>>
        /\ UNCHANGED <<meta, row, reg, touching, gcVars, history>>

\* Delete moves the metadata too; that it may fail to is ignored.
DeleteMeta(p) ==
    LET h == At(p)
    IN  /\ pc[p] = "deletemeta"
        /\ \/ meta' = [meta EXCEPT ![h] = NoMeta]
           \/ Faults /\ UNCHANGED meta
        /\ Goto(p, IF p = Gc THEN "sweep" ELSE "status")
        /\ gcHash' = IF p = Gc THEN NoHash ELSE gcHash
        /\ UNCHANGED <<fileVars, row, reg, fd, touching, method, todo, marked, listed, history>>

\* DeleteChunk: UpdateChunkStatus, which fails without a row.
UpdateStatus(c) ==
    /\ pc[c] = "status"
    /\ \/ row[c] # "none" /\ row' = [row EXCEPT ![c] = "failed"] /\ UNCHANGED history
       \/ row[c] = "none" /\ UNCHANGED <<row, history>>
       \/ Fault(HashOf[c]) /\ UNCHANGED row
    /\ Goto(c, "idle")
    /\ UNCHANGED <<fileVars, meta, reg, fd, touching, gcVars>>

-----------------------------------------------------------------------------
(* Get, whose goroutine updates the access time *)

\* Get of a blob, and GetMetadata of its Touch.
TouchRead(h) ==
    /\ h \in Readers
    /\ touching[h] = NoMeta
    /\ blob[h] # "none"
    /\ meta[h] # NoMeta
    /\ touching' = [touching EXCEPT ![h] = meta[h]]
    /\ Begin(h, Gc)
    /\ UNCHANGED <<fileVars, meta, row, pc, reg, fd, gcVars>>

TouchWrite(h) ==
    /\ touching[h] # NoMeta
    /\ \/ meta' = [meta EXCEPT ![h] = touching[h]] /\ UNCHANGED history
       \/ MetaFault(h)
    /\ touching' = [touching EXCEPT ![h] = NoMeta]
    /\ UNCHANGED <<fileVars, row, pc, reg, fd, gcVars>>

-----------------------------------------------------------------------------
(* The garbage collector *)

InFlight(h) == touching[h] # NoMeta \/ \E c \in Chunks : HashOf[c] = h /\ pc[c] # "idle"

GcStart ==
    /\ pc[Gc] = "idle"
    /\ IF method = "mark-and-sweep"
       THEN Goto(Gc, "mark") /\ todo' = Chunks
       ELSE Goto(Gc, "list") /\ UNCHANGED todo
    /\ history' = [h \in Hashes |-> IF InFlight(h) THEN Dirty(history[h]) ELSE history[h]]
    /\ UNCHANGED <<fileVars, meta, row, reg, fd, touching, method, gcHash, marked, listed>>

\* markReferencedBlobs lists the chunks of the next version.
GcMark(c) ==
    /\ pc[Gc] = "mark"
    /\ c \in todo
    /\ todo' = todo \ {c}
    /\ \/ /\ marked' = IF row[c] = "none" THEN marked ELSE marked \cup {HashOf[c]}
          /\ UNCHANGED history
       \/ /\ row[c] # "none"  \* ListVersions or ListChunks fails: a warning, and on
          /\ Fault(HashOf[c])
          /\ UNCHANGED marked
    /\ IF todo = {c} THEN Goto(Gc, "list") ELSE UNCHANGED pc
    /\ UNCHANGED <<fileVars, meta, row, reg, fd, touching, method, gcHash, listed>>

\* List: the blobs with metadata.
GcList ==
    /\ pc[Gc] = "list"
    /\ listed' = {<<h, meta[h].old>> : h \in {g \in Hashes : blob[g] # "none" /\ meta[g] # NoMeta}}
    /\ Goto(Gc, "sweep")
    /\ UNCHANGED <<fileVars, meta, row, reg, fd, touching, method, gcHash, todo, marked, history>>

\* Datasets().List or List fails: the cycle ends.
GcAbort ==
    /\ Faults
    /\ pc[Gc] \in {"mark", "list"}
    /\ todo' = {}
    /\ marked' = {}
    /\ Goto(Gc, "idle")
    /\ UNCHANGED <<fileVars, meta, row, reg, fd, touching, method, gcHash, listed, history>>

Collectable(h, old) ==
    IF method = "mark-and-sweep"
    THEN h \notin marked /\ old
    ELSE meta[h] # NoMeta /\ meta[h].refs = {} /\ meta[h].old

\* The loop over the blobs, up to collectBlob.
GcSweep ==
    /\ pc[Gc] = "sweep"
    /\ \E e \in listed :
         /\ listed' = listed \ {e}
         /\ IF Collectable(e[1], e[2])
            THEN gcHash' = e[1] /\ Goto(Gc, "delete")
            ELSE UNCHANGED <<gcHash, pc>>
    /\ UNCHANGED <<fileVars, meta, row, reg, fd, touching, method, todo, marked, history>>

\* cleanupLocalTrash goes by the modification time, which a rename keeps.
GcCleanTrash ==
    /\ pc[Gc] = "sweep"
    /\ listed = {}
    /\ trash' = [h \in Hashes |-> trash[h] /\ ~trashOld[h]]
    /\ trashOld' = [h \in Hashes |-> FALSE]
    /\ gcHash' = NoHash
    /\ marked' = {}
    /\ Goto(Gc, "idle")
    /\ UNCHANGED <<temp, blob, blobOld, meta, row, reg, fd, touching, method, todo, listed, history>>

EmptyTrash ==
    /\ \E h \in Hashes : trash[h]
    /\ trash' = [h \in Hashes |-> FALSE]
    /\ trashOld' = [h \in Hashes |-> FALSE]
    /\ UNCHANGED <<temp, blob, blobOld, meta, row, pc, reg, fd, touching, gcVars, history>>

-----------------------------------------------------------------------------
\* More than MinAgeDays and TrashRetentionDays pass; no call takes that long.
TimePasses ==
    /\ \A p \in Procs : pc[p] = "idle"
    /\ \A h \in Hashes : touching[h] = NoMeta
    /\ blobOld' = [h \in Hashes |-> blob[h] # "none"]
    /\ trashOld' = trash
    /\ meta' = [h \in Hashes |-> IF meta[h] = NoMeta THEN NoMeta ELSE [meta[h] EXCEPT !.old = TRUE]]
    /\ UNCHANGED <<temp, blob, trash, row, pc, reg, fd, touching, gcVars, history>>

\* A crash at any point, and the next start: the files are all that is left.
Restart ==
    /\ pc' = [p \in Procs |-> "idle"]
    /\ reg' = [c \in Chunks |-> NoMeta]
    /\ fd' = [c \in Chunks |-> "none"]
    /\ touching' = [h \in Hashes |-> NoMeta]
    /\ gcHash' = NoHash
    /\ todo' = {}
    /\ marked' = {}
    /\ listed' = {}
    /\ history' = [h \in Hashes |-> IF \E c \in Chunks : Writing(h, c) THEN "broken"
                                    ELSE IF InFlight(h) \/ gcHash = h THEN Dirty(history[h])
                                    ELSE history[h]]
    /\ UNCHANGED <<fileVars, meta, row, method>>

Ingest(c) ==
    \/ IngestStart(c) \/ PutStat(c) \/ PutCreate(c) \/ PutWrite(c) \/ PutRename(c) \/ PutMeta(c)
    \/ DedupRead(c) \/ DedupWrite(c) \/ CreateChunk(c)

Delete(c) == DeleteChunk(c) \/ WriteRest(c) \/ DeleteBlob(c) \/ DeleteMeta(c) \/ UpdateStatus(c)

Collect ==
    \/ GcStart \/ GcList \/ GcAbort \/ GcSweep \/ GcCleanTrash
    \/ \E c \in Chunks : GcMark(c)
    \/ DeleteBlob(Gc) \/ DeleteMeta(Gc)

Next ==
    \/ \E c \in Chunks : Ingest(c) \/ Delete(c)
    \/ \E h \in Hashes : TouchRead(h) \/ TouchWrite(h)
    \/ Collect
    \/ EmptyTrash
    \/ TimePasses
    \/ Restart

Spec == Init /\ [][Next]_vars

-----------------------------------------------------------------------------
(* Properties *)

\* Ingestion, deletion and collection that do not overlap keep the books: the
\* blob of a verified chunk is there, whole, and holds its reference, however
\* chunks share it and whenever the collector runs.
SequentialCallsKeepBlobs ==
    \A c \in Chunks :
        LET h == HashOf[c]
        IN  row[c] = "verified" /\ history[h] = "clean" /\ ~InFlight(h)
                => blob[h] = "whole" /\ meta[h] # NoMeta /\ c \in meta[h].refs

\* Put publishes a blob by a rename: one that can be read is whole, whatever
\* write fails and wherever it crashes.  Puts of a hash that overlap share the temp
\* file, and one of them may publish what another has truncated; then the other has
\* the blob open and is still to write it, unless it ended before it did.
RenamePublishesWholeBlobs ==
    \A h \in Hashes : blob[h] = "empty" =>
        \/ history[h] = "broken"
        \/ history[h] = "overlapped" /\ \E c \in Chunks : Writing(h, c)

=============================================================================
