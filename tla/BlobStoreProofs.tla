-------------------------- MODULE BlobStoreProofs ---------------------------
(***************************************************************************)
(* A blob that is not whole is one that overlapping Puts are writing or    *)
(* have left, a verified chunk of calls that did not overlap keeps its     *)
(* blob and its reference, and the types are kept, proved for any set of   *)
(* chunks and hashes, with failing writes, crashes, deletions and          *)
(* collections at any point.                                               *)
(***************************************************************************)
EXTENDS BlobStore, TLAPS

\* What is known of a hash whose Puts overlapped.
Shared == {"overlapped", "broken"}

\* The types this proof needs.
PutTypes ==
    /\ temp \in [Hashes -> Files]
    /\ blob \in [Hashes -> Files]
    /\ pc \in [Procs -> ChunkPcs \cup GcPcs]
    /\ fd \in [Chunks -> {"none", "temp", "blob", "lost"}]
    /\ history \in [Hashes -> {"clean", "dirty", "overlapped", "broken"}]

\* A call that is between os.Create and os.Rename.
Putting(c) == pc[c] \in {"write", "rename"}

\* A Put that is not overlapped by another of its hash has the temp file for
\* itself: it is open until it is written, and whole when it is renamed.
PutInv ==
    \A c \in Chunks :
        Putting(c) /\ history[HashOf[c]] \notin Shared =>
            /\ \A b \in Chunks : Putting(b) /\ HashOf[b] = HashOf[c] => b = c
            /\ pc[c] = "write" => fd[c] = "temp"
            /\ pc[c] = "rename" => temp[HashOf[c]] = "whole"

\* A blob of Puts that did not overlap is whole.
WholeInv == \A h \in Hashes : history[h] \notin Shared => blob[h] # "empty"

IInv ==
    /\ PutTypes
    /\ PutInv
    /\ WholeInv

-----------------------------------------------------------------------------
LEMMA Facts ==
    /\ \A c \in Chunks : HashOf[c] \in Hashes /\ c \in Procs /\ c # Gc
    /\ Gc \in Procs
  BY BlobAssumption, Zenon DEF Procs

LEMMA InitIInv == Init => IInv
  BY Facts DEF Init, IInv, PutTypes, PutInv, Putting, WholeInv, Files,
               ChunkPcs, GcPcs

\* A step that leaves the files and the open files alone, moves no call into or
\* within a Put, and only adds to the history.
Quiet ==
    /\ UNCHANGED <<temp, blob, fd>>
    /\ pc' \in [Procs -> ChunkPcs \cup GcPcs]
    /\ \A c \in Chunks : Putting(c) \/ Putting(c)' => pc'[c] = pc[c]
    /\ history' \in [Hashes -> {"clean", "dirty", "overlapped", "broken"}]
    /\ \A h \in Hashes : history[h] \in Shared => history'[h] = history[h]

LEMMA QuietStep == IInv /\ Quiet => IInv'
  BY Facts DEF IInv, Quiet, PutTypes, PutInv, Putting, WholeInv

\* Reading and writing metadata and rows, listing and sweeping are quiet.
LEMMA IngestQuiet ==
    ASSUME IInv, NEW c \in Chunks,
           \/ IngestStart(c) \/ PutStat(c) \/ PutMeta(c)
           \/ DedupRead(c) \/ DedupWrite(c) \/ CreateChunk(c)
    PROVE  Quiet
<1> USE Facts DEF IInv, PutTypes, Quiet, Putting, Shared, Goto, Begin, Fault, MetaFault, Dirty, fileVars, ChunkPcs
<1>1. CASE IngestStart(c)
  BY <1>1, Zenon DEF IngestStart
<1>2. CASE PutStat(c)
  BY <1>2, Zenon DEF PutStat
<1>3. CASE PutMeta(c)
  BY <1>3, Zenon DEF PutMeta
<1>4. CASE DedupRead(c)
  BY <1>4 DEF DedupRead
<1>5. CASE DedupWrite(c)
  BY <1>5, Zenon DEF DedupWrite
<1>6. CASE CreateChunk(c)
  BY <1>6, Zenon DEF CreateChunk
<1> QED
  BY <1>1, <1>2, <1>3, <1>4, <1>5, <1>6, Zenon

LEMMA DeleteQuiet ==
    ASSUME IInv, NEW c \in Chunks,
           DeleteChunk(c) \/ WriteRest(c) \/ UpdateStatus(c)
    PROVE  Quiet
<1> USE Facts DEF IInv, PutTypes, Quiet, Putting, Shared, Goto, Begin, Fault, MetaFault, Dirty, fileVars, ChunkPcs
<1>1. CASE DeleteChunk(c)
  BY <1>1, Zenon DEF DeleteChunk
<1>2. CASE WriteRest(c)
  BY <1>2 DEF WriteRest
<1>3. CASE UpdateStatus(c)
  BY <1>3, Zenon DEF UpdateStatus
<1> QED
  BY <1>1, <1>2, <1>3, Zenon

LEMMA OtherQuiet ==
    ASSUME IInv,
           \/ \E h \in Hashes : TouchRead(h) \/ TouchWrite(h)
           \/ GcStart \/ GcList \/ GcAbort \/ GcSweep \/ GcCleanTrash \/ \E c \in Chunks : GcMark(c)
           \/ \E p \in Procs : DeleteMeta(p)
           \/ EmptyTrash \/ TimePasses
    PROVE  Quiet
<1> USE Facts DEF IInv, PutTypes, Quiet, Putting, Shared, Goto, Begin, Fault, MetaFault, Dirty, fileVars, gcVars, GcPcs
<1>1. ASSUME NEW h \in Hashes, TouchRead(h) \/ TouchWrite(h) PROVE Quiet
  BY <1>1, Zenon DEF TouchRead, TouchWrite
<1>2. CASE GcStart
  BY <1>2, Zenon DEF GcStart
<1>3. CASE GcList \/ GcAbort
  BY <1>3, Zenon DEF GcList, GcAbort
<1>4. CASE GcSweep
  BY <1>4, ZenonT(60) DEF GcSweep
<1>5. CASE GcCleanTrash
  BY <1>5, Zenon DEF GcCleanTrash
<1>6. ASSUME NEW c \in Chunks, GcMark(c) PROVE Quiet
  BY <1>6, ZenonT(60) DEF GcMark
<1>7. ASSUME NEW p \in Procs, DeleteMeta(p) PROVE Quiet
  BY <1>7, Zenon DEF DeleteMeta, ChunkPcs
<1>8. CASE EmptyTrash \/ TimePasses
  BY <1>8, Zenon DEF EmptyTrash, TimePasses
<1> QED
  BY <1>1, <1>2, <1>3, <1>4, <1>5, <1>6, <1>7, <1>8, Zenon

-----------------------------------------------------------------------------
\* The second Put between os.Create and os.Rename is noticed.
LEMMA CreateStep == ASSUME IInv, NEW c \in Chunks, PutCreate(c) PROVE IInv'
<1> DEFINE h == HashOf[c]
<1>0. h \in Hashes /\ c \in Procs
  BY Facts, Zenon
<1>a. CASE Faults /\ pc' = [pc EXCEPT ![c] = "idle"] /\ UNCHANGED <<temp, fd, history>>
  BY <1>0, <1>a, QuietStep DEF PutCreate, Quiet, IInv, PutTypes, Putting, ChunkPcs
<1> SUFFICES ASSUME ~(Faults /\ pc' = [pc EXCEPT ![c] = "idle"] /\ UNCHANGED <<temp, fd, history>>)
             PROVE  IInv'
  BY <1>a, Zenon
<1>1. /\ temp' = [temp EXCEPT ![h] = "empty"] /\ blob' = blob
      /\ fd' = [fd EXCEPT ![c] = "temp"]
      /\ pc' = [pc EXCEPT ![c] = "write"]
      /\ history' = [history EXCEPT ![h] =
           IF @ # "broken" /\ \E b \in Chunks : HashOf[b] = h /\ Putting(b) THEN "overlapped" ELSE @]
  BY Zenon DEF PutCreate, Goto, Putting
<1>2. PutTypes'
  BY <1>0, <1>1, Zenon DEF IInv, PutTypes, Files, ChunkPcs
<1>3. WholeInv'
  BY <1>0, <1>1, Zenon DEF IInv, PutTypes, WholeInv, Shared
<1>4. ASSUME NEW b \in Chunks, Putting(b)', history'[HashOf[b]] \notin Shared
      PROVE  /\ \A a \in Chunks : Putting(a)' /\ HashOf[a] = HashOf[b] => a = b
             /\ pc'[b] = "write" => fd'[b] = "temp"
             /\ pc'[b] = "rename" => temp'[HashOf[b]] = "whole"
  <2>1. CASE b = c
    BY <1>0, <1>1, <1>4, <2>1, Facts, Zenon DEF IInv, PutTypes, Putting, Shared
  <2>2. CASE b # c
    <3>1. Putting(b) /\ history[HashOf[b]] \notin Shared /\ HashOf[b] # h
      BY <1>0, <1>1, <1>4, <2>2, Facts, Zenon DEF IInv, PutTypes, Putting, Shared
    <3> QED
      BY <1>0, <1>1, <2>2, <3>1, Facts DEF IInv, PutTypes, PutInv, Putting
  <2> QED
    BY <2>1, <2>2, Zenon
<1> QED
  BY <1>2, <1>3, <1>4, Zenon DEF IInv, PutInv

\* A Put that fails removes the temp file, which no other Put of its hash uses.
LEMMA RemoveTempStep ==
    ASSUME IInv, NEW c \in Chunks, Putting(c), RemoveTemp(c), blob' = blob,
           history' \in [Hashes -> {"clean", "dirty", "overlapped", "broken"}],
           \A h \in Hashes : history[h] \in Shared => history'[h] \in Shared
    PROVE  IInv'
<1> DEFINE h == HashOf[c]
<1> USE Facts DEF Goto
<1>1. /\ h \in Hashes /\ c \in Procs
      /\ temp' = [temp EXCEPT ![h] = "none"]
      /\ pc' = [pc EXCEPT ![c] = "idle"]
      /\ fd' \in [Chunks -> {"none", "temp", "blob", "lost"}]
      /\ \A b \in Chunks : HashOf[b] # h => fd'[b] = fd[b]
  BY Zenon DEF RemoveTemp, Moved, IInv, PutTypes
<1>2. PutTypes'
  BY <1>1, Zenon DEF IInv, PutTypes, Files, ChunkPcs
<1>3. WholeInv'
  BY <1>1, Zenon DEF IInv, PutTypes, WholeInv
<1>4. PutInv'
  BY <1>1 DEF IInv, PutTypes, PutInv, Putting
<1> QED
  BY <1>2, <1>3, <1>4, Zenon DEF IInv

\* The only Put of a hash writes to the temp file and to nothing else.
LEMMA WriteStep == ASSUME IInv, NEW c \in Chunks, PutWrite(c) PROVE IInv'
<1> DEFINE h == HashOf[c]
<1> USE Facts DEF Goto
<1>0. /\ h \in Hashes /\ c \in Procs /\ pc[c] = "write"
      /\ history' \in [Hashes -> {"clean", "dirty", "overlapped", "broken"}]
      /\ \A g \in Hashes : history[g] \in Shared => history'[g] \in Shared
  BY Zenon DEF PutWrite, IInv, PutTypes, Shared
<1>1. CASE /\ temp' = [temp EXCEPT ![h] = IF fd[c] = "temp" THEN "whole" ELSE @]
           /\ blob' = [blob EXCEPT ![h] = IF fd[c] = "blob" THEN "whole" ELSE @]
           /\ fd' = [fd EXCEPT ![c] = "none"]
           /\ pc' = [pc EXCEPT ![c] = "rename"]
           /\ history' = history
  <2>1. PutTypes'
    BY <1>0, <1>1, Zenon DEF IInv, PutTypes, Files, ChunkPcs
  <2>2. WholeInv'
    BY <1>0, <1>1, Zenon DEF IInv, PutTypes, WholeInv
  <2>3. PutInv'
    BY <1>0, <1>1 DEF IInv, PutTypes, PutInv, Putting
  <2> QED
    BY <2>1, <2>2, <2>3, Zenon DEF IInv
<1>2. CASE RemoveTemp(c) /\ blob' = blob
  BY <1>0, <1>2, RemoveTempStep, Zenon DEF Putting
<1> QED
  BY <1>1, <1>2, Zenon DEF PutWrite

\* What the only Put of a hash renames is whole.
LEMMA RenameStep == ASSUME IInv, NEW c \in Chunks, PutRename(c) PROVE IInv'
<1> DEFINE h == HashOf[c]
<1> USE Facts DEF Goto
<1>0. h \in Hashes /\ c \in Procs /\ pc[c] = "rename" /\ history' = history
  BY Zenon DEF PutRename
<1>1. CASE RemoveTemp(c) /\ blob' = blob
  BY <1>0, <1>1, RemoveTempStep, Zenon DEF Putting, IInv, PutTypes
<1>2. CASE ~(RemoveTemp(c) /\ blob' = blob)
  <2>1. /\ blob' = [blob EXCEPT ![h] = temp[h]]
        /\ temp' = [temp EXCEPT ![h] = "none"]
        /\ pc' = [pc EXCEPT ![c] = "meta"]
        /\ fd' \in [Chunks -> {"none", "temp", "blob", "lost"}]
        /\ \A b \in Chunks : HashOf[b] # h => fd'[b] = fd[b]
    BY <1>2 DEF PutRename, Moved, IInv, PutTypes
  <2>2. PutTypes'
    BY <1>0, <2>1, Zenon DEF IInv, PutTypes, Files, ChunkPcs
  <2>3. history[h] \notin Shared => temp[h] = "whole"
    BY <1>0, Zenon DEF IInv, PutInv, Putting
  <2>4. WholeInv'
    BY <1>0, <2>1, <2>3, Zenon DEF IInv, PutTypes, WholeInv
  <2>5. PutInv'
    BY <1>0, <2>1 DEF IInv, PutTypes, PutInv, Putting
  <2> QED
    BY <2>2, <2>4, <2>5, Zenon DEF IInv
<1> QED
  BY <1>1, <1>2, Zenon

\* Delete takes the blob and leaves the temp file.
LEMMA DeleteStep == ASSUME IInv, NEW p \in Procs, DeleteBlob(p) PROVE IInv'
<1> USE Facts DEF Goto
<1>1. /\ temp' = temp /\ history' = history /\ pc[p] = "delete"
      /\ \E l \in {"sweep", "idle", "deletemeta"} : pc' = [pc EXCEPT ![p] = l]
      /\ fd' \in [Chunks -> {"none", "temp", "blob", "lost"}]
      /\ \A c \in Chunks : fd[c] = "temp" => fd'[c] = "temp"
      /\ blob' = blob \/ blob' = [blob EXCEPT ![At(p)] = "none"]
  BY ZenonT(60) DEF DeleteBlob, Moved, IInv, PutTypes, fileVars
<1>2. PutTypes'
  BY <1>1 DEF IInv, PutTypes, Files, ChunkPcs, GcPcs
<1>3. WholeInv'
  BY <1>1, Zenon DEF IInv, PutTypes, WholeInv
<1>4. PutInv'
  BY <1>1 DEF IInv, PutTypes, PutInv, Putting
<1> QED
  BY <1>2, <1>3, <1>4, Zenon DEF IInv

\* After a crash no Put is under way.
LEMMA RestartStep == ASSUME IInv, Restart PROVE IInv'
<1>1. /\ UNCHANGED <<temp, blob>>
      /\ pc' = [p \in Procs |-> "idle"] /\ fd' = [c \in Chunks |-> "none"]
      /\ history' \in [Hashes -> {"clean", "dirty", "overlapped", "broken"}]
      /\ \A h \in Hashes : history[h] \in Shared => history'[h] \in Shared
  BY Zenon DEF Restart, Dirty, fileVars, IInv, PutTypes, Shared
<1>2. PutTypes'
  BY <1>1, Zenon DEF IInv, PutTypes, ChunkPcs
<1>3. WholeInv'
  BY <1>1, Zenon DEF IInv, PutTypes, WholeInv
<1>4. PutInv'
  BY <1>1, Facts, Zenon DEF PutInv, Putting
<1> QED
  BY <1>2, <1>3, <1>4, Zenon DEF IInv

-----------------------------------------------------------------------------
\* No step of a call, of the collector or of a crash breaks the invariant.
THEOREM Invariance == Spec => []IInv
<1>1. ASSUME IInv, [Next]_vars PROVE IInv'
  <2>1. ASSUME NEW c \in Chunks, Ingest(c) PROVE IInv'
    BY <1>1, <2>1, IngestQuiet, QuietStep, CreateStep, WriteStep, RenameStep, Zenon DEF Ingest
  <2>2. ASSUME NEW c \in Chunks, Delete(c) PROVE IInv'
    BY <1>1, <2>2, DeleteQuiet, OtherQuiet, QuietStep, DeleteStep, Facts, Zenon DEF Delete
  <2>3. ASSUME NEW h \in Hashes, TouchRead(h) \/ TouchWrite(h) PROVE IInv'
    BY <1>1, <2>3, OtherQuiet, QuietStep, Zenon
  <2>4. CASE Collect
    BY <1>1, <2>4, OtherQuiet, QuietStep, DeleteStep, Facts, Zenon DEF Collect
  <2>5. CASE EmptyTrash \/ TimePasses
    BY <1>1, <2>5, OtherQuiet, QuietStep, Zenon
  <2>6. CASE Restart
    BY <1>1, <2>6, RestartStep, Zenon
  <2>7. CASE UNCHANGED vars
    BY <1>1, <2>7, QuietStep, Zenon DEF vars, fileVars, Quiet, IInv, PutTypes, Putting
  <2> QED
    BY <1>1, <2>1, <2>2, <2>3, <2>4, <2>5, <2>6, <2>7, Zenon DEF Next
<1> QED
  BY InitIInv, <1>1, PTL DEF Spec

-----------------------------------------------------------------------------
(* Puts that overlap *)

\* A file is open only until it is written.  A temp file that is truncated is open,
\* or nobody is to rename it; a blob that is not whole is open, unless who was
\* writing it ended.
OpenInv ==
    /\ \A c \in Chunks : fd[c] \in {"temp", "blob"} => pc[c] = "write"
    /\ \A h \in Hashes : temp[h] = "empty" =>
         \/ \E c \in Chunks : HashOf[c] = h /\ fd[c] = "temp"
         \/ \A c \in Chunks : HashOf[c] = h => ~Putting(c)
    /\ \A h \in Hashes : blob[h] = "empty" => history[h] = "broken" \/ \E c \in Chunks : Writing(h, c)

LEMMA StillOpen == OpenInv /\ Quiet => OpenInv'
<1> SUFFICES ASSUME OpenInv, Quiet PROVE OpenInv'
  BY Zenon
<1>1. \A c \in Chunks : fd'[c] \in {"temp", "blob"} => pc'[c] = "write"
  BY Zenon DEF OpenInv, Quiet, Putting
<1>2. ASSUME NEW h \in Hashes, temp'[h] = "empty"
      PROVE  \/ \E c \in Chunks : HashOf[c] = h /\ fd'[c] = "temp"
             \/ \A c \in Chunks : HashOf[c] = h => ~Putting(c)'
  BY <1>2, Zenon DEF OpenInv, Quiet, Putting
<1>3. ASSUME NEW h \in Hashes, blob'[h] = "empty"
      PROVE  history'[h] = "broken" \/ \E c \in Chunks : Writing(h, c)'
  <2>1. \A c \in Chunks : Writing(h, c) => HashOf[c] = h /\ fd'[c] = "blob" /\ pc'[c] = "write"
    BY Zenon DEF Quiet, Writing, Putting
  <2>2. history[h] = "broken" => history'[h] = "broken"
    BY Zenon DEF Quiet, Shared
  <2>3. blob[h] = "empty"
    BY <1>3, Zenon DEF Quiet
  <2>4. CASE history[h] = "broken"
    BY <2>2, <2>4, Zenon
  <2>5. CASE history[h] # "broken"
    <3>1. PICK w \in Chunks : Writing(h, w)
      BY <2>3, <2>5, Zenon DEF OpenInv
    <3>2. Writing(h, w)'
      BY <2>1, <3>1, Zenon DEF Writing
    <3> QED
      BY <3>2, Zenon DEF Writing
  <2> QED
    BY <2>4, <2>5, Zenon
<1> QED
  BY <1>1, <1>2, <1>3, Zenon DEF OpenInv

\* A Put that creates the temp file has it open.
LEMMA CreateOpen == ASSUME IInv, OpenInv, NEW c \in Chunks, PutCreate(c) PROVE OpenInv'
<1> DEFINE h == HashOf[c]
<1>0. h \in Hashes /\ c \in Procs /\ pc[c] = "create" /\ blob' = blob
  BY Facts, Zenon DEF PutCreate
<1>a. CASE Faults /\ pc' = [pc EXCEPT ![c] = "idle"] /\ UNCHANGED <<temp, fd, history>>
  BY <1>0, <1>a, StillOpen DEF Quiet, IInv, PutTypes, Putting, ChunkPcs
<1>b. CASE ~(Faults /\ pc' = [pc EXCEPT ![c] = "idle"] /\ UNCHANGED <<temp, fd, history>>)
  <2>1. /\ temp' = [temp EXCEPT ![h] = "empty"] /\ fd' = [fd EXCEPT ![c] = "temp"]
        /\ pc' = [pc EXCEPT ![c] = "write"]
        /\ \A g \in Hashes : history[g] = "broken" => history'[g] = "broken"
    BY <1>b, Zenon DEF PutCreate, Goto, IInv, PutTypes
  <2>2. /\ fd'[c] = "temp" /\ pc'[c] = "write"
        /\ \A b \in Chunks \ {c} : fd'[b] = fd[b] /\ pc'[b] = pc[b]
        /\ \A g \in Hashes \ {h} : temp'[g] = temp[g]
    BY <1>0, <2>1, Facts, Zenon DEF IInv, PutTypes
  <2>3. \A b \in Chunks : fd'[b] \in {"temp", "blob"} => pc'[b] = "write"
    BY <2>2, Zenon DEF OpenInv
  <2>4. ASSUME NEW g \in Hashes, temp'[g] = "empty"
        PROVE  \/ \E b \in Chunks : HashOf[b] = g /\ fd'[b] = "temp"
               \/ \A b \in Chunks : HashOf[b] = g => ~Putting(b)'
    <3>1. CASE g = h
      BY <2>2, <3>1, Zenon
    <3>2. CASE g # h
      BY <1>0, <2>2, <2>4, <3>2 DEF OpenInv, Putting
    <3> QED
      BY <3>1, <3>2, Zenon
  <2>5. ASSUME NEW g \in Hashes, blob'[g] = "empty"
        PROVE  history'[g] = "broken" \/ \E b \in Chunks : Writing(g, b)'
    <3>1. ASSUME NEW b \in Chunks, Writing(g, b) PROVE Writing(g, b)'
      BY <1>0, <2>2, <3>1, Zenon DEF Writing
    <3> QED
      BY <1>0, <2>1, <2>5, <3>1, Zenon DEF OpenInv
  <2> QED
    BY <2>3, <2>4, <2>5, Zenon DEF OpenInv
<1> QED
  BY <1>a, <1>b, Zenon

\* A Put that fails takes the temp file away; if it was writing to the blob, the
\* history says so.
LEMMA RemoveTempOpen ==
    ASSUME IInv, OpenInv, NEW c \in Chunks, Putting(c), RemoveTemp(c), blob' = blob,
           \A g \in Hashes : history[g] = "broken" => history'[g] = "broken",
           Writing(HashOf[c], c) => history'[HashOf[c]] = "broken"
    PROVE  OpenInv'
<1> DEFINE h == HashOf[c]
<1>0. h \in Hashes /\ c \in Procs
  BY Facts, Zenon
<1>1. /\ temp' = [temp EXCEPT ![h] = "none"]
      /\ fd' = [[b \in Chunks |-> IF HashOf[b] = h /\ fd[b] = "temp" THEN "lost" ELSE fd[b]]
                  EXCEPT ![c] = "none"]
      /\ pc' = [pc EXCEPT ![c] = "idle"]
  BY Zenon DEF RemoveTemp, Moved, Goto
<1>2. /\ fd'[c] = "none" /\ temp'[h] = "none" /\ pc'[c] = "idle"
      /\ \A b \in Chunks \ {c} : pc'[b] = pc[b]
      /\ \A b \in Chunks \ {c} : fd'[b] = IF HashOf[b] = h /\ fd[b] = "temp" THEN "lost" ELSE fd[b]
      /\ \A g \in Hashes \ {h} : temp'[g] = temp[g]
  BY <1>0, <1>1, Facts, Zenon DEF IInv, PutTypes
<1>3. \A b \in Chunks : fd'[b] \in {"temp", "blob"} => pc'[b] = "write"
  BY <1>2, Zenon DEF OpenInv
<1>4. ASSUME NEW g \in Hashes, temp'[g] = "empty"
      PROVE  \/ \E b \in Chunks : HashOf[b] = g /\ fd'[b] = "temp"
             \/ \A b \in Chunks : HashOf[b] = g => ~Putting(b)'
  <2>1. g # h /\ temp[g] = "empty"
    BY <1>2, <1>4, Zenon
  <2> QED
    BY <1>2, <2>1 DEF OpenInv, Putting
<1>5. ASSUME NEW g \in Hashes, blob'[g] = "empty"
      PROVE  history'[g] = "broken" \/ \E b \in Chunks : Writing(g, b)'
  <2>1. ASSUME NEW b \in Chunks, Writing(g, b) PROVE history'[g] = "broken" \/ Writing(g, b)'
    <3>1. CASE b = c
      BY <2>1, <3>1, Zenon DEF Writing
    <3>2. CASE b # c
      BY <1>2, <2>1, <3>2, Zenon DEF Writing
    <3> QED
      BY <3>1, <3>2, Zenon
  <2> QED
    BY <1>5, <2>1, Zenon DEF OpenInv
<1> QED
  BY <1>3, <1>4, <1>5, Zenon DEF OpenInv

\* A Put that writes closes what it has written.
LEMMA WriteOpen == ASSUME IInv, OpenInv, NEW c \in Chunks, PutWrite(c) PROVE OpenInv'
<1> DEFINE h == HashOf[c]
<1>0. h \in Hashes /\ c \in Procs /\ pc[c] = "write" /\ Putting(c)
  BY Facts, Zenon DEF PutWrite, Putting
<1>1. CASE /\ RemoveTemp(c)
           /\ history' = [history EXCEPT ![h] = IF Writing(h, c) THEN "broken" ELSE @]
           /\ UNCHANGED blob
  <2>1. /\ \A g \in Hashes : history[g] = "broken" => history'[g] = "broken"
        /\ Writing(HashOf[c], c) => history'[HashOf[c]] = "broken"
    BY <1>0, <1>1, Zenon DEF IInv, PutTypes
  <2> QED
    BY <1>0, <1>1, <2>1, RemoveTempOpen, Zenon
<1>2. CASE /\ temp' = [temp EXCEPT ![h] = IF fd[c] = "temp" THEN "whole" ELSE @]
           /\ blob' = [blob EXCEPT ![h] = IF fd[c] = "blob" THEN "whole" ELSE @]
           /\ fd' = [fd EXCEPT ![c] = "none"]
           /\ Goto(c, "rename")
           /\ UNCHANGED history
  <2>1. /\ fd'[c] = "none" /\ pc'[c] = "rename"
        /\ \A b \in Chunks \ {c} : fd'[b] = fd[b] /\ pc'[b] = pc[b]
        /\ temp'[h] = IF fd[c] = "temp" THEN "whole" ELSE temp[h]
        /\ blob'[h] = IF fd[c] = "blob" THEN "whole" ELSE blob[h]
        /\ \A g \in Hashes \ {h} : temp'[g] = temp[g] /\ blob'[g] = blob[g]
    BY <1>0, <1>2, Facts, Zenon DEF IInv, PutTypes, Goto
  <2>2. \A b \in Chunks : fd'[b] \in {"temp", "blob"} => pc'[b] = "write"
    BY <2>1, Zenon DEF OpenInv
  <2>3. ASSUME NEW g \in Hashes, temp'[g] = "empty"
        PROVE  \/ \E b \in Chunks : HashOf[b] = g /\ fd'[b] = "temp"
               \/ \A b \in Chunks : HashOf[b] = g => ~Putting(b)'
    <3>1. CASE g = h
      <4>1. temp[h] = "empty" /\ fd[c] # "temp"
        BY <2>1, <2>3, <3>1, Zenon
      <4>2. PICK b \in Chunks : HashOf[b] = h /\ fd[b] = "temp"
        BY <1>0, <4>1, Zenon DEF OpenInv
      <4> QED
        BY <2>1, <3>1, <4>1, <4>2, Zenon
    <3>2. CASE g # h
      BY <2>1, <2>3, <3>2 DEF OpenInv, Putting
    <3> QED
      BY <3>1, <3>2, Zenon
  <2>4. ASSUME NEW g \in Hashes, blob'[g] = "empty"
        PROVE  history'[g] = "broken" \/ \E b \in Chunks : Writing(g, b)'
    <3>1. blob[g] = "empty" /\ (g = h => fd[c] # "blob")
      BY <2>1, <2>4, Zenon
    <3>2. ASSUME NEW b \in Chunks, Writing(g, b) PROVE Writing(g, b)'
      BY <2>1, <3>1, <3>2, Zenon DEF Writing
    <3> QED
      BY <1>2, <3>1, <3>2, Zenon DEF OpenInv
  <2> QED
    BY <2>2, <2>3, <2>4, Zenon DEF OpenInv
<1> QED
  BY <1>1, <1>2, Zenon DEF PutWrite

\* Who has the temp file open has the blob open once it is renamed.
LEMMA RenameOpen == ASSUME IInv, OpenInv, NEW c \in Chunks, PutRename(c) PROVE OpenInv'
<1> DEFINE h == HashOf[c]
<1>0. h \in Hashes /\ c \in Procs /\ pc[c] = "rename" /\ Putting(c) /\ history' = history
  BY Facts, Zenon DEF PutRename, Putting
<1>1. CASE RemoveTemp(c) /\ blob' = blob
  <2>1. ~Writing(HashOf[c], c)
    BY <1>0, Zenon DEF Writing
  <2> QED
    BY <1>0, <1>1, <2>1, RemoveTempOpen, Zenon
<1>2. CASE /\ blob' = [blob EXCEPT ![h] = temp[h]]
           /\ temp' = [temp EXCEPT ![h] = "none"]
           /\ fd' = [b \in Chunks |-> IF HashOf[b] = h /\ fd[b] = "temp" THEN "blob"
                                     ELSE Moved(h, "blob", "lost")[b]]
           /\ Goto(c, "meta")
  <2>1. /\ blob'[h] = temp[h] /\ temp'[h] = "none" /\ pc'[c] = "meta"
        /\ \A b \in Chunks \ {c} : pc'[b] = pc[b]
        /\ \A b \in Chunks : HashOf[b] = h /\ fd[b] = "temp" => fd'[b] = "blob"
        /\ \A b \in Chunks : HashOf[b] = h /\ fd[b] = "blob" => fd'[b] = "lost"
        /\ \A b \in Chunks : HashOf[b] # h \/ fd[b] \notin {"temp", "blob"} => fd'[b] = fd[b]
        /\ \A g \in Hashes \ {h} : temp'[g] = temp[g] /\ blob'[g] = blob[g]
    BY <1>0, <1>2, Facts, Zenon DEF IInv, PutTypes, Goto, Moved
  <2>2. \A b \in Chunks : fd[b] \in {"temp", "blob"} => pc'[b] = "write"
    BY <1>0, <2>1, Zenon DEF OpenInv
  <2>3. \A b \in Chunks : fd'[b] \in {"temp", "blob"} => pc'[b] = "write"
    BY <2>1, <2>2, Zenon
  <2>4. ASSUME NEW g \in Hashes, temp'[g] = "empty"
        PROVE  \/ \E b \in Chunks : HashOf[b] = g /\ fd'[b] = "temp"
               \/ \A b \in Chunks : HashOf[b] = g => ~Putting(b)'
    <3>1. g # h /\ temp[g] = "empty"
      BY <2>1, <2>4, Zenon
    <3> QED
      BY <2>1, <3>1 DEF OpenInv, Putting
  <2>5. ASSUME NEW g \in Hashes, blob'[g] = "empty"
        PROVE  history'[g] = "broken" \/ \E b \in Chunks : Writing(g, b)'
    <3>1. CASE g = h
      <4>1. PICK b \in Chunks : HashOf[b] = h /\ fd[b] = "temp"
        BY <1>0, <2>1, <2>5, <3>1, Zenon DEF OpenInv
      <4> QED
        BY <2>1, <2>2, <3>1, <4>1, Zenon DEF Writing
    <3>2. CASE g # h
      <4>1. ASSUME NEW b \in Chunks, Writing(g, b) PROVE Writing(g, b)'
        BY <2>1, <2>2, <3>2, <4>1, Zenon DEF Writing
      <4> QED
        BY <1>0, <2>1, <2>5, <3>2, <4>1, Zenon DEF OpenInv
    <3> QED
      BY <3>1, <3>2, Zenon
  <2> QED
    BY <2>3, <2>4, <2>5, Zenon DEF OpenInv
<1> QED
  BY <1>1, <1>2, Zenon DEF PutRename

\* A blob that goes to the trash is no blob any more.
LEMMA DeleteOpen == ASSUME IInv, OpenInv, NEW p \in Procs, DeleteBlob(p) PROVE OpenInv'
<1>1. /\ temp' = temp /\ history' = history /\ pc[p] = "delete"
      /\ \E l \in {"sweep", "idle", "deletemeta"} : pc' = [pc EXCEPT ![p] = l]
      /\ \A c \in Chunks : fd'[c] = fd[c] \/ (fd[c] = "blob" /\ fd'[c] = "lost" /\ HashOf[c] = At(p))
      /\ \/ blob' = blob /\ fd' = fd
         \/ blob' = [blob EXCEPT ![At(p)] = "none"]
  BY ZenonT(60) DEF DeleteBlob, Moved, IInv, PutTypes, fileVars, Goto
<1>2. \A c \in Chunks : pc[c] # "delete" => pc'[c] = pc[c]
  BY <1>1, Facts, Zenon DEF IInv, PutTypes
<1>3. \A c \in Chunks : pc'[c] # pc[c] => pc'[c] \in {"sweep", "idle", "deletemeta"}
  BY <1>1, Facts, Zenon DEF IInv, PutTypes
<1>4. \A c \in Chunks : fd'[c] \in {"temp", "blob"} => pc'[c] = "write"
  BY <1>1, <1>2, Zenon DEF OpenInv
<1>5. ASSUME NEW g \in Hashes, temp'[g] = "empty"
      PROVE  \/ \E b \in Chunks : HashOf[b] = g /\ fd'[b] = "temp"
             \/ \A b \in Chunks : HashOf[b] = g => ~Putting(b)'
  <2>1. \A b \in Chunks : Putting(b)' => Putting(b)
    BY <1>3, Zenon DEF Putting
  <2>2. \A b \in Chunks : fd[b] = "temp" => fd'[b] = "temp"
    BY <1>1, Zenon
  <2> QED
    BY <1>1, <1>5, <2>1, <2>2 DEF OpenInv, Putting
<1>6. ASSUME NEW g \in Hashes, blob'[g] = "empty"
      PROVE  history'[g] = "broken" \/ \E b \in Chunks : Writing(g, b)'
  <2>1. blob[g] = "empty" /\ (g # At(p) \/ fd' = fd)
    BY <1>1, <1>6, Zenon DEF IInv, PutTypes
  <2>2. ASSUME NEW b \in Chunks, Writing(g, b) PROVE Writing(g, b)'
    BY <1>1, <1>2, <2>1, <2>2, Zenon DEF Writing
  <2> QED
    BY <1>1, <2>1, <2>2, Zenon DEF OpenInv
<1> QED
  BY <1>4, <1>5, <1>6, Zenon DEF OpenInv

LEMMA RestartOpen == ASSUME IInv, OpenInv, Restart PROVE OpenInv'
<1>1. /\ UNCHANGED <<temp, blob>>
      /\ pc' = [p \in Procs |-> "idle"] /\ fd' = [c \in Chunks |-> "none"]
      /\ \A h \in Hashes : history[h] = "broken" => history'[h] = "broken"
      /\ \A h \in Hashes : (\E c \in Chunks : Writing(h, c)) => history'[h] = "broken"
  BY Zenon DEF Restart, Dirty, fileVars, IInv, PutTypes
<1>2. \A c \in Chunks : fd'[c] = "none" /\ ~Putting(c)'
  BY <1>1, Facts, Zenon DEF Putting
<1>3. \A h \in Hashes : blob'[h] = "empty" => history'[h] = "broken"
  BY <1>1, Zenon DEF OpenInv
<1> QED
  BY <1>2, <1>3, Zenon DEF OpenInv

LEMMA OpenStep == ASSUME IInv, OpenInv, [Next]_vars PROVE OpenInv'
<1>1. ASSUME NEW c \in Chunks, Ingest(c) PROVE OpenInv'
  BY <1>1, IngestQuiet, StillOpen, CreateOpen, WriteOpen, RenameOpen, Zenon DEF Ingest
<1>2. ASSUME NEW c \in Chunks, Delete(c) PROVE OpenInv'
  BY <1>2, DeleteQuiet, OtherQuiet, StillOpen, DeleteOpen, Facts, Zenon DEF Delete
<1>3. ASSUME NEW h \in Hashes, TouchRead(h) \/ TouchWrite(h) PROVE OpenInv'
  BY <1>3, OtherQuiet, StillOpen, Zenon
<1>4. CASE Collect
  BY <1>4, OtherQuiet, StillOpen, DeleteOpen, Facts, Zenon DEF Collect
<1>5. CASE EmptyTrash \/ TimePasses
  BY <1>5, OtherQuiet, StillOpen, Zenon
<1>6. CASE Restart
  BY <1>6, RestartOpen, Zenon
<1>7. CASE UNCHANGED vars
  BY <1>7, StillOpen, Zenon DEF vars, fileVars, Quiet, IInv, PutTypes, Putting
<1> QED
  BY <1>1, <1>2, <1>3, <1>4, <1>5, <1>6, <1>7, Zenon DEF Next

\* A blob that can be read is whole, or the Puts of its hash overlapped and the one
\* that has truncated it is still to write it, or ended before it did.
THEOREM PublishedBlobsAreWhole == Spec => []RenamePublishesWholeBlobs
<1>1. IInv /\ OpenInv /\ [Next]_vars => OpenInv'
  BY OpenStep, Zenon
<1>2. Init => OpenInv
  BY Zenon DEF Init, OpenInv
<1>3. ASSUME IInv, OpenInv PROVE RenamePublishesWholeBlobs
  <2>1. ASSUME NEW h \in Hashes, blob[h] = "empty", history[h] # "broken"
        PROVE  history[h] = "overlapped" /\ \E c \in Chunks : Writing(h, c)
    BY <1>3, <2>1, Zenon DEF IInv, WholeInv, Shared, OpenInv
  <2> QED
    BY <2>1, Zenon DEF RenamePublishesWholeBlobs
<1> QED
  BY Invariance, <1>1, <1>2, <1>3, PTL DEF Spec

-----------------------------------------------------------------------------
(* Types *)

\* A call that is about to add its reference has read the metadata.
TypeInv ==
    /\ TypeOK
    /\ \A c \in Chunks : pc[c] = "addref" => reg[c] # NoMeta

\* What the calls make of metadata is metadata.
LEMMA NoMetaIsMetadata == NoMeta \in Metadata
  BY Zenon DEF Metadata

LEMMA MetadataFacts ==
    /\ \A m \in Metadata : m # NoMeta => [m EXCEPT !.old = TRUE] \in Metadata /\ m.old \in BOOLEAN
    /\ \A m \in Metadata, c \in Chunks :
         m # NoMeta => /\ [m EXCEPT !.refs = @ \cup {c}] \in Metadata
                       /\ [m EXCEPT !.refs = m.refs \ {c}] \in Metadata
    /\ \A c \in Chunks : [refs |-> {c}, old |-> FALSE] \in Metadata
  BY Zenon DEF Metadata

LEMMA MetaFaultTypes ==
    ASSUME TypeInv, NEW h \in Hashes, MetaFault(h)
    PROVE  /\ meta' \in [Hashes -> Metadata]
           /\ history' \in [Hashes -> {"clean", "dirty", "overlapped", "broken"}]
<1>1. PICK m \in {meta[h], NoMeta} : meta' = [meta EXCEPT ![h] = m]
  BY Zenon DEF MetaFault
<1>2. m \in Metadata
  BY NoMetaIsMetadata DEF TypeInv, TypeOK
<1> QED
  BY <1>1, <1>2, Zenon DEF MetaFault, Fault, Dirty, TypeInv, TypeOK

Places == {"none", "temp", "blob", "lost"}

LEMMA MovedTypes ==
    ASSUME TypeInv, NEW h
    PROVE  /\ Moved(h, "temp", "lost") \in [Chunks -> Places]
           /\ Moved(h, "blob", "lost") \in [Chunks -> Places]
  BY Zenon DEF Moved, Places, TypeInv, TypeOK

LEMMA RemoveTempTypes ==
    ASSUME TypeInv, NEW c \in Chunks, RemoveTemp(c)
    PROVE  /\ temp' \in [Hashes -> Files]
           /\ fd' \in [Chunks -> Places]
           /\ pc' = [pc EXCEPT ![c] = "idle"]
<1>1. temp' \in [Hashes -> Files]
  BY Facts, Zenon DEF RemoveTemp, TypeInv, TypeOK, Files
<1>2. fd' \in [Chunks -> Places]
  BY MovedTypes, Zenon DEF RemoveTemp, Places
<1> QED
  BY <1>1, <1>2, Zenon DEF RemoveTemp, Goto

LEMMA IngestTypes ==
    ASSUME TypeInv, NEW c \in Chunks,
           Ingest(c)
    PROVE  TypeInv'
<1> USE Facts, NoMetaIsMetadata DEF TypeInv, TypeOK, Files, ChunkPcs, Goto, Begin, Fault, Dirty, fileVars, gcVars
<1>1. CASE IngestStart(c)
  BY <1>1, Zenon DEF IngestStart
<1>2. CASE PutStat(c)
  BY <1>2, Zenon DEF PutStat
<1>3. CASE PutCreate(c)
  <2>1. temp' \in [Hashes -> Files] /\ fd' \in [Chunks -> Places]
    BY <1>3 DEF PutCreate, Places
  <2>2. history' \in [Hashes -> {"clean", "dirty", "overlapped", "broken"}]
    BY <1>3 DEF PutCreate
  <2>3. pc' = [pc EXCEPT ![c] = "write"] \/ pc' = [pc EXCEPT ![c] = "idle"]
    BY <1>3, Zenon DEF PutCreate
  <2> QED
    BY <1>3, <2>1, <2>2, <2>3 DEF PutCreate, Places
<1>4. CASE PutWrite(c)
  <2>1. CASE RemoveTemp(c) /\ UNCHANGED blob
    BY <1>4, <2>1, RemoveTempTypes DEF PutWrite, Places
  <2>2. CASE ~(RemoveTemp(c) /\ UNCHANGED blob)
    BY <1>4, <2>2 DEF PutWrite
  <2> QED
    BY <2>1, <2>2, Zenon
<1>5. CASE PutRename(c)
  <2>1. CASE RemoveTemp(c) /\ UNCHANGED <<blob, blobOld>>
    BY <1>5, <2>1, RemoveTempTypes DEF PutRename, Places
  <2>2. CASE ~(RemoveTemp(c) /\ UNCHANGED <<blob, blobOld>>)
    <3>1. fd' \in [Chunks -> Places]
      BY <1>5, <2>2, MovedTypes DEF PutRename, Places
    <3>2. blobOld' \in [Hashes -> BOOLEAN] /\ blob' \in [Hashes -> Files]
      <4>1. temp[HashOf[c]] \in Files
        BY Zenon
      <4>2. /\ blob' = [blob EXCEPT ![HashOf[c]] = temp[HashOf[c]]]
            /\ blobOld' = [blobOld EXCEPT ![HashOf[c]] = FALSE]
        BY <1>5, <2>2, Zenon DEF PutRename
      <4> QED
        BY <4>1, <4>2, Zenon
    <3>3. temp' \in [Hashes -> Files] /\ pc' = [pc EXCEPT ![c] = "meta"]
      BY <1>5, <2>2 DEF PutRename
    <3> QED
      BY <1>5, <3>1, <3>2, <3>3 DEF PutRename, Places
  <2> QED
    BY <2>1, <2>2, Zenon
<1>6. CASE PutMeta(c)
  BY <1>6, MetaFaultTypes, MetadataFacts, ZenonT(90) DEF PutMeta
<1>7. CASE DedupRead(c)
  BY <1>7 DEF DedupRead
<1>8. CASE DedupWrite(c)
  <2>1. reg[c] \in Metadata /\ reg[c] # NoMeta
    BY <1>8, Zenon DEF DedupWrite
  <2>2. [reg[c] EXCEPT !.refs = @ \cup {c}] \in Metadata
    BY <2>1, MetadataFacts, Zenon
  <2>3. /\ meta' \in [Hashes -> Metadata]
        /\ history' \in [Hashes -> {"clean", "dirty", "overlapped", "broken"}]
    BY <1>8, <2>2, MetaFaultTypes DEF DedupWrite
  <2> QED
    BY <1>8, <2>3 DEF DedupWrite
<1>9. CASE CreateChunk(c)
  BY <1>9, ZenonT(60) DEF CreateChunk
<1> HIDE DEF TypeInv, TypeOK, Files, ChunkPcs, Goto, Begin, Fault, Dirty, fileVars, gcVars
<1> QED
  BY <1>1, <1>2, <1>3, <1>4, <1>5, <1>6, <1>7, <1>8, <1>9, ZenonT(60) DEF Ingest

LEMMA DeleteTypes ==
    ASSUME TypeInv, NEW c \in Chunks,
           DeleteChunk(c) \/ WriteRest(c) \/ UpdateStatus(c)
    PROVE  TypeInv'
<1> USE Facts, NoMetaIsMetadata DEF TypeInv, TypeOK, Files, ChunkPcs, Goto, Begin, Fault, Dirty, fileVars, gcVars
<1>1. CASE DeleteChunk(c)
  <2>1. meta[HashOf[c]] \in Metadata /\ meta[HashOf[c]] # NoMeta
    BY <1>1, Zenon DEF DeleteChunk
  <2>2. [meta[HashOf[c]] EXCEPT !.refs = meta[HashOf[c]].refs \ {c}] \in Metadata
    BY <2>1, MetadataFacts, Zenon
  <2>3. reg' \in [Chunks -> Metadata]
    BY <1>1, <2>2, ZenonT(90) DEF DeleteChunk
  <2> QED
    BY <1>1, <2>3 DEF DeleteChunk
<1>2. CASE WriteRest(c)
  BY <1>2, MetaFaultTypes DEF WriteRest
<1>3. CASE UpdateStatus(c)
  BY <1>3 DEF UpdateStatus
<1> HIDE DEF TypeInv, TypeOK, Files, ChunkPcs, Goto, Begin, Fault, Dirty, fileVars, gcVars
<1> QED
  BY <1>1, <1>2, <1>3, Zenon

LEMMA TrashTypes ==
    ASSUME TypeInv, NEW p \in Procs, DeleteBlob(p) \/ DeleteMeta(p)
    PROVE  TypeInv'
<1> USE Facts, NoMetaIsMetadata DEF TypeInv, TypeOK, Files, ChunkPcs, Goto, Begin, Fault, Dirty, fileVars, gcVars
<1>1. CASE DeleteBlob(p)
  <2>1. fd' \in [Chunks -> Places]
    BY <1>1, MovedTypes DEF DeleteBlob, Places
  <2>2. /\ trash' \in [Hashes -> BOOLEAN]
        /\ blobOld' \in [Hashes -> BOOLEAN]
        /\ trashOld' \in [Hashes -> BOOLEAN]
    <3>1. CASE UNCHANGED fileVars
      BY <3>1, Zenon
    <3>2. CASE ~UNCHANGED fileVars
      <4>1. /\ trash' = [trash EXCEPT ![At(p)] = TRUE]
            /\ blobOld' = [blobOld EXCEPT ![At(p)] = FALSE]
            /\ trashOld' = [trashOld EXCEPT ![At(p)] = blobOld[At(p)]]
        BY <1>1, <3>2, Zenon DEF DeleteBlob
      <4>2. CASE At(p) \in Hashes
        BY <4>1, <4>2, Zenon
      <4>3. CASE At(p) \notin Hashes
        BY <4>1, <4>3, Zenon
      <4> QED
        BY <4>2, <4>3, Zenon
    <3> QED
      BY <3>1, <3>2, Zenon
  <2> QED
    BY <1>1, <2>1, <2>2 DEF DeleteBlob, Places, GcPcs
<1>2. CASE DeleteMeta(p)
  BY <1>2 DEF DeleteMeta, GcPcs
<1> HIDE DEF TypeInv, TypeOK, Files, ChunkPcs, Goto, Begin, Fault, Dirty, fileVars, gcVars
<1> QED
  BY <1>1, <1>2, Zenon

LEMMA OtherTypes ==
    ASSUME TypeInv, 
           \/ \E h \in Hashes : TouchRead(h) \/ TouchWrite(h)
           \/ GcStart \/ GcList \/ GcAbort \/ GcSweep \/ GcCleanTrash \/ \E c \in Chunks : GcMark(c)
           \/ EmptyTrash \/ TimePasses \/ Restart
    PROVE  TypeInv'
<1> USE Facts, NoMetaIsMetadata DEF TypeInv, TypeOK, Files, ChunkPcs, Goto, Begin, Fault, Dirty, fileVars, gcVars, GcPcs
<1>1. ASSUME NEW h \in Hashes, TouchRead(h) PROVE TypeInv'
  BY <1>1, Zenon DEF TouchRead
<1>2. ASSUME NEW h \in Hashes, TouchWrite(h) PROVE TypeInv'
  BY <1>2, MetaFaultTypes DEF TouchWrite
<1>3. CASE GcStart
  BY <1>3 DEF GcStart
<1>4. CASE GcList
  <2>1. listed' \subseteq Hashes \X BOOLEAN
    <3>1. \A h \in Hashes : meta[h] # NoMeta => meta[h].old \in BOOLEAN
      BY MetadataFacts, Zenon
    <3> QED
      BY <1>4, <3>1 DEF GcList
  <2> QED
    BY <1>4, <2>1, Zenon DEF GcList
<1>5. CASE GcAbort
  BY <1>5, Zenon DEF GcAbort
<1>6. CASE GcSweep
  BY <1>6 DEF GcSweep
<1>7. CASE GcCleanTrash
  BY <1>7, Zenon DEF GcCleanTrash
<1>8. ASSUME NEW c \in Chunks, GcMark(c) PROVE TypeInv'
  BY <1>8 DEF GcMark
<1>9. CASE EmptyTrash
  BY <1>9, Zenon DEF EmptyTrash
<1>10. CASE TimePasses
  <2>1. blobOld' \in [Hashes -> BOOLEAN]
    BY <1>10, Zenon DEF TimePasses
  <2>2. meta' \in [Hashes -> Metadata]
    <3>1. \A h \in Hashes : meta[h] # NoMeta => [meta[h] EXCEPT !.old = TRUE] \in Metadata
      BY MetadataFacts, Zenon
    <3> QED
      BY <1>10, <3>1, Zenon DEF TimePasses
  <2> QED
    BY <1>10, <2>1, <2>2, Zenon DEF TimePasses
<1>11. CASE Restart
  BY <1>11, Zenon DEF Restart
<1> HIDE DEF TypeInv, TypeOK, Files, ChunkPcs, Goto, Begin, Fault, Dirty, fileVars, gcVars, GcPcs
<1> QED
  BY <1>1, <1>2, <1>3, <1>4, <1>5, <1>6, <1>7, <1>8, <1>9, <1>10, <1>11, ZenonT(60)

\* Files, rows and registers keep their types, and a call that adds its reference has
\* something to add it to.
THEOREM TypeInvariance == Spec => []TypeInv
<1>1. Init => TypeInv
  BY Facts DEF Init, TypeInv, TypeOK, Files, Metadata, ChunkPcs, GcPcs
<1>2. ASSUME TypeInv, [Next]_vars PROVE TypeInv'
  <2>1. ASSUME NEW c \in Chunks, Ingest(c) \/ Delete(c) PROVE TypeInv'
    BY <1>2, <2>1, IngestTypes, DeleteTypes, TrashTypes, Facts, Zenon DEF Delete
  <2>2. CASE Collect
    BY <1>2, <2>2, OtherTypes, TrashTypes, Facts, Zenon DEF Collect
  <2>3. CASE UNCHANGED vars
    BY <1>2, <2>3, Zenon DEF vars, fileVars, gcVars, TypeInv, TypeOK
  <2> QED
    BY <1>2, <2>1, <2>2, <2>3, OtherTypes, Zenon DEF Next
<1> QED
  BY <1>1, <1>2, PTL DEF Spec

\* TypeOK is invariant: no step leaves a file, a row or a register in a state that
\* the code does not know.
THEOREM TypesAreKept == Spec => []TypeOK
<1>1. TypeInv => TypeOK
  BY Zenon DEF TypeInv
<1> QED
  BY <1>1, TypeInvariance, PTL

-----------------------------------------------------------------------------
(* The books *)

\* What a verified chunk has: a whole blob, and its reference in the metadata.
Kept(c) ==
    LET h == HashOf[c]
    IN  blob[h] = "whole" /\ meta[h] # NoMeta /\ c \in meta[h].refs

Verified(h, c) == HashOf[c] = h /\ row[c] = "verified"
Calling(h, c) == HashOf[c] = h /\ pc[c] # "idle"

\* A clean hash has at most one call under way, and none while Touch is between
\* its read and its write or the collector runs.
Alone(h) ==
    /\ \A c \in Chunks : Calling(h, c) =>
         /\ \A b \in Chunks : Calling(h, b) => b = c
         /\ touching[h] = NoMeta
         /\ pc[Gc] = "idle"
    /\ touching[h] # NoMeta => pc[Gc] = "idle" /\ touching[h] = meta[h]

\* A verified chunk has what it needs until its DeleteChunk is past the point of
\* taking it away, after which the status follows.
RowsKept(h) ==
    \A c \in Chunks : Verified(h, c) => Kept(c) \/ pc[c] \in {"deletemeta", "status"}

\* Only a Put between its rename and its metadata leaves a blob without any.
MetaKept(h) ==
    blob[h] # "none" /\ meta[h] = NoMeta => \E c \in Chunks : HashOf[c] = h /\ pc[c] = "meta"

\* What the only call of a hash knows, by where it is.
CallFits(c) ==
    LET h == HashOf[c]
    IN  /\ pc[c] \in {"stat", "create", "write", "rename", "deletemeta"} => blob[h] = "none"
        /\ pc[c] \in {"meta", "dedup", "addref", "row"} => blob[h] # "none"
        /\ pc[c] = "meta" => \A b \in Chunks : ~Verified(h, b)
        /\ pc[c] = "addref" => reg[c] = meta[h]
        /\ pc[c] = "row" => meta[h] # NoMeta /\ c \in meta[h].refs
        /\ pc[c] \in {"delete", "deletemeta"} => \A b \in Chunks : Verified(h, b) => b = c
        /\ pc[c] = "unref" => /\ meta[h] # NoMeta /\ reg[c] # NoMeta
                              /\ reg[c].refs = meta[h].refs \ {c}

\* A collector that marks has marked the hash, or is still to list its chunks; what
\* it collects is of no verified chunk.
GcFits(h) ==
    /\ pc[Gc] = "mark" => \A c \in Chunks : Verified(h, c) => c \in todo \/ h \in marked
    /\ pc[Gc] \in {"list", "sweep"} /\ method = "mark-and-sweep" =>
         \A c \in Chunks : Verified(h, c) => h \in marked
    /\ pc[Gc] \in {"delete", "deletemeta"} =>
         /\ method = "mark-and-sweep" => \A c \in Chunks : Verified(h, c) => h \in marked
         /\ gcHash = h => \A c \in Chunks : ~Verified(h, c)
    /\ pc[Gc] = "deletemeta" /\ gcHash = h => blob[h] = "none"

Books(h) ==
    /\ Alone(h) /\ RowsKept(h) /\ MetaKept(h) /\ GcFits(h)
    /\ \A c \in Chunks : HashOf[c] = h => CallFits(c)

BooksInv == \A h \in Hashes : history[h] = "clean" => Books(h)

BooksAre == TypeInv /\ IInv /\ BooksInv

\* A hash that is clean has been; a call that begins at it meets nobody.
LEMMA BeginClean ==
    ASSUME TypeInv, NEW g \in Hashes, NEW c, Begin(g, c), NEW h \in Hashes, history'[h] = "clean"
    PROVE  history[h] = "clean" /\ (h = g => ~Busy(g, c))
<1>1. CASE Busy(g, c)
  BY <1>1, Zenon DEF Begin, Dirty, TypeInv, TypeOK
<1>2. CASE ~Busy(g, c)
  BY <1>2, Zenon DEF Begin, TypeInv, TypeOK
<1> QED
  BY <1>1, <1>2, Zenon

LEMMA FaultClean ==
    ASSUME TypeInv, NEW g \in Hashes, Fault(g), NEW h \in Hashes, history'[h] = "clean"
    PROVE  history[h] = "clean" /\ h # g
  BY Zenon DEF Fault, Dirty, TypeInv, TypeOK

\* What a step of the call of c leaves alone.
Elsewhere(c) ==
    /\ \A p \in Procs \ {c} : pc'[p] = pc[p]
    /\ \A b \in Chunks \ {c} : row'[b] = row[b] /\ reg'[b] = reg[b]
    /\ \A h \in Hashes \ {HashOf[c]} : blob'[h] = blob[h] /\ meta'[h] = meta[h]
    /\ touching' = touching /\ method' = method /\ gcHash' = gcHash
    /\ todo' = todo /\ marked' = marked

\* No other call is at the hash of c, and neither Touch nor the collector is.
Sole(c) ==
    /\ touching[HashOf[c]] = NoMeta
    /\ pc[Gc] = "idle"
    /\ \A b \in Chunks \ {c} : HashOf[b] = HashOf[c] => pc[b] = "idle"

\* The books of its hash after a step of the only call.
Balanced(c) == RowsKept(HashOf[c])' /\ MetaKept(HashOf[c])' /\ CallFits(c)'

LEMMA CallingIsSole ==
    ASSUME BooksAre, NEW c \in Chunks, history[HashOf[c]] = "clean", pc[c] # "idle"
    PROVE  Sole(c)
<1>1. Calling(HashOf[c], c) /\ Alone(HashOf[c])
  BY Facts, Zenon DEF BooksAre, BooksInv, Books, Calling
<1>2. /\ \A b \in Chunks : Calling(HashOf[c], b) => b = c
      /\ touching[HashOf[c]] = NoMeta
      /\ pc[Gc] = "idle"
  BY <1>1, Zenon DEF Alone
<1> QED
  BY <1>2, Zenon DEF Sole, Calling

LEMMA BeginsSole ==
    ASSUME NEW c \in Chunks, ~Busy(HashOf[c], c)
    PROVE  Sole(c)
  BY Zenon DEF Busy, Sole

\* The books of another hash are as they were ...
LEMMA OtherBooks ==
    ASSUME NEW c \in Chunks, Elsewhere(c), NEW h \in Hashes, h # HashOf[c], Books(h)
    PROVE  Books(h)'
<1>0. /\ blob'[h] = blob[h] /\ meta'[h] = meta[h] /\ touching'[h] = touching[h]
      /\ pc'[Gc] = pc[Gc]
      /\ method' = method /\ gcHash' = gcHash /\ todo' = todo /\ marked' = marked
  BY Facts, Zenon DEF Elsewhere
<1>1. \A b \in Chunks : HashOf[b] = h => pc'[b] = pc[b] /\ row'[b] = row[b] /\ reg'[b] = reg[b]
  BY Facts, Zenon DEF Elsewhere
<1>2. \A b \in Chunks : (Verified(h, b)' <=> Verified(h, b)) /\ (Calling(h, b)' <=> Calling(h, b))
  BY <1>1, Zenon DEF Verified, Calling
<1>3. Alone(h)'
  BY <1>0, <1>2, Zenon DEF Books, Alone
<1>4. RowsKept(h)'
  <2>1. ASSUME NEW b \in Chunks, Verified(h, b)' PROVE Kept(b)' \/ pc'[b] \in {"deletemeta", "status"}
    BY <1>0, <1>1, <1>2, <2>1, Zenon DEF Books, RowsKept, Kept, Verified
  <2> QED
    BY <2>1, Zenon DEF RowsKept
<1>5. MetaKept(h)'
  BY <1>0, <1>1, Zenon DEF Books, MetaKept
<1>6. GcFits(h)'
  BY <1>0, <1>2, Zenon DEF Books, GcFits
<1>7. ASSUME NEW b \in Chunks, HashOf[b] = h PROVE CallFits(b)'
  <2>1. CallFits(b)
    BY <1>7, Zenon DEF Books
  <2> QED
    BY <1>0, <1>1, <1>2, <1>7, <2>1, Zenon DEF CallFits
<1> QED
  BY <1>3, <1>4, <1>5, <1>6, <1>7, Zenon DEF Books

\* ... and those of its own are balanced when the call is the only one.
LEMMA OwnBooks ==
    ASSUME NEW c \in Chunks, Elsewhere(c), Sole(c), Balanced(c)
    PROVE  Books(HashOf[c])'
<1> DEFINE h == HashOf[c]
<1>1. touching'[h] = NoMeta /\ pc'[Gc] = "idle"
  BY Facts, Zenon DEF Elsewhere, Sole
<1>2. \A b \in Chunks \ {c} : HashOf[b] = h => pc'[b] = "idle"
  BY Facts, Zenon DEF Elsewhere, Sole
<1>3. Alone(h)'
  BY <1>1, <1>2, Zenon DEF Alone, Calling
<1>4. GcFits(h)'
  BY <1>1, Zenon DEF GcFits
<1>5. ASSUME NEW b \in Chunks, HashOf[b] = h PROVE CallFits(b)'
  <2>1. CASE b = c
    BY <2>1, Zenon DEF Balanced
  <2>2. CASE b # c
    <3>1. pc'[b] = "idle"
      BY <1>2, <1>5, <2>2, Zenon
    <3> QED
      BY <3>1, Zenon DEF CallFits
  <2> QED
    BY <2>1, <2>2, Zenon
<1> QED
  BY <1>3, <1>4, <1>5, Zenon DEF Balanced, Books

\* A step of a call keeps the books if it balances those of its hash.
CallStep(c) ==
    /\ Elsewhere(c)
    /\ \A h \in Hashes : history'[h] = "clean" => history[h] = "clean"
    /\ history'[HashOf[c]] = "clean" => Sole(c) /\ Balanced(c)

LEMMA CallStepKeeps ==
    ASSUME BooksAre, NEW c \in Chunks, CallStep(c)
    PROVE  BooksInv'
<1>1. ASSUME NEW h \in Hashes, history'[h] = "clean" PROVE Books(h)'
  <2>1. CASE h = HashOf[c]
    BY <1>1, <2>1, OwnBooks, Zenon DEF CallStep
  <2>2. CASE h # HashOf[c]
    <3>1. Books(h)
      BY <1>1, Zenon DEF CallStep, BooksAre, BooksInv
    <3> QED
      BY <2>2, <3>1, OtherBooks, Zenon DEF CallStep
  <2> QED
    BY <2>1, <2>2, Zenon
<1> QED
  BY <1>1, Zenon DEF BooksInv

\* The books of the hash of a call while it is clean.
LEMMA OwnClean ==
    ASSUME BooksAre, NEW c \in Chunks, history[HashOf[c]] = "clean"
    PROVE  /\ RowsKept(HashOf[c]) /\ MetaKept(HashOf[c]) /\ CallFits(c)
           /\ blob[HashOf[c]] # "none" => blob[HashOf[c]] = "whole"
<1>1. HashOf[c] \in Hashes
  BY Facts, Zenon
<1>2. Books(HashOf[c])
  BY <1>1, Zenon DEF BooksAre, BooksInv
<1>3. blob[HashOf[c]] \in Files /\ blob[HashOf[c]] # "empty"
  BY <1>1, Zenon DEF BooksAre, TypeInv, TypeOK, IInv, WholeInv, Shared
<1> QED
  BY <1>2, <1>3, Zenon DEF Books, Files

\* A sole call that changes no blob, metadata or row, and is not at one of the steps
\* that leave the books open, keeps them balanced.
LEMMA ReadingStep ==
    ASSUME BooksAre, NEW c \in Chunks, history[HashOf[c]] = "clean", Sole(c), Elsewhere(c),
           pc[c] \notin {"meta", "deletemeta", "status"},
           blob'[HashOf[c]] = blob[HashOf[c]], meta'[HashOf[c]] = meta[HashOf[c]], row' = row,
           CallFits(c)'
    PROVE  Balanced(c)
<1> DEFINE h == HashOf[c]
<1>1. RowsKept(h) /\ MetaKept(h)
  BY OwnClean, Zenon
<1>2. ASSUME NEW b \in Chunks, Verified(h, b)' PROVE Kept(b)'
  <2>1. Verified(h, b) /\ HashOf[b] = h
    BY <1>2, Zenon DEF Verified
  <2>2. pc[b] \notin {"deletemeta", "status"}
    BY <2>1, Zenon DEF Sole
  <2>3. Kept(b)
    BY <1>1, <2>1, <2>2, Zenon DEF RowsKept
  <2> QED
    BY <2>1, <2>3, Zenon DEF Kept
<1>3. ~(blob[h] # "none" /\ meta[h] = NoMeta)
  BY <1>1, Zenon DEF MetaKept, Sole
<1> QED
  BY <1>2, <1>3, Zenon DEF Balanced, RowsKept, MetaKept

-----------------------------------------------------------------------------
(* Steps of IngestChunk and Put *)

\* A step that reads: the call goes to l, and nothing but what it has read changes.
Reads(c, l) ==
    /\ pc' = [pc EXCEPT ![c] = l]
    /\ blob' = blob /\ meta' = meta /\ row' = row
    /\ \A b \in Chunks \ {c} : reg'[b] = reg[b]
    /\ touching' = touching /\ method' = method /\ gcHash' = gcHash
    /\ todo' = todo /\ marked' = marked

LEMMA ReadsElsewhere ==
    ASSUME TypeInv, NEW c \in Chunks, NEW l, Reads(c, l)
    PROVE  Elsewhere(c) /\ pc'[c] = l
  BY Facts, Zenon DEF Reads, Elsewhere, TypeInv, TypeOK

\* A reading step of a call under way that goes where it fits.
LEMMA ReadsStep ==
    ASSUME BooksAre, NEW c \in Chunks, NEW l, Reads(c, l),
           pc[c] \notin {"idle", "meta", "deletemeta", "status"},
           \A h \in Hashes : history'[h] = "clean" => history[h] = "clean",
           history'[HashOf[c]] = "clean" => CallFits(c)'
    PROVE  BooksInv'
<1>1. Elsewhere(c)
  BY ReadsElsewhere, Zenon DEF BooksAre
<1>2. ASSUME history'[HashOf[c]] = "clean" PROVE Sole(c) /\ Balanced(c)
  <2>1. history[HashOf[c]] = "clean"
    BY <1>2, Facts, Zenon
  <2>2. Sole(c)
    BY <2>1, CallingIsSole, Zenon
  <2>3. blob'[HashOf[c]] = blob[HashOf[c]] /\ meta'[HashOf[c]] = meta[HashOf[c]] /\ row' = row
    BY Zenon DEF Reads
  <2> QED
    BY <1>1, <1>2, <2>1, <2>2, <2>3, ReadingStep, Zenon
<1> QED
  BY <1>1, <1>2, CallStepKeeps, Zenon DEF CallStep

LEMMA IngestStartBooks == ASSUME BooksAre, NEW c \in Chunks, IngestStart(c) PROVE BooksInv'
<1> DEFINE h == HashOf[c]
           l == IF blob[h] = "none" THEN "stat" ELSE "dedup"
<1>0. h \in Hashes /\ pc[c] = "idle" /\ Begin(h, c)
  BY Facts, Zenon DEF IngestStart
<1>1. Reads(c, l)
  BY Zenon DEF IngestStart, Reads, Goto, fileVars, gcVars
<1>2. Elsewhere(c) /\ pc'[c] = l
  BY <1>1, ReadsElsewhere, Zenon DEF BooksAre
<1>3. blob'[h] = blob[h] /\ meta'[h] = meta[h] /\ row' = row
  BY <1>1, Zenon DEF Reads
<1>4. CallFits(c)'
  BY <1>2, <1>3, Zenon DEF CallFits
<1>5. \A g \in Hashes : history'[g] = "clean" => history[g] = "clean" /\ (g = h => ~Busy(h, c))
  BY <1>0, BeginClean, Zenon DEF BooksAre
<1>6. ASSUME history'[h] = "clean" PROVE Sole(c) /\ Balanced(c)
  <2>1. history[h] = "clean" /\ Sole(c)
    BY <1>0, <1>5, <1>6, BeginsSole, Zenon
  <2>2. pc[c] \notin {"meta", "deletemeta", "status"}
    BY <1>0, Zenon
  <2> QED
    BY <1>2, <1>3, <1>4, <2>1, <2>2, ReadingStep, Zenon
<1> QED
  BY <1>2, <1>5, <1>6, CallStepKeeps, Zenon DEF CallStep

LEMMA PutStatBooks == ASSUME BooksAre, NEW c \in Chunks, PutStat(c) PROVE BooksInv'
<1> DEFINE h == HashOf[c]
           l == IF blob[h] = "none" THEN "create" ELSE "idle"
<1>0. h \in Hashes /\ pc[c] = "stat" /\ history' = history
  BY Facts, Zenon DEF PutStat
<1>1. Reads(c, l)
  BY Zenon DEF PutStat, Reads, Goto, fileVars, gcVars
<1>2. pc'[c] = l /\ blob' = blob
  BY <1>1, ReadsElsewhere, Zenon DEF BooksAre, Reads
<1>3. CallFits(c)'
  BY <1>2, Zenon DEF CallFits
<1> QED
  BY <1>0, <1>1, <1>3, ReadsStep, Zenon

\* A step at which there is no blob, to another such or to the end.
LEMMA NoBlobYet ==
    ASSUME BooksAre, NEW c \in Chunks, pc[c] \in {"create", "write", "rename"},
           NEW l \in {"write", "rename", "idle"}, Reads(c, l),
           \A h \in Hashes : history'[h] = "clean" => history[h] = "clean"
    PROVE  BooksInv'
<1> DEFINE h == HashOf[c]
<1>1. pc'[c] = l /\ blob' = blob
  BY ReadsElsewhere, Zenon DEF BooksAre, Reads
<1>2. ASSUME history'[h] = "clean" PROVE CallFits(c)'
  <2>1. CallFits(c)
    BY <1>2, Facts, OwnClean, Zenon
  <2>2. blob'[h] = "none"
    BY <1>1, <2>1, Zenon DEF CallFits
  <2> QED
    BY <1>1, <2>2, Zenon DEF CallFits
<1> QED
  BY <1>2, ReadsStep, Zenon

LEMMA PutCreateBooks == ASSUME BooksAre, NEW c \in Chunks, PutCreate(c) PROVE BooksInv'
<1> DEFINE h == HashOf[c]
<1>0. h \in Hashes /\ pc[c] = "create"
  BY Facts, Zenon DEF PutCreate
<1>1. PICK l \in {"write", "rename", "idle"} : pc' = [pc EXCEPT ![c] = l]
  BY Zenon DEF PutCreate, Goto
<1>2. Reads(c, l)
  BY <1>1, Zenon DEF PutCreate, Reads, gcVars
<1>3. ASSUME NEW g \in Hashes, history'[g] = "clean" PROVE history[g] = "clean"
  <2>1. CASE history' = history
    BY <1>3, <2>1, Zenon
  <2>2. CASE history' = [history EXCEPT ![h] =
                   IF @ # "broken" /\ \E b \in Chunks : HashOf[b] = h /\ pc[b] \in {"write", "rename"}
                   THEN "overlapped" ELSE @]
    BY <1>3, <2>2, Zenon DEF BooksAre, TypeInv, TypeOK
  <2> QED
    BY <2>1, <2>2, Zenon DEF PutCreate
<1> QED
  BY <1>0, <1>2, <1>3, NoBlobYet, Zenon

\* The file that a Put of a clean hash writes to is the temp file.
LEMMA PutWriteBooks == ASSUME BooksAre, NEW c \in Chunks, PutWrite(c) PROVE BooksInv'
<1> DEFINE h == HashOf[c]
<1>0. h \in Hashes /\ pc[c] = "write"
  BY Facts, Zenon DEF PutWrite
<1>4. \A g \in Hashes : history'[g] = "clean" => history[g] = "clean"
  BY <1>0, Zenon DEF PutWrite, BooksAre, TypeInv, TypeOK
<1>1. PICK l \in {"write", "rename", "idle"} : pc' = [pc EXCEPT ![c] = l]
  BY Zenon DEF PutWrite, RemoveTemp, Goto
<1>2. CASE blob' = blob
  <2>1. Reads(c, l)
    BY <1>1, <1>2, Zenon DEF PutWrite, Reads, gcVars
  <2> QED
    BY <1>0, <1>4, <2>1, NoBlobYet, Zenon
<1>3. CASE blob' # blob
  <2>1. blob' = [blob EXCEPT ![h] = IF fd[c] = "blob" THEN "whole" ELSE @]
    BY <1>3, Zenon DEF PutWrite
  <2>2. fd[c] = "blob"
    BY <1>0, <1>3, <2>1, Zenon DEF BooksAre, TypeInv, TypeOK
  <2>3. history[h] # "clean" /\ history' = history
    BY <1>0, <1>3, <2>2, Zenon DEF BooksAre, IInv, PutInv, Putting, Shared, PutWrite
  <2>4. Elsewhere(c)
    BY <1>0, <1>1, <2>1, Facts, Zenon DEF PutWrite, Elsewhere, gcVars, BooksAre, TypeInv, TypeOK
  <2> QED
    BY <1>0, <2>3, <2>4, CallStepKeeps, Zenon DEF CallStep
<1> QED
  BY <1>2, <1>3, Zenon

\* At the rename there are no verified chunks, since there is no blob.
LEMMA NoBlobNoRows ==
    ASSUME BooksAre, NEW c \in Chunks, history[HashOf[c]] = "clean", Sole(c),
           blob[HashOf[c]] = "none", pc[c] \notin {"deletemeta", "status"}
    PROVE  \A b \in Chunks : ~Verified(HashOf[c], b)
<1>1. RowsKept(HashOf[c])
  BY OwnClean, Zenon
<1>2. \A b \in Chunks : HashOf[b] = HashOf[c] => pc[b] \notin {"deletemeta", "status"}
  BY Zenon DEF Sole
<1> QED
  BY <1>1, <1>2, Zenon DEF RowsKept, Verified, Kept

LEMMA PutRenameBooks == ASSUME BooksAre, NEW c \in Chunks, PutRename(c) PROVE BooksInv'
<1> DEFINE h == HashOf[c]
<1>0. h \in Hashes /\ pc[c] = "rename" /\ history' = history
  BY Facts, Zenon DEF PutRename
<1>1. CASE blob' = blob /\ RemoveTemp(c)
  <2>1. Reads(c, "idle")
    BY <1>1, Zenon DEF PutRename, RemoveTemp, Goto, Reads, gcVars
  <2> QED
    BY <1>0, <2>1, NoBlobYet, Zenon
<1>2. CASE ~(blob' = blob /\ RemoveTemp(c))
  <2>1. /\ temp[h] # "none" /\ blob' = [blob EXCEPT ![h] = temp[h]]
        /\ pc' = [pc EXCEPT ![c] = "meta"]
        /\ meta' = meta /\ row' = row /\ reg' = reg /\ touching' = touching
        /\ method' = method /\ gcHash' = gcHash /\ todo' = todo /\ marked' = marked
    BY <1>2, Zenon DEF PutRename, Goto, gcVars
  <2>2. Elsewhere(c) /\ pc'[c] = "meta" /\ blob'[h] # "none"
    BY <1>0, <2>1, Facts, Zenon DEF Elsewhere, BooksAre, TypeInv, TypeOK
  <2>3. ASSUME history[h] = "clean" PROVE Sole(c) /\ Balanced(c)
    <3>1. Sole(c) /\ CallFits(c)
      BY <1>0, <2>3, CallingIsSole, OwnClean, Zenon
    <3>2. blob[h] = "none"
      BY <1>0, <3>1, Zenon DEF CallFits
    <3>3. \A b \in Chunks : ~Verified(h, b)
      BY <1>0, <2>3, <3>1, <3>2, NoBlobNoRows, Zenon
    <3>4. \A b \in Chunks : ~Verified(h, b)'
      BY <2>1, <3>3, Zenon DEF Verified
    <3>5. CallFits(c)'
      BY <2>2, <3>4, Zenon DEF CallFits
    <3> QED
      BY <2>2, <3>1, <3>4, <3>5, Zenon DEF Balanced, RowsKept, MetaKept
  <2> QED
    BY <1>0, <2>2, <2>3, CallStepKeeps, Zenon DEF CallStep
<1> QED
  BY <1>1, <1>2, Zenon

\* What is left alone by a step of the call of c that may write its metadata and row.
LEMMA WritesElsewhere ==
    ASSUME TypeInv, NEW c \in Chunks, NEW l, pc' = [pc EXCEPT ![c] = l],
           \A b \in Chunks \ {c} : row'[b] = row[b] /\ reg'[b] = reg[b],
           \A g \in Hashes \ {HashOf[c]} : blob'[g] = blob[g] /\ meta'[g] = meta[g],
           touching' = touching, method' = method, gcHash' = gcHash, todo' = todo, marked' = marked
    PROVE  Elsewhere(c) /\ pc'[c] = l
  BY Facts, Zenon DEF Elsewhere, TypeInv, TypeOK

\* A call under way that does not fail balances the books: it keeps them.
LEMMA CallingStep ==
    ASSUME BooksAre, NEW c \in Chunks, pc[c] # "idle", Elsewhere(c),
           \A h \in Hashes : history'[h] = "clean" => history[h] = "clean",
           history'[HashOf[c]] = "clean" /\ history[HashOf[c]] = "clean" /\ Sole(c) => Balanced(c)
    PROVE  BooksInv'
<1>1. ASSUME history'[HashOf[c]] = "clean" PROVE Sole(c) /\ Balanced(c)
  <2>1. history[HashOf[c]] = "clean"
    BY <1>1, Facts, Zenon
  <2>2. Sole(c)
    BY <2>1, CallingIsSole, Zenon
  <2> QED
    BY <1>1, <2>1, <2>2, Zenon
<1> QED
  BY <1>1, CallStepKeeps, Zenon DEF CallStep

LEMMA MetaFaultFrame ==
    ASSUME TypeInv, NEW g \in Hashes, MetaFault(g)
    PROVE  /\ \A h \in Hashes \ {g} : meta'[h] = meta[h]
           /\ \A h \in Hashes : history'[h] = "clean" => history[h] = "clean"
           /\ history'[g] # "clean"
<1>1. PICK m \in {meta[g], NoMeta} : meta' = [meta EXCEPT ![g] = m]
  BY Zenon DEF MetaFault
<1>2. Fault(g)
  BY Zenon DEF MetaFault
<1> QED
  BY <1>1, <1>2, FaultClean, Zenon DEF TypeInv, TypeOK

\* Metadata that is written, is there, with the references it was given.
LEMMA NewMetaExists ==
    /\ \A c \in Chunks : [refs |-> {c}, old |-> FALSE] # NoMeta
    /\ \A m \in Metadata, c \in Chunks :
         m # NoMeta => /\ [m EXCEPT !.refs = @ \cup {c}] # NoMeta
                       /\ [m EXCEPT !.refs = m.refs \ {c}] # NoMeta
    /\ \A m \in Metadata : m # NoMeta => [m EXCEPT !.old = TRUE] # NoMeta
<1> DEFINE Records == [refs : SUBSET Chunks, old : BOOLEAN]
<1>1. /\ \A m \in Records, c \in Chunks : /\ [m EXCEPT !.refs = @ \cup {c}] \in Records
                                         /\ [m EXCEPT !.refs = m.refs \ {c}] \in Records
      /\ \A m \in Records : [m EXCEPT !.old = TRUE] \in Records
  BY Zenon
<1>2. \A c \in Chunks : [refs |-> {c}, old |-> FALSE] \in Records
  OBVIOUS
<1>3. NoMeta \notin Records /\ \A m \in Metadata : m # NoMeta => m \in Records
  BY BlobAssumption, Zenon DEF Metadata
<1> HIDE DEF Records
<1>4. ASSUME NEW m \in Metadata, NEW c \in Chunks, m # NoMeta
      PROVE  /\ [m EXCEPT !.refs = @ \cup {c}] # NoMeta
             /\ [m EXCEPT !.refs = m.refs \ {c}] # NoMeta
  <2>1. m \in Records
    BY <1>3, <1>4, Zenon
  <2> QED
    BY <1>1, <1>3, <2>1, Zenon
<1>6. ASSUME NEW m \in Metadata, m # NoMeta PROVE [m EXCEPT !.old = TRUE] # NoMeta
  <2>1. m \in Records
    BY <1>3, <1>6, Zenon
  <2> QED
    BY <1>1, <1>3, <2>1
<1>5. \A c \in Chunks : [refs |-> {c}, old |-> FALSE] # NoMeta
  BY <1>2, <1>3
<1> QED
  BY <1>4, <1>5, <1>6, Zenon

LEMMA MetaRefs ==
    /\ \A c \in Chunks : [refs |-> {c}, old |-> FALSE].refs = {c}
    /\ \A m \in Metadata, c \in Chunks :
         m # NoMeta => /\ [m EXCEPT !.refs = @ \cup {c}].refs = m.refs \cup {c}
                       /\ [m EXCEPT !.refs = m.refs \ {c}].refs = m.refs \ {c}
    /\ \A m \in Metadata : m # NoMeta => [m EXCEPT !.old = TRUE].refs = m.refs
  BY DEF Metadata

LEMMA PutMetaBooks == ASSUME BooksAre, NEW c \in Chunks, PutMeta(c) PROVE BooksInv'
<1> DEFINE h == HashOf[c]
<1>0. /\ h \in Hashes /\ pc[c] = "meta" /\ pc' = [pc EXCEPT ![c] = "row"]
      /\ blob' = blob /\ row' = row /\ reg' = reg /\ touching' = touching
      /\ method' = method /\ gcHash' = gcHash /\ todo' = todo /\ marked' = marked
  BY Facts, Zenon DEF PutMeta, Goto, fileVars, gcVars
<1>1. PICK m \in Metadata : m = [refs |-> {c}, old |-> FALSE]
  BY MetadataFacts, Zenon
<1>2. m # NoMeta => c \in m.refs
  BY <1>1, MetaRefs, Zenon
<1>3. MetaFault(h) \/ (meta' = [meta EXCEPT ![h] = m] /\ history' = history)
  BY <1>1, Zenon DEF PutMeta
<1>4. /\ \A g \in Hashes \ {h} : meta'[g] = meta[g]
      /\ \A g \in Hashes : history'[g] = "clean" => history[g] = "clean"
      /\ history'[h] = "clean" => meta'[h] = m
  <2>1. CASE MetaFault(h)
    BY <1>0, <2>1, MetaFaultFrame, Zenon DEF BooksAre
  <2>2. CASE meta' = [meta EXCEPT ![h] = m] /\ history' = history
    BY <1>0, <2>2, Zenon DEF BooksAre, TypeInv, TypeOK
  <2> QED
    BY <1>3, <2>1, <2>2, Zenon
<1>5. Elsewhere(c) /\ pc'[c] = "row"
  BY <1>0, <1>4, WritesElsewhere, Zenon DEF BooksAre
<1>6. ASSUME history'[h] = "clean", history[h] = "clean", Sole(c) PROVE Balanced(c)
  <2>1. CallFits(c) /\ m # NoMeta
    BY <1>1, <1>6, OwnClean, NewMetaExists, Zenon
  <2>2. blob'[h] # "none" /\ \A b \in Chunks : ~Verified(h, b)
    BY <1>0, <2>1, Zenon DEF CallFits
  <2>3. \A b \in Chunks : ~Verified(h, b)'
    BY <1>0, <2>2, Zenon DEF Verified
  <2>4. meta'[h] # NoMeta /\ c \in meta'[h].refs
    BY <1>2, <1>4, <1>6, <2>1, Zenon
  <2>5. CallFits(c)'
    BY <1>5, <2>2, <2>4, Zenon DEF CallFits
  <2> QED
    BY <2>3, <2>4, <2>5, Zenon DEF Balanced, RowsKept, MetaKept
<1>7. pc[c] # "idle"
  BY <1>0, Zenon
<1> QED
  BY <1>4, <1>5, <1>6, <1>7, CallingStep, Zenon

\* A blob of a clean hash has metadata, unless a Put is about to write it.
LEMMA BlobHasMeta ==
    ASSUME BooksAre, NEW c \in Chunks, history[HashOf[c]] = "clean", Sole(c),
           blob[HashOf[c]] # "none", pc[c] # "meta"
    PROVE  meta[HashOf[c]] # NoMeta
<1>1. MetaKept(HashOf[c])
  BY OwnClean, Zenon
<1> QED
  BY <1>1, Zenon DEF MetaKept, Sole

LEMMA DedupReadBooks == ASSUME BooksAre, NEW c \in Chunks, DedupRead(c) PROVE BooksInv'
<1> DEFINE h == HashOf[c]
<1>0. h \in Hashes /\ pc[c] = "dedup"
  BY Facts, Zenon DEF DedupRead
<1>1. PICK l \in {"row", "addref"} : pc' = [pc EXCEPT ![c] = l]
  BY Zenon DEF DedupRead, Goto
<1>2. Reads(c, l)
  <2>1. \A b \in Chunks \ {c} : reg'[b] = reg[b]
    BY Zenon DEF DedupRead, BooksAre, TypeInv, TypeOK
  <2> QED
    BY <1>1, <2>1, Zenon DEF DedupRead, Reads, fileVars, gcVars
<1>3. pc'[c] = l /\ blob' = blob /\ meta' = meta
  BY <1>2, ReadsElsewhere, Zenon DEF BooksAre, Reads
<1>4. \A g \in Hashes : history'[g] = "clean" => history[g] = "clean"
  BY <1>0, FaultClean, Zenon DEF DedupRead, BooksAre
<1>5. ASSUME history'[h] = "clean" PROVE CallFits(c)'
  <2>0. history[h] = "clean"
    BY <1>0, <1>4, <1>5, Zenon
  <2>1. Sole(c) /\ CallFits(c)
    BY <1>0, <2>0, CallingIsSole, OwnClean, Zenon
  <2>2. blob[h] # "none"
    BY <1>0, <2>1, Zenon DEF CallFits
  <2>3. meta[h] # NoMeta
    BY <1>0, <2>0, <2>1, <2>2, BlobHasMeta, Zenon
  <2>4. ~Fault(h)
    BY <1>0, <1>5, FaultClean, Zenon DEF BooksAre
  <2>5. \/ c \in meta[h].refs /\ pc' = [pc EXCEPT ![c] = "row"]
        \/ pc' = [pc EXCEPT ![c] = "addref"] /\ reg' = [reg EXCEPT ![c] = meta[h]]
    BY <2>3, <2>4, Zenon DEF DedupRead, Goto
  <2>6. CASE c \in meta[h].refs /\ pc' = [pc EXCEPT ![c] = "row"]
    <3>1. pc'[c] = "row"
      BY <2>6, Facts, Zenon DEF BooksAre, TypeInv, TypeOK
    <3> QED
      BY <1>3, <2>2, <2>3, <2>6, <3>1, Zenon DEF CallFits
  <2>7. CASE pc' = [pc EXCEPT ![c] = "addref"] /\ reg' = [reg EXCEPT ![c] = meta[h]]
    <3>1. pc'[c] = "addref" /\ reg'[c] = meta[h]
      BY <2>7, Facts, Zenon DEF BooksAre, TypeInv, TypeOK
    <3> QED
      BY <1>3, <2>2, <3>1, Zenon DEF CallFits
  <2> QED
    BY <2>5, <2>6, <2>7, Zenon
<1>6. pc[c] \notin {"idle", "meta", "deletemeta", "status"}
  BY <1>0, Zenon
<1> QED
  BY <1>2, <1>4, <1>5, <1>6, ReadsStep, Zenon

\* What a sole call that is not taking anything away finds of the verified chunks.
LEMMA AllKept ==
    ASSUME BooksAre, NEW c \in Chunks, history[HashOf[c]] = "clean", Sole(c),
           NEW b \in Chunks, Verified(HashOf[c], b),
           b = c => pc[c] \notin {"deletemeta", "status"}
    PROVE  Kept(b) /\ HashOf[b] = HashOf[c]
<1>1. RowsKept(HashOf[c])
  BY OwnClean, Zenon
<1>2. pc[b] \notin {"deletemeta", "status"}
  BY Zenon DEF Sole, Verified
<1> QED
  BY <1>1, <1>2, Zenon DEF RowsKept, Verified

LEMMA DedupWriteBooks == ASSUME BooksAre, NEW c \in Chunks, DedupWrite(c) PROVE BooksInv'
<1> DEFINE h == HashOf[c]
<1>0. /\ h \in Hashes /\ pc[c] = "addref" /\ pc' = [pc EXCEPT ![c] = "row"]
      /\ blob' = blob /\ row' = row /\ touching' = touching
      /\ method' = method /\ gcHash' = gcHash /\ todo' = todo /\ marked' = marked
      /\ reg' = [reg EXCEPT ![c] = NoMeta]
  BY Facts, Zenon DEF DedupWrite, Goto, fileVars, gcVars
<1>1. reg[c] \in Metadata /\ reg[c] # NoMeta
  BY <1>0, Zenon DEF BooksAre, TypeInv, TypeOK
<1>2. PICK m \in Metadata : m = [reg[c] EXCEPT !.refs = @ \cup {c}]
  BY <1>1, MetadataFacts, Zenon
<1>3. m # NoMeta /\ m.refs = reg[c].refs \cup {c}
  BY <1>1, <1>2, NewMetaExists, MetaRefs, Zenon
<1>4. MetaFault(h) \/ (meta' = [meta EXCEPT ![h] = m] /\ history' = history)
  BY <1>2, Zenon DEF DedupWrite
<1>5. /\ \A g \in Hashes \ {h} : meta'[g] = meta[g]
      /\ \A g \in Hashes : history'[g] = "clean" => history[g] = "clean"
      /\ history'[h] = "clean" => meta'[h] = m
  <2>1. CASE MetaFault(h)
    BY <1>0, <2>1, MetaFaultFrame, Zenon DEF BooksAre
  <2>2. CASE meta' = [meta EXCEPT ![h] = m] /\ history' = history
    BY <1>0, <2>2, Zenon DEF BooksAre, TypeInv, TypeOK
  <2> QED
    BY <1>4, <2>1, <2>2, Zenon
<1>6. \A b \in Chunks \ {c} : row'[b] = row[b] /\ reg'[b] = reg[b]
  BY <1>0, Zenon DEF BooksAre, TypeInv, TypeOK
<1>7. Elsewhere(c) /\ pc'[c] = "row"
  BY <1>0, <1>5, <1>6, WritesElsewhere, Zenon DEF BooksAre
<1>8. ASSUME history'[h] = "clean", history[h] = "clean", Sole(c) PROVE Balanced(c)
  <2>1. CallFits(c)
    BY <1>8, OwnClean, Zenon
  <2>2. blob'[h] = blob[h] /\ blob[h] # "none" /\ reg[c] = meta[h]
    BY <1>0, <2>1, Zenon DEF CallFits
  <2>3. meta'[h] # NoMeta /\ meta'[h].refs = meta[h].refs \cup {c}
    BY <1>3, <1>5, <1>8, <2>2, Zenon
  <2>4. ASSUME NEW b \in Chunks, Verified(h, b)' PROVE Kept(b)'
    <3>1. Kept(b) /\ HashOf[b] = h
      BY <1>0, <1>8, <2>4, AllKept, Zenon DEF Verified
    <3> QED
      BY <2>2, <2>3, <3>1, Zenon DEF Kept
  <2>5. CallFits(c)'
    BY <1>7, <2>2, <2>3, Zenon DEF CallFits
  <2> QED
    BY <2>3, <2>4, <2>5, Zenon DEF Balanced, RowsKept, MetaKept
<1>9. pc[c] # "idle"
  BY <1>0, Zenon
<1> QED
  BY <1>5, <1>7, <1>8, <1>9, CallingStep, Zenon

\* A row is created when the blob is whole and has the reference.
LEMMA CreateChunkBooks == ASSUME BooksAre, NEW c \in Chunks, CreateChunk(c) PROVE BooksInv'
<1> DEFINE h == HashOf[c]
<1>0. /\ h \in Hashes /\ pc[c] = "row" /\ pc' = [pc EXCEPT ![c] = "idle"]
      /\ blob' = blob /\ meta' = meta /\ reg' = reg /\ touching' = touching /\ history' = history
      /\ method' = method /\ gcHash' = gcHash /\ todo' = todo /\ marked' = marked
  BY Facts, Zenon DEF CreateChunk, Goto, fileVars, gcVars
<1>1. \A b \in Chunks \ {c} : row'[b] = row[b]
  BY Zenon DEF CreateChunk, BooksAre, TypeInv, TypeOK
<1>2. Elsewhere(c) /\ pc'[c] = "idle"
  BY <1>0, <1>1, WritesElsewhere, Zenon DEF BooksAre
<1>3. ASSUME history[h] = "clean", Sole(c) PROVE Balanced(c)
  <2>1. CallFits(c) /\ (blob[h] # "none" => blob[h] = "whole")
    BY <1>3, OwnClean, Zenon
  <2>2. Kept(c)
    BY <1>0, <2>1, Zenon DEF CallFits, Kept
  <2>3. ASSUME NEW b \in Chunks, Verified(h, b)' PROVE Kept(b)'
    <3>1. CASE b = c
      BY <1>0, <2>2, <3>1, Zenon DEF Kept
    <3>2. CASE b # c
      <4>1. Kept(b)
        BY <1>1, <1>3, <2>3, <3>2, AllKept, Zenon DEF Verified
      <4> QED
        BY <1>0, <4>1, Zenon DEF Kept
    <3> QED
      BY <3>1, <3>2, Zenon
  <2>4. CallFits(c)'
    BY <1>2, Zenon DEF CallFits
  <2>5. meta'[h] # NoMeta
    BY <1>0, <2>2, Zenon DEF Kept
  <2> QED
    BY <2>3, <2>4, <2>5, Zenon DEF Balanced, RowsKept, MetaKept
<1>4. pc[c] # "idle"
  BY <1>0, Zenon
<1> QED
  BY <1>0, <1>2, <1>3, <1>4, CallingStep, Zenon

-----------------------------------------------------------------------------
(* Steps of DeleteChunk and Delete *)

\* What it has read of the metadata is what a call that is to delete needs to know.
LEMMA DeleteChunkBooks == ASSUME BooksAre, NEW c \in Chunks, DeleteChunk(c) PROVE BooksInv'
<1> DEFINE h == HashOf[c]
           rest == meta[h].refs \ {c}
<1>0. h \in Hashes /\ pc[c] = "idle" /\ meta[h] # NoMeta /\ Begin(h, c)
  BY Facts, Zenon DEF DeleteChunk
<1>1. PICK m \in Metadata : m = [meta[h] EXCEPT !.refs = rest]
  BY <1>0, MetadataFacts, Zenon DEF BooksAre, TypeInv, TypeOK
<1>2. m # NoMeta /\ m.refs = rest
  BY <1>0, <1>1, NewMetaExists, MetaRefs, Zenon DEF BooksAre, TypeInv, TypeOK
<1>3. \/ rest = {} /\ pc' = [pc EXCEPT ![c] = "delete"] /\ reg' = reg
      \/ pc' = [pc EXCEPT ![c] = "unref"] /\ reg' = [reg EXCEPT ![c] = m]
  BY <1>1, Zenon DEF DeleteChunk, Goto
<1>4. PICK l : pc' = [pc EXCEPT ![c] = l]
  BY <1>3, Zenon
<1>5. Reads(c, l)
  <2>1. \A b \in Chunks \ {c} : reg'[b] = reg[b]
    BY <1>3, Zenon DEF BooksAre, TypeInv, TypeOK
  <2> QED
    BY <1>4, <2>1, Zenon DEF DeleteChunk, Reads, fileVars, gcVars
<1>6. Elsewhere(c)
  BY <1>5, ReadsElsewhere, Zenon DEF BooksAre
<1>7. blob'[h] = blob[h] /\ meta'[h] = meta[h] /\ row' = row
  BY <1>5, Zenon DEF Reads
<1>8. \A g \in Hashes : history'[g] = "clean" => history[g] = "clean" /\ (g = h => ~Busy(h, c))
  BY <1>0, BeginClean, Zenon DEF BooksAre
<1>9. ASSUME history'[h] = "clean" PROVE Sole(c) /\ Balanced(c)
  <2>1. history[h] = "clean" /\ Sole(c)
    BY <1>0, <1>8, <1>9, BeginsSole, Zenon
  <2>2. CASE rest = {} /\ pc' = [pc EXCEPT ![c] = "delete"] /\ reg' = reg
    <3>1. pc'[c] = "delete"
      BY <2>2, Facts, Zenon DEF BooksAre, TypeInv, TypeOK
    <3>2. ASSUME NEW b \in Chunks, Verified(h, b)' PROVE b = c
      <4>1. Kept(b) /\ HashOf[b] = h
        BY <1>0, <1>7, <2>1, <3>2, AllKept, Zenon DEF Verified
      <4> QED
        BY <2>2, <4>1, Zenon DEF Kept
    <3> QED
      BY <3>1, <3>2, <2>1, <1>0, <1>6, <1>7, ReadingStep, Zenon DEF CallFits
  <2>3. CASE pc' = [pc EXCEPT ![c] = "unref"] /\ reg' = [reg EXCEPT ![c] = m]
    <3>1. pc'[c] = "unref" /\ reg'[c] = m
      BY <2>3, Facts, Zenon DEF BooksAre, TypeInv, TypeOK
    <3>2. CallFits(c)'
      BY <1>0, <1>2, <1>7, <3>1, Zenon DEF CallFits
    <3> QED
      BY <3>2, <2>1, <1>0, <1>6, <1>7, ReadingStep, Zenon
  <2> QED
    BY <1>3, <2>2, <2>3, Zenon
<1> QED
  BY <1>6, <1>8, <1>9, CallStepKeeps, Zenon DEF CallStep

\* The other chunks keep their references.
LEMMA WriteRestBooks == ASSUME BooksAre, NEW c \in Chunks, WriteRest(c) PROVE BooksInv'
<1> DEFINE h == HashOf[c]
<1>0. /\ h \in Hashes /\ pc[c] = "unref"
      /\ blob' = blob /\ row' = row /\ touching' = touching
      /\ method' = method /\ gcHash' = gcHash /\ todo' = todo /\ marked' = marked
      /\ reg' = [reg EXCEPT ![c] = NoMeta]
  BY Facts, Zenon DEF WriteRest, fileVars, gcVars
<1>1. \/ MetaFault(h) /\ pc' = [pc EXCEPT ![c] = "idle"]
      \/ meta' = [meta EXCEPT ![h] = reg[c]] /\ pc' = [pc EXCEPT ![c] = "status"] /\ history' = history
  BY Zenon DEF WriteRest, Goto
<1>2. PICK l : pc' = [pc EXCEPT ![c] = l]
  BY <1>1, Zenon
<1>3. /\ \A g \in Hashes \ {h} : meta'[g] = meta[g]
      /\ \A g \in Hashes : history'[g] = "clean" => history[g] = "clean"
      /\ history'[h] = "clean" => meta'[h] = reg[c] /\ pc'[c] = "status"
  <2>1. CASE MetaFault(h)
    BY <1>0, <2>1, MetaFaultFrame, Zenon DEF BooksAre
  <2>2. CASE meta' = [meta EXCEPT ![h] = reg[c]] /\ pc' = [pc EXCEPT ![c] = "status"] /\ history' = history
    BY <1>0, <2>2, Facts, Zenon DEF BooksAre, TypeInv, TypeOK
  <2> QED
    BY <1>1, <2>1, <2>2, Zenon
<1>4. \A b \in Chunks \ {c} : row'[b] = row[b] /\ reg'[b] = reg[b]
  BY <1>0, Zenon DEF BooksAre, TypeInv, TypeOK
<1>5. Elsewhere(c)
  BY <1>0, <1>2, <1>3, <1>4, WritesElsewhere, Zenon DEF BooksAre
<1>6. ASSUME history'[h] = "clean", history[h] = "clean", Sole(c) PROVE Balanced(c)
  <2>0. pc'[c] = "status" /\ meta'[h] = reg[c] /\ blob'[h] = blob[h]
    BY <1>0, <1>3, <1>6, Zenon
  <2>1. CallFits(c)
    BY <1>6, OwnClean, Zenon
  <2>2. reg[c] # NoMeta /\ reg[c].refs = meta[h].refs \ {c}
    BY <1>0, <2>1, Zenon DEF CallFits
  <2>3. ASSUME NEW b \in Chunks, Verified(h, b)', b # c PROVE Kept(b)'
    <3>1. Kept(b) /\ HashOf[b] = h
      BY <1>0, <1>6, <2>3, AllKept, Zenon DEF Verified
    <3>2. b \in reg[c].refs
      BY <2>2, <2>3, <3>1, Zenon DEF Kept
    <3> QED
      BY <2>0, <2>2, <3>1, <3>2, Zenon DEF Kept
  <2>4. RowsKept(h)'
    BY <2>0, <2>3, Zenon DEF RowsKept
  <2>5. CallFits(c)'
    BY <2>0, Zenon DEF CallFits
  <2> QED
    BY <2>0, <2>2, <2>4, <2>5, Zenon DEF Balanced, MetaKept
<1>7. pc[c] # "idle"
  BY <1>0, Zenon
<1> QED
  BY <1>3, <1>5, <1>6, <1>7, CallingStep, Zenon

\* The last reference goes, and with it the blob.
LEMMA DeleteBlobBooks == ASSUME BooksAre, NEW c \in Chunks, DeleteBlob(c) PROVE BooksInv'
<1> DEFINE h == HashOf[c]
<1>0. /\ h \in Hashes /\ pc[c] = "delete" /\ At(c) = h /\ c # Gc
      /\ meta' = meta /\ row' = row /\ reg' = reg /\ touching' = touching /\ history' = history
      /\ method' = method /\ gcHash' = gcHash /\ todo' = todo /\ marked' = marked
  BY Facts, Zenon DEF DeleteBlob, At, gcVars
<1>1. \/ blob' = blob /\ pc' = [pc EXCEPT ![c] = "idle"]
      \/ blob' = [blob EXCEPT ![h] = "none"] /\ pc' = [pc EXCEPT ![c] = "deletemeta"]
  BY <1>0, Zenon DEF DeleteBlob, Goto, fileVars
<1>2. CASE blob' = blob /\ pc' = [pc EXCEPT ![c] = "idle"]
  <2>1. Reads(c, "idle")
    BY <1>0, <1>2, Zenon DEF Reads
  <2>2. pc'[c] = "idle"
    BY <2>1, ReadsElsewhere, Zenon DEF BooksAre
  <2>3. CallFits(c)'
    BY <2>2, Zenon DEF CallFits
  <2> QED
    BY <1>0, <2>1, <2>3, ReadsStep, Zenon
<1>3. CASE blob' = [blob EXCEPT ![h] = "none"] /\ pc' = [pc EXCEPT ![c] = "deletemeta"]
  <2>1. blob'[h] = "none" /\ \A g \in Hashes \ {h} : blob'[g] = blob[g] /\ meta'[g] = meta[g]
    BY <1>0, <1>3, Zenon DEF BooksAre, TypeInv, TypeOK
  <2>2. Elsewhere(c) /\ pc'[c] = "deletemeta"
    BY <1>0, <1>3, <2>1, WritesElsewhere, Zenon DEF BooksAre
  <2>3. ASSUME history[h] = "clean", Sole(c) PROVE Balanced(c)
    <3>1. CallFits(c)
      BY <2>3, OwnClean, Zenon
    <3>2. \A b \in Chunks : Verified(h, b) => b = c
      BY <1>0, <3>1, Zenon DEF CallFits
    <3>3. \A b \in Chunks : Verified(h, b)' => b = c
      BY <1>0, <3>2, Zenon DEF Verified
    <3>4. CallFits(c)'
      BY <2>1, <2>2, <3>3, Zenon DEF CallFits
    <3> QED
      BY <2>1, <2>2, <3>3, <3>4, Zenon DEF Balanced, RowsKept, MetaKept
  <2> QED
    BY <1>0, <2>2, <2>3, CallingStep, Zenon
<1> QED
  BY <1>1, <1>2, <1>3, Zenon

LEMMA DeleteMetaBooks == ASSUME BooksAre, NEW c \in Chunks, DeleteMeta(c) PROVE BooksInv'
<1> DEFINE h == HashOf[c]
<1>0. /\ h \in Hashes /\ pc[c] = "deletemeta" /\ At(c) = h /\ c # Gc
      /\ blob' = blob /\ row' = row /\ reg' = reg /\ touching' = touching /\ history' = history
      /\ method' = method /\ gcHash' = gcHash /\ todo' = todo /\ marked' = marked
      /\ pc' = [pc EXCEPT ![c] = "status"]
  BY Facts, Zenon DEF DeleteMeta, At, fileVars, Goto
<1>1. \A g \in Hashes \ {h} : blob'[g] = blob[g] /\ meta'[g] = meta[g]
  BY <1>0, Zenon DEF DeleteMeta, BooksAre, TypeInv, TypeOK
<1>2. Elsewhere(c) /\ pc'[c] = "status"
  BY <1>0, <1>1, WritesElsewhere, Zenon DEF BooksAre
<1>3. ASSUME history[h] = "clean", Sole(c) PROVE Balanced(c)
  <2>1. CallFits(c)
    BY <1>3, OwnClean, Zenon
  <2>2. blob'[h] = "none" /\ \A b \in Chunks : Verified(h, b) => b = c
    BY <1>0, <2>1, Zenon DEF CallFits
  <2>3. \A b \in Chunks : Verified(h, b)' => b = c
    BY <1>0, <2>2, Zenon DEF Verified
  <2>4. CallFits(c)'
    BY <1>2, Zenon DEF CallFits
  <2> QED
    BY <1>2, <2>2, <2>3, <2>4, Zenon DEF Balanced, RowsKept, MetaKept
<1>4. pc[c] # "idle"
  BY <1>0, Zenon
<1> QED
  BY <1>0, <1>2, <1>3, <1>4, CallingStep, Zenon

\* The status follows what was taken away.
LEMMA UpdateStatusBooks == ASSUME BooksAre, NEW c \in Chunks, UpdateStatus(c) PROVE BooksInv'
<1> DEFINE h == HashOf[c]
<1>0. /\ h \in Hashes /\ pc[c] = "status"
      /\ blob' = blob /\ meta' = meta /\ reg' = reg /\ touching' = touching
      /\ method' = method /\ gcHash' = gcHash /\ todo' = todo /\ marked' = marked
      /\ pc' = [pc EXCEPT ![c] = "idle"]
  BY Facts, Zenon DEF UpdateStatus, fileVars, gcVars, Goto
<1>1. /\ \A b \in Chunks \ {c} : row'[b] = row[b]
      /\ \/ Fault(h)
         \/ history' = history /\ row'[c] # "verified"
  BY Zenon DEF UpdateStatus, BooksAre, TypeInv, TypeOK
<1>2. /\ \A g \in Hashes : history'[g] = "clean" => history[g] = "clean"
      /\ history'[h] = "clean" => row'[c] # "verified"
  BY <1>0, <1>1, FaultClean, Zenon DEF BooksAre
<1>3. Elsewhere(c) /\ pc'[c] = "idle"
  BY <1>0, <1>1, WritesElsewhere, Zenon DEF BooksAre
<1>4. ASSUME history'[h] = "clean", history[h] = "clean", Sole(c) PROVE Balanced(c)
  <2>1. ASSUME NEW b \in Chunks, Verified(h, b)' PROVE Kept(b)'
    <3>1. b # c
      BY <1>2, <1>4, <2>1, Zenon DEF Verified
    <3>2. Verified(h, b)
      BY <1>1, <2>1, <3>1, Zenon DEF Verified
    <3>3. Kept(b)
      BY <1>4, <3>1, <3>2, AllKept, Zenon
    <3> QED
      BY <1>0, <3>3, Zenon DEF Kept
  <2>2. blob[h] = "none" \/ meta[h] # NoMeta
    BY <1>0, <1>4, BlobHasMeta, Zenon
  <2>3. CallFits(c)'
    BY <1>3, Zenon DEF CallFits
  <2> QED
    BY <1>0, <2>1, <2>2, <2>3, Zenon DEF Balanced, RowsKept, MetaKept
<1>5. pc[c] # "idle"
  BY <1>0, Zenon
<1> QED
  BY <1>2, <1>3, <1>4, <1>5, CallingStep, Zenon

-----------------------------------------------------------------------------
(* The other steps *)

\* Touch: what is read of the metadata of a clean hash is what is written back.
TouchFrame ==
    /\ blob' = blob /\ row' = row /\ pc' = pc /\ reg' = reg
    /\ method' = method /\ gcHash' = gcHash /\ todo' = todo /\ marked' = marked

LEMMA TouchKeeps ==
    ASSUME NEW h \in Hashes, TouchFrame, meta'[h] = meta[h], Books(h), Alone(h)'
    PROVE  Books(h)'
<1>1. \A b \in Chunks : Verified(h, b)' <=> Verified(h, b)
  BY Zenon DEF Verified, TouchFrame
<1>2. MetaKept(h)'
  BY Zenon DEF Books, MetaKept, TouchFrame
<1>3. RowsKept(h)'
  <2>1. ASSUME NEW b \in Chunks, Verified(h, b)' PROVE Kept(b)' \/ pc'[b] \in {"deletemeta", "status"}
    BY <1>1, <2>1, Zenon DEF Books, RowsKept, Kept, TouchFrame, Verified
  <2> QED
    BY <2>1, Zenon DEF RowsKept
<1>4. GcFits(h)'
  BY <1>1, Zenon DEF Books, GcFits, TouchFrame
<1>5. ASSUME NEW b \in Chunks, HashOf[b] = h PROVE CallFits(b)'
  <2>1. CallFits(b)
    BY <1>5, Zenon DEF Books
  <2> QED
    BY <1>1, <1>5, <2>1, Zenon DEF CallFits, TouchFrame
<1> QED
  BY <1>2, <1>3, <1>4, <1>5, Zenon DEF Books

LEMMA TouchReadBooks == ASSUME BooksAre, NEW g \in Hashes, TouchRead(g) PROVE BooksInv'
<1>0. /\ TouchFrame /\ meta' = meta /\ Begin(g, Gc)
      /\ touching' = [touching EXCEPT ![g] = meta[g]]
  BY Zenon DEF TouchRead, TouchFrame, fileVars, gcVars
<1>1. ASSUME NEW h \in Hashes, history'[h] = "clean" PROVE Books(h)'
  <2>1. history[h] = "clean" /\ (h = g => ~Busy(g, Gc))
    BY <1>0, <1>1, BeginClean, Zenon DEF BooksAre
  <2>2. Books(h)
    BY <2>1, Zenon DEF BooksAre, BooksInv
  <2>3. CASE h = g
    <3>1. \A b \in Chunks : ~Calling(h, b)
      BY <2>1, <2>3, Facts, Zenon DEF Busy, Calling
    <3>2. pc[Gc] = "idle" /\ touching'[h] = meta[h]
      BY <1>0, <2>1, <2>3, Zenon DEF Busy, BooksAre, TypeInv, TypeOK
    <3>3. Alone(h)'
      BY <1>0, <3>1, <3>2, Zenon DEF Alone, Calling, TouchFrame
    <3> QED
      BY <1>0, <2>2, <3>3, TouchKeeps, Zenon
  <2>4. CASE h # g
    <3>1. touching'[h] = touching[h]
      BY <1>0, <2>4, Zenon DEF BooksAre, TypeInv, TypeOK
    <3>2. Alone(h)'
      BY <1>0, <2>2, <3>1, Zenon DEF Books, Alone, Calling, TouchFrame
    <3> QED
      BY <1>0, <2>2, <3>2, TouchKeeps, Zenon
  <2> QED
    BY <2>3, <2>4, Zenon
<1> QED
  BY <1>1, Zenon DEF BooksInv

LEMMA TouchWriteBooks == ASSUME BooksAre, NEW g \in Hashes, TouchWrite(g) PROVE BooksInv'
<1>0. /\ TouchFrame /\ touching[g] # NoMeta
      /\ touching' = [touching EXCEPT ![g] = NoMeta]
      /\ MetaFault(g) \/ (meta' = [meta EXCEPT ![g] = touching[g]] /\ history' = history)
  BY Zenon DEF TouchWrite, TouchFrame, fileVars, gcVars
<1>1. /\ \A h \in Hashes \ {g} : meta'[h] = meta[h]
      /\ \A h \in Hashes : history'[h] = "clean" => history[h] = "clean"
      /\ history'[g] = "clean" => meta'[g] = touching[g]
  <2>1. CASE MetaFault(g)
    BY <2>1, MetaFaultFrame, Zenon DEF BooksAre
  <2>2. CASE meta' = [meta EXCEPT ![g] = touching[g]] /\ history' = history
    BY <2>2, Zenon DEF BooksAre, TypeInv, TypeOK
  <2> QED
    BY <1>0, <2>1, <2>2, Zenon
<1>2. ASSUME NEW h \in Hashes, history'[h] = "clean" PROVE Books(h)'
  <2>1. Books(h)
    BY <1>1, <1>2, Zenon DEF BooksAre, BooksInv
  <2>2. Alone(h)
    BY <2>1, Zenon DEF Books
  <2>3. meta'[h] = meta[h]
    BY <1>0, <1>1, <1>2, <2>2, Zenon DEF Alone
  <2>4. touching'[h] \in {touching[h], NoMeta}
    BY <1>0, Zenon DEF BooksAre, TypeInv, TypeOK
  <2>5. Alone(h)'
    BY <1>0, <2>2, <2>3, <2>4, Zenon DEF Alone, Calling, TouchFrame
  <2> QED
    BY <1>0, <2>1, <2>3, <2>5, TouchKeeps, Zenon
<1> QED
  BY <1>2, Zenon DEF BooksInv

\* Long after any call, the metadata is older and has the same references.
LEMMA TimeBooks == ASSUME BooksAre, TimePasses PROVE BooksInv'
<1>0. /\ blob' = blob /\ row' = row /\ pc' = pc /\ touching' = touching /\ history' = history
      /\ \A p \in Procs : pc[p] = "idle"
      /\ \A h \in Hashes : touching[h] = NoMeta
      /\ meta' = [h \in Hashes |-> IF meta[h] = NoMeta THEN NoMeta ELSE [meta[h] EXCEPT !.old = TRUE]]
  BY Zenon DEF TimePasses
<1>1. ASSUME NEW h \in Hashes
      PROVE  /\ meta'[h] = NoMeta <=> meta[h] = NoMeta
             /\ meta[h] # NoMeta => meta'[h].refs = meta[h].refs
  <2>1. CASE meta[h] = NoMeta
    BY <1>0, <2>1, Zenon
  <2>2. CASE meta[h] # NoMeta
    <3>1. PICK m : m = [meta[h] EXCEPT !.old = TRUE]
      BY Zenon
    <3>2. meta[h] \in Metadata /\ meta'[h] = m
      BY <1>0, <2>2, <3>1, Zenon DEF BooksAre, TypeInv, TypeOK
    <3>3. m # NoMeta /\ m.refs = meta[h].refs
      BY <2>2, <3>1, <3>2, NewMetaExists, MetaRefs, Zenon
    <3> QED
      BY <2>2, <3>2, <3>3, Zenon
  <2> QED
    BY <2>1, <2>2, Zenon
<1>2. \A c \in Chunks : pc'[c] = "idle" /\ pc[c] = "idle" /\ HashOf[c] \in Hashes
  BY <1>0, Facts, Zenon
<1>3. ASSUME NEW h \in Hashes, Books(h) PROVE Books(h)'
  <2>1. Alone(h)'
    BY <1>0, <1>2, Zenon DEF Alone, Calling
  <2>2. MetaKept(h)'
    BY <1>0, <1>1, <1>2, <1>3, Zenon DEF Books, MetaKept
  <2>3. ASSUME NEW b \in Chunks, Verified(h, b)' PROVE Kept(b)'
    <3>1. Verified(h, b) /\ HashOf[b] = h
      BY <1>0, <2>3, Zenon DEF Verified
    <3>2. Kept(b)
      BY <1>2, <1>3, <3>1, Zenon DEF Books, RowsKept
    <3> QED
      BY <1>0, <1>1, <3>1, <3>2, Zenon DEF Kept
  <2>4. GcFits(h)'
    <3>1. pc'[Gc] = "idle"
      BY <1>0, Facts, Zenon
    <3> QED
      BY <3>1, Zenon DEF GcFits
  <2>5. ASSUME NEW b \in Chunks PROVE CallFits(b)'
    BY <1>2, Zenon DEF CallFits
  <2> QED
    BY <2>1, <2>2, <2>3, <2>4, <2>5, Zenon DEF Books, RowsKept
<1> QED
  BY <1>0, <1>3, Zenon DEF BooksAre, BooksInv

\* A crash in the middle of a call is in the history; any other leaves the books.
LEMMA RestartBooks == ASSUME BooksAre, Restart PROVE BooksInv'
<1>0. /\ blob' = blob /\ row' = row /\ meta' = meta
      /\ pc' = [p \in Procs |-> "idle"] /\ touching' = [h \in Hashes |-> NoMeta]
  BY Zenon DEF Restart, fileVars
<1>1. ASSUME NEW h \in Hashes, history'[h] = "clean" PROVE history[h] = "clean" /\ ~InFlight(h)
  BY <1>1, Zenon DEF Restart, Dirty, BooksAre, TypeInv, TypeOK
<1>2. \A p \in Procs : pc'[p] = "idle"
  BY <1>0, Zenon
<1>3. ASSUME NEW h \in Hashes, history'[h] = "clean" PROVE Books(h)'
  <2>0. Books(h) /\ \A c \in Chunks : HashOf[c] = h => pc[c] = "idle"
    BY <1>1, <1>3, Zenon DEF BooksAre, BooksInv, InFlight
  <2>1. Alone(h)'
    BY <1>0, <1>2, Facts, Zenon DEF Alone, Calling
  <2>2. MetaKept(h)'
    BY <1>0, <2>0, Zenon DEF Books, MetaKept
  <2>3. ASSUME NEW b \in Chunks, Verified(h, b)' PROVE Kept(b)'
    <3>1. Verified(h, b) /\ HashOf[b] = h
      BY <1>0, <2>3, Zenon DEF Verified
    <3>2. Kept(b)
      BY <2>0, <3>1, Zenon DEF Books, RowsKept
    <3> QED
      BY <1>0, <3>2, Zenon DEF Kept
  <2>4. GcFits(h)'
    <3>1. pc'[Gc] = "idle"
      BY <1>2, Facts, Zenon
    <3> QED
      BY <3>1, Zenon DEF GcFits
  <2>5. ASSUME NEW b \in Chunks PROVE CallFits(b)'
    <3>1. pc'[b] = "idle"
      BY <1>2, Facts, Zenon
    <3> QED
      BY <3>1, Zenon DEF CallFits
  <2> QED
    BY <2>1, <2>2, <2>3, <2>4, <2>5, Zenon DEF Books, RowsKept
<1> QED
  BY <1>3, Zenon DEF BooksInv

-----------------------------------------------------------------------------
(* Steps of the collector *)

GcFrame ==
    /\ row' = row /\ reg' = reg /\ touching' = touching /\ method' = method
    /\ \A c \in Chunks : pc'[c] = pc[c]

\* Nobody is at a clean hash while the collector runs.
Still(h) == touching[h] = NoMeta /\ \A c \in Chunks : HashOf[c] = h => pc[c] = "idle"

LEMMA RunningIsStill ==
    ASSUME BooksAre, NEW h \in Hashes, history[h] = "clean", pc[Gc] # "idle"
    PROVE  Still(h)
<1>1. Alone(h)
  BY Zenon DEF BooksAre, BooksInv, Books
<1> QED
  BY <1>1, Zenon DEF Alone, Calling, Still

\* A step of the collector keeps the books of a hash that is still, if it changes
\* neither the blob nor the metadata, or if no verified chunk needs them.
LEMMA StillKeeps ==
    ASSUME NEW h \in Hashes, GcFrame, Still(h), Books(h), GcFits(h)',
           \/ blob'[h] = blob[h] /\ meta'[h] = meta[h]
           \/ (\A c \in Chunks : ~Verified(h, c)) /\ blob'[h] = "none"
    PROVE  Books(h)'
<1>1. touching'[h] = NoMeta /\ \A c \in Chunks : HashOf[c] = h => pc'[c] = "idle" /\ pc[c] = "idle"
  BY Zenon DEF GcFrame, Still
<1>2. Alone(h)'
  BY <1>1, Zenon DEF Alone, Calling
<1>3. \A c \in Chunks : Verified(h, c)' <=> Verified(h, c)
  BY Zenon DEF GcFrame, Verified
<1>4. ASSUME NEW c \in Chunks, HashOf[c] = h PROVE CallFits(c)'
  <2>1. pc'[c] = "idle"
    BY <1>1, <1>4, Zenon
  <2> QED
    BY <2>1, Zenon DEF CallFits
<1>5. CASE blob'[h] = blob[h] /\ meta'[h] = meta[h]
  <2>1. MetaKept(h)'
    BY <1>1, <1>5, Zenon DEF Books, MetaKept
  <2>2. ASSUME NEW c \in Chunks, Verified(h, c)' PROVE Kept(c)'
    <3>1. Verified(h, c) /\ HashOf[c] = h
      BY <1>3, <2>2, Zenon DEF Verified
    <3>2. Kept(c)
      BY <1>1, <3>1, Zenon DEF Books, RowsKept
    <3> QED
      BY <1>5, <3>1, <3>2, Zenon DEF Kept
  <2> QED
    BY <1>2, <1>4, <2>1, <2>2, Zenon DEF Books, RowsKept
<1>6. CASE (\A c \in Chunks : ~Verified(h, c)) /\ blob'[h] = "none"
  BY <1>2, <1>3, <1>4, <1>6, Zenon DEF Books, RowsKept, MetaKept
<1> QED
  BY <1>5, <1>6, Zenon

\* A step of the collector that takes nothing away.
GcStep ==
    /\ GcFrame /\ blob' = blob /\ meta' = meta
    /\ \A h \in Hashes : history'[h] = "clean" => history[h] = "clean" /\ Still(h) /\ GcFits(h)'

LEMMA GcStepKeeps == ASSUME BooksAre, GcStep PROVE BooksInv'
<1>1. ASSUME NEW h \in Hashes, history'[h] = "clean" PROVE Books(h)'
  <2>1. Still(h) /\ GcFits(h)' /\ GcFrame /\ blob'[h] = blob[h] /\ meta'[h] = meta[h]
    BY <1>1, Zenon DEF GcStep
  <2>2. Books(h)
    BY <1>1, Zenon DEF GcStep, BooksAre, BooksInv
  <2> QED
    BY <2>1, <2>2, StillKeeps, Zenon
<1> QED
  BY <1>1, Zenon DEF BooksInv

\* The place of the collector moves, and no other.
LEMMA GcMoves ==
    ASSUME TypeInv, NEW l, pc' = [pc EXCEPT ![Gc] = l]
    PROVE  pc'[Gc] = l /\ \A c \in Chunks : pc'[c] = pc[c]
  BY Facts, Zenon DEF TypeInv, TypeOK

LEMMA GcStartBooks == ASSUME BooksAre, GcStart PROVE BooksInv'
<1>0. /\ row' = row /\ reg' = reg /\ touching' = touching /\ method' = method
      /\ blob' = blob /\ meta' = meta
  BY Zenon DEF GcStart, fileVars
<1>1. \/ pc' = [pc EXCEPT ![Gc] = "mark"] /\ todo' = Chunks
      \/ pc' = [pc EXCEPT ![Gc] = "list"] /\ method # "mark-and-sweep"
  BY Zenon DEF GcStart, Goto
<1>2. /\ GcFrame
      /\ \/ pc'[Gc] = "mark" /\ todo' = Chunks
         \/ pc'[Gc] = "list" /\ method # "mark-and-sweep"
  BY <1>0, <1>1, GcMoves, Zenon DEF GcFrame, BooksAre
<1>3. ASSUME NEW h \in Hashes PROVE GcFits(h)'
  BY <1>0, <1>2, Zenon DEF GcFits
<1>4. ASSUME NEW h \in Hashes, history'[h] = "clean" PROVE history[h] = "clean" /\ ~InFlight(h)
  BY <1>4, Zenon DEF GcStart, Dirty, BooksAre, TypeInv, TypeOK
<1>5. ASSUME NEW h \in Hashes, history'[h] = "clean" PROVE Still(h)
  BY <1>4, <1>5, Zenon DEF InFlight, Still
<1> QED
  BY <1>0, <1>2, <1>3, <1>4, <1>5, GcStepKeeps, Zenon DEF GcStep

\* A version that is listed has its hash marked; one that cannot be is in the history.
LEMMA GcMarkBooks == ASSUME BooksAre, NEW c \in Chunks, GcMark(c) PROVE BooksInv'
<1> DEFINE g == HashOf[c]
<1>0. /\ row' = row /\ reg' = reg /\ touching' = touching /\ method' = method
      /\ blob' = blob /\ meta' = meta
      /\ pc[Gc] = "mark" /\ todo' = todo \ {c} /\ g \in Hashes
  BY Facts, Zenon DEF GcMark, fileVars
<1>1. \/ history' = history /\ marked' = IF row[c] = "none" THEN marked ELSE marked \cup {g}
      \/ Fault(g) /\ marked' = marked
  BY Zenon DEF GcMark
<1>2. \/ todo = {c} /\ pc' = [pc EXCEPT ![Gc] = "list"]
      \/ pc' = pc
  BY Zenon DEF GcMark, Goto
<1>3. GcFrame /\ (pc'[Gc] = "mark" \/ (todo' = {} /\ pc'[Gc] = "list"))
  BY <1>0, <1>2, GcMoves, Zenon DEF GcFrame, BooksAre
<1>4. /\ \A h \in Hashes : history'[h] = "clean" => history[h] = "clean"
      /\ marked \subseteq marked'
      /\ history'[g] = "clean" /\ row[c] = "verified" => g \in marked'
  <2>1. CASE Fault(g) /\ marked' = marked
    BY <1>0, <2>1, FaultClean, Zenon DEF BooksAre
  <2>2. CASE history' = history /\ marked' = IF row[c] = "none" THEN marked ELSE marked \cup {g}
    <3>1. CASE row[c] = "none"
      BY <2>2, <3>1, Zenon
    <3>2. CASE row[c] # "none"
      BY <2>2, <3>2, Zenon
    <3> QED
      BY <3>1, <3>2, Zenon
  <2> QED
    BY <1>1, <2>1, <2>2, Zenon
<1>5. ASSUME NEW h \in Hashes, history'[h] = "clean" PROVE Still(h) /\ GcFits(h)'
  <2>1. history[h] = "clean"
    BY <1>4, <1>5, Zenon
  <2>2. GcFits(h)
    BY <2>1, Zenon DEF BooksAre, BooksInv, Books
  <2>3. ASSUME NEW b \in Chunks, Verified(h, b)' PROVE b \in todo' \/ h \in marked'
    <3>1. Verified(h, b)
      BY <1>0, <2>3, Zenon DEF Verified
    <3>2. b \in todo \/ h \in marked
      BY <1>0, <2>2, <3>1, Zenon DEF GcFits
    <3> QED
      BY <1>0, <1>4, <1>5, <3>1, <3>2, Zenon DEF Verified
  <2>4. pc'[Gc] = "list" => \A b \in Chunks : Verified(h, b)' => h \in marked'
    BY <1>3, <2>3, Zenon
  <2>5. GcFits(h)'
    BY <1>3, <2>3, <2>4, Zenon DEF GcFits
  <2> QED
    BY <1>0, <2>1, <2>5, RunningIsStill, Zenon
<1> QED
  BY <1>0, <1>3, <1>4, <1>5, GcStepKeeps, Zenon DEF GcStep

LEMMA GcListBooks == ASSUME BooksAre, GcList PROVE BooksInv'
<1>0. /\ row' = row /\ reg' = reg /\ touching' = touching /\ method' = method /\ history' = history
      /\ blob' = blob /\ meta' = meta /\ marked' = marked
      /\ pc[Gc] = "list" /\ pc' = [pc EXCEPT ![Gc] = "sweep"]
  BY Zenon DEF GcList, fileVars, Goto
<1>1. GcFrame /\ pc'[Gc] = "sweep"
  BY <1>0, GcMoves, Zenon DEF GcFrame, BooksAre
<1>2. ASSUME NEW h \in Hashes, history[h] = "clean" PROVE Still(h) /\ GcFits(h)'
  <2>1. GcFits(h)
    BY <1>2, Zenon DEF BooksAre, BooksInv, Books
  <2>2. GcFits(h)'
    BY <1>0, <1>1, <2>1, Zenon DEF GcFits, Verified
  <2> QED
    BY <1>0, <1>2, <2>2, RunningIsStill, Zenon
<1> QED
  BY <1>0, <1>1, <1>2, GcStepKeeps, Zenon DEF GcStep

\* The cycle ends.
LEMMA GcEndBooks == ASSUME BooksAre, GcAbort \/ GcCleanTrash PROVE BooksInv'
<1>0. /\ row' = row /\ reg' = reg /\ touching' = touching /\ method' = method /\ history' = history
      /\ blob' = blob /\ meta' = meta
      /\ pc[Gc] # "idle" /\ pc' = [pc EXCEPT ![Gc] = "idle"]
  BY Zenon DEF GcAbort, GcCleanTrash, fileVars, Goto
<1>1. GcFrame /\ pc'[Gc] = "idle"
  BY <1>0, GcMoves, Zenon DEF GcFrame, BooksAre
<1>2. ASSUME NEW h \in Hashes, history[h] = "clean" PROVE Still(h) /\ GcFits(h)'
  BY <1>0, <1>1, <1>2, RunningIsStill, Zenon DEF GcFits
<1> QED
  BY <1>0, <1>1, <1>2, GcStepKeeps, Zenon DEF GcStep

\* What is collected is not marked, or has no references: no verified chunk needs it.
LEMMA GcSweepBooks == ASSUME BooksAre, GcSweep PROVE BooksInv'
<1>0. /\ row' = row /\ reg' = reg /\ touching' = touching /\ method' = method /\ history' = history
      /\ blob' = blob /\ meta' = meta /\ marked' = marked /\ pc[Gc] = "sweep"
  BY Zenon DEF GcSweep, fileVars
<1>1. PICK e \in listed :
        \/ Collectable(e[1], e[2]) /\ gcHash' = e[1] /\ pc' = [pc EXCEPT ![Gc] = "delete"]
        \/ pc' = pc
  BY Zenon DEF GcSweep, Goto
<1>2. GcFrame
  BY <1>0, <1>1, GcMoves, Zenon DEF GcFrame, BooksAre
<1>3. pc'[Gc] = "sweep" \/ (pc'[Gc] = "delete" /\ Collectable(gcHash', e[2]))
  BY <1>0, <1>1, GcMoves, Zenon DEF BooksAre
<1>4. ASSUME NEW h \in Hashes, history[h] = "clean" PROVE Still(h) /\ GcFits(h)'
  <2>0. Still(h)
    BY <1>0, <1>4, RunningIsStill, Zenon
  <2>1. GcFits(h) /\ RowsKept(h)
    BY <1>4, Zenon DEF BooksAre, BooksInv, Books
  <2>2. method = "mark-and-sweep" => \A c \in Chunks : Verified(h, c) => h \in marked
    BY <1>0, <2>1, Zenon DEF GcFits
  <2>3. method' = "mark-and-sweep" => \A c \in Chunks : Verified(h, c)' => h \in marked'
    BY <1>0, <2>2, Zenon DEF Verified
  <2>4. ASSUME NEW c \in Chunks, Verified(h, c), Collectable(h, e[2]) PROVE FALSE
    <3>1. Kept(c) /\ HashOf[c] = h
      BY <2>0, <2>1, <2>4, Zenon DEF RowsKept, Still, Verified
    <3>2. CASE method = "mark-and-sweep"
      BY <2>2, <2>4, <3>2, Zenon DEF Collectable
    <3>3. CASE method # "mark-and-sweep"
      BY <2>4, <3>1, <3>3, Zenon DEF Collectable, Kept
    <3> QED
      BY <3>2, <3>3, Zenon
  <2>5. pc'[Gc] = "delete" /\ gcHash' = h => \A c \in Chunks : ~Verified(h, c)'
    BY <1>0, <1>3, <2>4, Zenon DEF Verified
  <2>6. GcFits(h)'
    BY <1>3, <2>3, <2>5, Zenon DEF GcFits
  <2> QED
    BY <2>0, <2>6, Zenon
<1> QED
  BY <1>0, <1>2, <1>4, GcStepKeeps, Zenon DEF GcStep

LEMMA GcDeleteBlobBooks == ASSUME BooksAre, DeleteBlob(Gc) PROVE BooksInv'
<1>0. /\ row' = row /\ reg' = reg /\ touching' = touching /\ method' = method /\ history' = history
      /\ meta' = meta /\ marked' = marked /\ gcHash' = gcHash /\ pc[Gc] = "delete"
  BY Zenon DEF DeleteBlob, gcVars
<1>1. \/ blob' = [blob EXCEPT ![gcHash] = "none"] /\ pc' = [pc EXCEPT ![Gc] = "deletemeta"]
      \/ blob' = blob /\ pc' = [pc EXCEPT ![Gc] = "sweep"]
  BY Zenon DEF DeleteBlob, At, Goto, fileVars
<1>2. GcFrame
  BY <1>0, <1>1, GcMoves, Zenon DEF GcFrame, BooksAre
<1>3. ASSUME NEW h \in Hashes, history[h] = "clean" PROVE Books(h)'
  <2>0. Still(h) /\ Books(h)
    BY <1>0, <1>3, RunningIsStill, Zenon DEF BooksAre, BooksInv
  <2>1. /\ method = "mark-and-sweep" => \A c \in Chunks : Verified(h, c) => h \in marked
        /\ gcHash = h => \A c \in Chunks : ~Verified(h, c)
    BY <1>0, <2>0, Zenon DEF Books, GcFits
  <2>2. /\ method' = "mark-and-sweep" => \A c \in Chunks : Verified(h, c)' => h \in marked'
        /\ gcHash' = h => \A c \in Chunks : ~Verified(h, c)'
    BY <1>0, <2>1, Zenon DEF Verified
  <2>3. CASE blob' = [blob EXCEPT ![gcHash] = "none"] /\ pc' = [pc EXCEPT ![Gc] = "deletemeta"]
    <3>1. pc'[Gc] = "deletemeta"
      BY <2>3, GcMoves, Zenon DEF BooksAre
    <3>2. (gcHash = h => blob'[h] = "none") /\ (gcHash # h => blob'[h] = blob[h])
      BY <2>3, Zenon DEF BooksAre, TypeInv, TypeOK
    <3>3. GcFits(h)'
      BY <1>0, <2>2, <3>1, <3>2, Zenon DEF GcFits
    <3> QED
      BY <1>0, <1>2, <2>0, <2>1, <3>2, <3>3, StillKeeps, Zenon
  <2>4. CASE blob' = blob /\ pc' = [pc EXCEPT ![Gc] = "sweep"]
    <3>1. pc'[Gc] = "sweep"
      BY <2>4, GcMoves, Zenon DEF BooksAre
    <3>2. GcFits(h)'
      BY <2>2, <3>1, Zenon DEF GcFits
    <3> QED
      BY <1>0, <1>2, <2>0, <2>4, <3>2, StillKeeps, Zenon
  <2> QED
    BY <1>1, <2>3, <2>4, Zenon
<1> QED
  BY <1>0, <1>3, Zenon DEF BooksInv

LEMMA GcDeleteMetaBooks == ASSUME BooksAre, DeleteMeta(Gc) PROVE BooksInv'
<1>0. /\ row' = row /\ reg' = reg /\ touching' = touching /\ method' = method /\ history' = history
      /\ blob' = blob /\ marked' = marked /\ pc[Gc] = "deletemeta"
      /\ pc' = [pc EXCEPT ![Gc] = "sweep"]
      /\ meta' = meta \/ meta' = [meta EXCEPT ![gcHash] = NoMeta]
  BY Zenon DEF DeleteMeta, At, Goto, fileVars
<1>1. GcFrame /\ pc'[Gc] = "sweep"
  BY <1>0, GcMoves, Zenon DEF GcFrame, BooksAre
<1>2. ASSUME NEW h \in Hashes, history[h] = "clean" PROVE Books(h)'
  <2>0. Still(h) /\ Books(h)
    BY <1>0, <1>2, RunningIsStill, Zenon DEF BooksAre, BooksInv
  <2>1. /\ method = "mark-and-sweep" => \A c \in Chunks : Verified(h, c) => h \in marked
        /\ gcHash = h => (\A c \in Chunks : ~Verified(h, c)) /\ blob[h] = "none"
    BY <1>0, <2>0, Zenon DEF Books, GcFits
  <2>2. GcFits(h)'
    BY <1>0, <1>1, <2>1, Zenon DEF GcFits, Verified
  <2>3. gcHash # h => meta'[h] = meta[h]
    BY <1>0, Zenon DEF BooksAre, TypeInv, TypeOK
  <2> QED
    BY <1>0, <1>1, <2>0, <2>1, <2>2, <2>3, StillKeeps, Zenon
<1> QED
  BY <1>0, <1>2, Zenon DEF BooksInv

\* Nothing the books are about changes.
LEMMA IdleBooks ==
    ASSUME BooksAre, UNCHANGED <<blob, meta, row, pc, reg, touching, gcVars, history>>
    PROVE  BooksInv'
<1>1. TouchFrame /\ meta' = meta /\ touching' = touching /\ history' = history
  BY Zenon DEF TouchFrame, gcVars
<1>2. ASSUME NEW h \in Hashes, Books(h) PROVE Books(h)'
  <2>1. Alone(h)'
    BY <1>1, <1>2, Zenon DEF Books, Alone, Calling, TouchFrame
  <2> QED
    BY <1>1, <1>2, <2>1, TouchKeeps, Zenon
<1> QED
  BY <1>1, <1>2, Zenon DEF BooksAre, BooksInv

-----------------------------------------------------------------------------
LEMMA BooksStep == ASSUME BooksAre, [Next]_vars PROVE BooksInv'
<1>1. ASSUME NEW c \in Chunks, Ingest(c) PROVE BooksInv'
  BY <1>1, IngestStartBooks, PutStatBooks, PutCreateBooks, PutWriteBooks, PutRenameBooks,
     PutMetaBooks, DedupReadBooks, DedupWriteBooks, CreateChunkBooks, Zenon DEF Ingest
<1>2. ASSUME NEW c \in Chunks, Delete(c) PROVE BooksInv'
  BY <1>2, DeleteChunkBooks, WriteRestBooks, DeleteBlobBooks, DeleteMetaBooks, UpdateStatusBooks,
     Zenon DEF Delete
<1>3. ASSUME NEW h \in Hashes, TouchRead(h) \/ TouchWrite(h) PROVE BooksInv'
  BY <1>3, TouchReadBooks, TouchWriteBooks, Zenon
<1>4. CASE Collect
  BY <1>4, GcStartBooks, GcMarkBooks, GcListBooks, GcEndBooks, GcSweepBooks, GcDeleteBlobBooks,
     GcDeleteMetaBooks, Zenon DEF Collect
<1>5. CASE EmptyTrash
  BY <1>5, IdleBooks, Zenon DEF EmptyTrash
<1>6. CASE TimePasses \/ Restart
  BY <1>6, TimeBooks, RestartBooks, Zenon
<1>7. CASE UNCHANGED vars
  <2>1. UNCHANGED <<blob, meta, row, pc, reg, touching, gcVars, history>>
    BY <1>7, Zenon DEF vars, fileVars
  <2> QED
    BY <2>1, IdleBooks, Zenon
<1> QED
  BY <1>1, <1>2, <1>3, <1>4, <1>5, <1>6, <1>7, Zenon DEF Next

\* The books of clean hashes are kept by every step of every call, of the collector,
\* of Touch and by crashes.
THEOREM BooksKept == Spec => []BooksInv
<1>1. ASSUME Init PROVE BooksInv
  <2>1. /\ \A p \in Procs : pc[p] = "idle"
        /\ \A h \in Hashes : touching[h] = NoMeta /\ blob[h] = "none"
        /\ \A c \in Chunks : row[c] = "none"
    BY <1>1, Zenon DEF Init
  <2>2. ASSUME NEW c \in Chunks PROVE CallFits(c) /\ pc[c] = "idle"
    <3>1. pc[c] = "idle"
      BY <2>1, Facts, Zenon
    <3> QED
      BY <3>1, Zenon DEF CallFits
  <2>3. ASSUME NEW h \in Hashes PROVE Alone(h) /\ RowsKept(h) /\ MetaKept(h)
    BY <2>1, <2>2, Zenon DEF Alone, Calling, RowsKept, Verified, MetaKept
  <2>4. ASSUME NEW h \in Hashes PROVE GcFits(h)
    <3>1. pc[Gc] = "idle"
      BY <2>1, Facts, Zenon
    <3> QED
      BY <3>1, Zenon DEF GcFits
  <2> QED
    BY <2>2, <2>3, <2>4, Zenon DEF BooksInv, Books
<1>2. BooksInv /\ TypeInv /\ IInv /\ [Next]_vars => BooksInv'
  BY BooksStep, Zenon DEF BooksAre
<1> QED
  BY <1>1, <1>2, TypeInvariance, Invariance, PTL DEF Spec

\* Calls and collections that do not overlap keep the blob of every verified chunk,
\* for any number of chunks that share any number of hashes, whatever is ingested,
\* deleted or collected in between, and with crashes anywhere.
THEOREM VerifiedChunksHaveBlobs == Spec => []SequentialCallsKeepBlobs
<1>1. BooksInv => SequentialCallsKeepBlobs
  <2>1. ASSUME BooksInv, NEW c \in Chunks, row[c] = "verified", history[HashOf[c]] = "clean",
               ~InFlight(HashOf[c])
        PROVE  Kept(c)
    <3>1. RowsKept(HashOf[c]) /\ Verified(HashOf[c], c) /\ pc[c] = "idle"
      BY <2>1, Facts, Zenon DEF BooksInv, Books, Verified, InFlight
    <3> QED
      BY <3>1, Zenon DEF RowsKept
  <2> QED
    BY <2>1, Zenon DEF SequentialCallsKeepBlobs, Kept
<1> QED
  BY <1>1, BooksKept, PTL

=============================================================================
