------------------------------ MODULE Transfer ------------------------------
(***************************************************************************)
(* The transfer manager of a node: chunked, resumable downloads            *)
(* (internal/p2p/transfer.go) and the download record with its chunk       *)
(* bitmap (internal/domain/sync.go).                                       *)
(*                                                                         *)
(* A download is the record the caller keeps; a run is one activeDownload  *)
(* with its runDownload goroutine and its chunk workers.  tm.mu covers the *)
(* map of active downloads and nothing else: the status, the bitmap and    *)
(* the counter of a record are written without a lock by the workers, by   *)
(* runDownload and by the API calls, so their loads and stores are steps   *)
(* of their own.  MissingChunks and the status writes are single steps.    *)
(*                                                                         *)
(* CompletedChunks is kept as the set of bits that countCompletedChunks    *)
(* counted.  Left out: peers (a fetch fails or succeeds, whatever peer     *)
(* selectPeer names), the callback that is handed received chunks, time    *)
(* stamps and the text of errors.                                          *)
(*                                                                         *)
(* A definition whose name ends in _Broken or the like is the definition   *)
(* that follows it with a plausible mistake; no specification uses it.     *)
(***************************************************************************)
EXTENDS Integers, FiniteSets

CONSTANTS
    Downloads,   \* download records (uuid.New in StartDownload)
    Runs,        \* activeDownload instances
    NoRun,       \* a download that is not in tm.downloads
    Hash,        \* Hash[d] is the content hash of download d
    Total,       \* Total[d] is TotalChunks of download d
    ByteBits,    \* bits in a byte of the bitmap, 8 in the code
    Workers,     \* worker slots of a run, MaxConcurrentChunks of them
    MaxRetries   \* cfg.MaxRetries

ASSUME TransferAssumption ==
    /\ NoRun \notin Runs
    /\ Total \in [Downloads -> Nat]
    /\ ByteBits \in Nat \ {0}
    /\ IsFiniteSet(Workers) /\ Workers # {}
    /\ MaxRetries \in Nat \ {0}

Slots == Runs \X Workers

Chunks(d) == 0..(Total[d] - 1)

\* The chunk indices there are; 0 is also the index of an idle worker.
AllChunks == {0} \cup UNION {Chunks(d) : d \in Downloads}

\* The bits of byte k of a bitmap.
Byte(k) == {c \in AllChunks : c \div ByteBits = k}

VARIABLES
    active,     \* tm.downloads, as the run of each download that is in it
    stop,       \* Stop: not called, waiting for tm.wg, returned
    status,     \* Download.Status
    bitmap,     \* Download.ChunkBitmap, as the set of its bits
    counted,    \* Download.CompletedChunks, as the set of bits counted
    phase,      \* where runDownload is
    dl,         \* the download of a run
    cancelled,  \* ad.cancel was called
    cancel,     \* CancelDownload of the run: not called, waiting for ad.wg, returned
    work,       \* the work channel of a run
    pc,         \* where a chunk worker is
    chunk,      \* chunkIndex of the worker
    retry,      \* failed attempts of the worker at this chunk
    reg,        \* what the worker loaded from the bitmap
    pos,        \* the byte of the bitmap countCompletedChunks is at
    fetched     \* chunks of a download that were received and verified

recordVars == <<status, bitmap, counted, fetched>>
runVars == <<phase, dl, cancelled, cancel, work>>
workerVars == <<pc, chunk, retry, reg, pos>>
vars == <<active, stop, recordVars, runVars, workerVars>>

Statuses == {"none", "active", "paused", "completed", "failed"}
Phases == {"unused", "spawned", "working", "completing", "failing", "removing", "done"}
WorkerPcs == {"none", "idle", "fetch", "store", "count", "write", "exited"}

TypeOK ==
    /\ active \in [Downloads -> Runs \cup {NoRun}]
    /\ stop \in {"no", "waiting", "returned"}
    /\ status \in [Downloads -> Statuses]
    /\ bitmap \in [Downloads -> SUBSET AllChunks]
    /\ counted \in [Downloads -> SUBSET AllChunks]
    /\ phase \in [Runs -> Phases]
    /\ dl \in [Runs -> Downloads]
    /\ cancelled \in [Runs -> BOOLEAN]
    /\ cancel \in [Runs -> {"no", "waiting", "returned"}]
    /\ work \in [Runs -> SUBSET AllChunks]
    /\ pc \in [Slots -> WorkerPcs]
    /\ chunk \in [Slots -> AllChunks]
    /\ retry \in [Slots -> 0..(MaxRetries - 1)]
    /\ reg \in [Slots -> SUBSET AllChunks]
    /\ pos \in [Slots -> Nat]
    /\ fetched \in [Downloads -> SUBSET AllChunks]

Init ==
    /\ active = [d \in Downloads |-> NoRun]
    /\ stop = "no"
    /\ status = [d \in Downloads |-> "none"]
    /\ bitmap = [d \in Downloads |-> {}]
    /\ counted = [d \in Downloads |-> {}]
    /\ phase = [r \in Runs |-> "unused"]
    /\ dl \in {[r \in Runs |-> d] : d \in Downloads}  \* no meaning before the run is used
    /\ cancelled = [r \in Runs |-> FALSE]
    /\ cancel = [r \in Runs |-> "no"]
    /\ work = [r \in Runs |-> {}]
    /\ pc = [x \in Slots |-> "none"]
    /\ chunk = [x \in Slots |-> 0]
    /\ retry = [x \in Slots |-> 0]
    /\ reg = [x \in Slots |-> {}]
    /\ pos = [x \in Slots |-> 0]
    /\ fetched = [d \in Downloads |-> {}]

-----------------------------------------------------------------------------
(* The API of TransferManager *)

\* ctx.Err() of the run: its context is a child of the manager's.
Cancelled(r) == cancelled[r] \/ stop # "no"

Spawn(d, r) ==
    /\ phase[r] = "unused"
    /\ phase' = [phase EXCEPT ![r] = "spawned"]
    /\ dl' = [dl EXCEPT ![r] = d]
    /\ active' = [active EXCEPT ![d] = r]
    /\ status' = [status EXCEPT ![d] = "active"]
    /\ UNCHANGED <<stop, bitmap, counted, fetched, cancelled, cancel, work, workerVars>>

\* StartDownload: a download of the same content that is in the map is returned
\* as it is; otherwise a new record and its first run.
StartDownload(d, r) ==
    /\ status[d] = "none"
    /\ \A e \in Downloads : active[e] # NoRun => Hash[e] # Hash[d]
    /\ Spawn(d, r)

ResumeDownload_Broken(d, r) ==  \* the map is not consulted
    /\ status[d] # "none"
    /\ Spawn(d, r)

\* ResumeDownload, for any record there is: its status is not looked at.  For a
\* download that is still in the map it returns nil and does nothing.
ResumeDownload(d, r) ==
    /\ status[d] # "none"
    /\ active[d] = NoRun
    /\ Spawn(d, r)

PauseDownload(d) ==
    /\ active[d] # NoRun
    /\ cancelled' = [cancelled EXCEPT ![active[d]] = TRUE]
    /\ status' = [status EXCEPT ![d] = "paused"]
    /\ UNCHANGED <<active, stop, bitmap, counted, fetched, phase, dl, cancel, work, workerVars>>

\* CancelDownload up to the unlock.
CancelDownload(d) ==
    /\ active[d] # NoRun
    /\ cancelled' = [cancelled EXCEPT ![active[d]] = TRUE]
    /\ cancel' = [cancel EXCEPT ![active[d]] = "waiting"]
    /\ active' = [active EXCEPT ![d] = NoRun]
    /\ UNCHANGED <<stop, recordVars, phase, dl, work, workerVars>>

\* ad.wg: the workers of a run that were started and have not returned.
NoWorkers(r) == \A x \in Slots : x[1] = r => pc[x] \in {"none", "exited"}

CancelReturn_Broken(r) ==  \* CancelDownload does not wait
    /\ cancel[r] = "waiting"
    /\ cancel' = [cancel EXCEPT ![r] = "returned"]
    /\ UNCHANGED <<active, stop, recordVars, phase, dl, cancelled, work, workerVars>>

\* CancelDownload after ad.wg.Wait().
CancelReturn(r) ==
    /\ cancel[r] = "waiting"
    /\ NoWorkers(r)
    /\ cancel' = [cancel EXCEPT ![r] = "returned"]
    /\ UNCHANGED <<active, stop, recordVars, phase, dl, cancelled, work, workerVars>>

Stop ==
    /\ stop = "no"
    /\ stop' = "waiting"
    /\ UNCHANGED <<active, recordVars, runVars, workerVars>>

\* Stop after tm.wg.Wait().
StopReturn ==
    /\ stop = "waiting"
    /\ \A r \in Runs : phase[r] \in {"unused", "done"}
    /\ stop' = "returned"
    /\ UNCHANGED <<active, recordVars, runVars, workerVars>>

-----------------------------------------------------------------------------
(* runDownload *)

MissingChunks(d) == Chunks(d) \ bitmap[d]

IsComplete(d) == Chunks(d) \subseteq counted[d] /\ Chunks(d) # {}

SetStatus(r, s) ==
    /\ status' = [status EXCEPT ![dl[r]] = s]
    /\ UNCHANGED <<bitmap, counted, fetched>>

\* runDownload up to the wait for the workers.  With nothing missing it
\* completes the download and returns; the map keeps its entry.
RunStart(r) ==
    LET missing == MissingChunks(dl[r])
    IN  /\ phase[r] = "spawned"
        /\ IF missing = {}
           THEN /\ SetStatus(r, "completed")
                /\ phase' = [phase EXCEPT ![r] = "done"]
                /\ UNCHANGED <<work, pc>>
           ELSE /\ phase' = [phase EXCEPT ![r] = "working"]
                /\ work' = [work EXCEPT ![r] = missing]
                /\ \E started \in SUBSET Workers :
                     /\ \/ started = Workers /\ Cardinality(Workers) <= Cardinality(missing)
                        \/ Cardinality(started) = Cardinality(missing)
                     /\ pc' = [x \in Slots |->
                                 IF x[1] = r /\ x[2] \in started THEN "idle" ELSE pc[x]]
                /\ UNCHANGED recordVars
        /\ UNCHANGED <<active, stop, dl, cancelled, cancel, chunk, retry, reg, pos>>

\* runDownload after ad.wg.Wait(): the checks of the result.
RunCheck(r) ==
    /\ phase[r] = "working"
    /\ NoWorkers(r)
    /\ phase' = [phase EXCEPT ![r] = IF IsComplete(dl[r]) THEN "completing"
                                     ELSE IF ~Cancelled(r) THEN "failing" ELSE "removing"]
    /\ UNCHANGED <<active, stop, recordVars, dl, cancelled, cancel, work, workerVars>>

\* completeDownload, or the write of DownloadStatusFailed.
RunStatus(r) ==
    /\ phase[r] \in {"completing", "failing"}
    /\ SetStatus(r, IF phase[r] = "completing" THEN "completed" ELSE "failed")
    /\ phase' = [phase EXCEPT ![r] = "removing"]
    /\ UNCHANGED <<active, stop, dl, cancelled, cancel, work, workerVars>>

RunRemove_Broken(r) ==  \* the goroutine forgets to return
    /\ phase[r] = "removing"
    /\ active' = [active EXCEPT ![dl[r]] = NoRun]
    /\ UNCHANGED <<stop, recordVars, runVars, workerVars>>

RunRemove_Leaks(r) ==  \* the entry is not deleted
    /\ phase[r] = "removing"
    /\ phase' = [phase EXCEPT ![r] = "done"]
    /\ UNCHANGED <<active, stop, recordVars, dl, cancelled, cancel, work, workerVars>>

RunRemove(r) ==
    /\ phase[r] = "removing"
    /\ active' = [active EXCEPT ![dl[r]] = NoRun]
    /\ phase' = [phase EXCEPT ![r] = "done"]
    /\ UNCHANGED <<stop, recordVars, dl, cancelled, cancel, work, workerVars>>

-----------------------------------------------------------------------------
(* chunkWorker and downloadChunk *)

\* downloadChunk returns and its locals are gone.
NextChunk(x) ==
    /\ pc' = [pc EXCEPT ![x] = "idle"]
    /\ chunk' = [chunk EXCEPT ![x] = 0]
    /\ retry' = [retry EXCEPT ![x] = 0]

\* A worker takes the next chunk, if there is one, and then looks at its context.
TakeWork(x) ==
    /\ pc[x] = "idle"
    /\ \/ /\ work[x[1]] = {}
          /\ pc' = [pc EXCEPT ![x] = "exited"]
          /\ UNCHANGED <<work, chunk>>
       \/ \E c \in work[x[1]] :
            /\ \A b \in work[x[1]] : c <= b
            /\ work' = [work EXCEPT ![x[1]] = @ \ {c}]
            /\ IF Cancelled(x[1])
               THEN /\ pc' = [pc EXCEPT ![x] = "exited"]
                    /\ UNCHANGED chunk
               ELSE /\ pc' = [pc EXCEPT ![x] = "fetch"]
                    /\ chunk' = [chunk EXCEPT ![x] = c]
    /\ UNCHANGED <<active, stop, recordVars, phase, dl, cancelled, cancel, retry, reg, pos>>

FetchFails_Accepts(x) ==  \* no continue after a hash mismatch
    /\ pc[x] = "fetch"
    /\ reg' = [reg EXCEPT ![x] = bitmap[dl[x[1]]] \cap Byte(chunk[x] \div ByteBits)]
    /\ pc' = [pc EXCEPT ![x] = "store"]
    /\ UNCHANGED <<active, stop, recordVars, runVars, chunk, retry, pos>>

\* An attempt fails: an error, a timeout or a wrong hash (without peers, all do).
FetchFails(x) ==
    /\ pc[x] = "fetch"
    /\ IF retry[x] + 1 < MaxRetries
       THEN /\ retry' = [retry EXCEPT ![x] = @ + 1]
            /\ UNCHANGED <<pc, chunk>>
       ELSE NextChunk(x)
    /\ UNCHANGED <<active, stop, recordVars, runVars, reg, pos>>

\* The chunk arrived and verifyChunk accepted it.  SetChunkCompleted begins:
\* d.ChunkBitmap[byteIndex] |= bit is a load, here, and a store.
FetchSucceeds(x) ==
    /\ pc[x] = "fetch"
    /\ fetched' = [fetched EXCEPT ![dl[x[1]]] = @ \cup {chunk[x]}]
    /\ reg' = [reg EXCEPT ![x] = bitmap[dl[x[1]]] \cap Byte(chunk[x] \div ByteBits)]
    /\ pc' = [pc EXCEPT ![x] = "store"]
    /\ UNCHANGED <<active, stop, status, bitmap, counted, runVars, chunk, retry, pos>>

StoreByte(x) ==
    LET byte == Byte(chunk[x] \div ByteBits)
    IN  /\ pc[x] = "store"
        /\ bitmap' = [bitmap EXCEPT ![dl[x[1]]] = (@ \ byte) \cup reg[x] \cup {chunk[x]}]
        /\ pc' = [pc EXCEPT ![x] = "count"]
        /\ reg' = [reg EXCEPT ![x] = {}]
        /\ UNCHANGED <<active, stop, status, counted, fetched, runVars, chunk, retry, pos>>

\* countCompletedChunks reads the bitmap byte by byte.
CountByte(x) ==
    /\ pc[x] = "count"
    /\ reg' = [reg EXCEPT ![x] = @ \cup (bitmap[dl[x[1]]] \cap Byte(pos[x]))]
    /\ IF (pos[x] + 1) * ByteBits < Total[dl[x[1]]]
       THEN pos' = [pos EXCEPT ![x] = @ + 1] /\ UNCHANGED pc
       ELSE pos' = [pos EXCEPT ![x] = 0] /\ pc' = [pc EXCEPT ![x] = "write"]
    /\ UNCHANGED <<active, stop, recordVars, runVars, chunk, retry>>

\* SetChunkCompleted writes CompletedChunks, and onChunkReceived is called, which
\* changes nothing here: an error of handleChunk is logged and nothing else.
FinishChunk(x) ==
    /\ pc[x] = "write"
    /\ counted' = [counted EXCEPT ![dl[x[1]]] = reg[x]]
    /\ reg' = [reg EXCEPT ![x] = {}]
    /\ NextChunk(x)
    /\ UNCHANGED <<active, stop, status, bitmap, fetched, runVars, pos>>

-----------------------------------------------------------------------------
Calls ==
    \/ \E d \in Downloads : PauseDownload(d) \/ CancelDownload(d)
    \/ \E d \in Downloads, r \in Runs : StartDownload(d, r) \/ ResumeDownload(d, r)
    \/ \E r \in Runs : CancelReturn(r)
    \/ Stop
    \/ StopReturn

Run(r) == RunStart(r) \/ RunCheck(r) \/ RunStatus(r) \/ RunRemove(r)

Worker(x) ==
    \/ TakeWork(x)
    \/ FetchFails(x) \/ FetchSucceeds(x)
    \/ StoreByte(x) \/ CountByte(x) \/ FinishChunk(x)

Next ==
    \/ Calls
    \/ \E r \in Runs : Run(r)
    \/ \E x \in Slots : Worker(x)

Spec == Init /\ [][Next]_vars

\* Goroutines are scheduled, a fetch returns (ChunkTimeout), and so do the
\* waits of Stop and CancelDownload once their WaitGroup is down.
Fairness ==
    /\ \A r \in Runs : WF_vars(Run(r)) /\ WF_vars(CancelReturn(r))
    /\ \A x \in Slots : WF_vars(Worker(x))
    /\ WF_vars(StopReturn)

FairSpec == Spec /\ Fairness

-----------------------------------------------------------------------------
(* Properties *)

\* A download that completeDownload marked as completed has received and
\* verified every chunk, whatever pauses, cancels, second runs and lost updates
\* of the bitmap came before.
CompletedMeansFetched ==
    \A d \in Downloads : status[d] = "completed" => Chunks(d) \subseteq fetched[d]

\* Once CancelDownload or Stop has returned, no worker of the run is fetching
\* or marking chunks any more, even if runDownload starts its workers late.
QuietAfterCancel ==
    \A x \in Slots :
        cancel[x[1]] = "returned" \/ stop = "returned" => pc[x] \in {"none", "idle", "exited"}

Running(r) == phase[r] \notin {"unused", "done"}

\* A run that has not ended is in the map, where ListDownloads shows it and where
\* it can be paused and cancelled, as long as CancelDownload is not used on its
\* record: the tail of a cancelled run deletes the entry of the run that followed.
RunningIsListed ==
    \A r \in Runs :
        Running(r) => active[dl[r]] = r \/ \E q \in Runs : dl[q] = dl[r] /\ cancel[q] # "no"

\* The map keeps no entry of a run that has ended, except of one that found nothing
\* missing: runDownload returns early there, before it has started a worker and
\* without deleting the entry.  ResumeDownload does nothing for a listed download.
ListedIsRunning ==
    \A d \in Downloads :
        active[d] # NoRun /\ ~Running(active[d])
            => \A x \in Slots : x[1] = active[d] => pc[x] = "none"

\* Every run ends: its goroutine returns whatever the peers do.
RunsEnd == \A r \in Runs : phase[r] = "spawned" ~> phase[r] = "done"

\* ResumeDownload of a paused download is lost while the paused run is in the map,
\* but not for ever: the run leaves the map whatever its workers were doing, unless
\* no chunk is missing.
PausedBecomesResumable ==
    \A d \in Downloads :
        status[d] = "paused" /\ active[d] # NoRun ~> active[d] = NoRun \/ MissingChunks(d) = {}

\* Stop returns: it is not kept waiting by a paused, cancelled or failing run.
StopReturns == stop = "waiting" ~> stop = "returned"

Quiet(d) == \A x \in Slots : dl[x[1]] = d => pc[x] \in {"none", "idle", "fetch", "exited"}

\* Documented: the bitmap tracks completed chunks.
BitmapTracksChunks == \A d \in Downloads : Quiet(d) => bitmap[d] = fetched[d]

=============================================================================
