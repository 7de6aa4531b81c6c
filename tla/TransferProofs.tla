--------------------------- MODULE TransferProofs ---------------------------
(***************************************************************************)
(* Safety of the transfer manager, proved for any number of downloads,     *)
(* runs, workers and chunks.                                               *)
(***************************************************************************)
EXTENDS Transfer, TLAPS

\* What the workers know: a bit, set or loaded or counted, is of a chunk that
\* was received and verified.
SoundInv ==
    /\ \A d \in Downloads : bitmap[d] \subseteq fetched[d] /\ counted[d] \subseteq fetched[d]
    /\ \A x \in Slots :
         /\ reg[x] \subseteq fetched[dl[x[1]]]
         /\ pc[x] \in {"store", "count", "write"} => chunk[x] \in fetched[dl[x[1]]]

\* What the phase of a run says of its workers and of its download.
PhaseInv ==
    /\ \A x \in Slots : phase[x[1]] \in {"unused", "spawned"} => pc[x] = "none" /\ reg[x] = {}
    /\ \A r \in Runs : phase[r] \in {"completing", "failing", "removing", "done"} => NoWorkers(r)
    /\ \A r \in Runs : phase[r] = "completing" => Chunks(dl[r]) \subseteq fetched[dl[r]]

CancelInv ==
    /\ \A r \in Runs : cancel[r] # "no" => cancelled[r]
    /\ QuietAfterCancel

\* The map holds the run of a download, unless CancelDownload was used on it.
MapInv ==
    /\ \A d \in Downloads : active[d] # NoRun => dl[active[d]] = d /\ phase[active[d]] # "unused"
    /\ \A r \in Runs : phase[r] = "unused" => cancel[r] = "no"
    /\ RunningIsListed

IInv ==
    /\ TypeOK
    /\ CompletedMeansFetched
    /\ SoundInv
    /\ PhaseInv
    /\ CancelInv
    /\ MapInv
    /\ ListedIsRunning

-----------------------------------------------------------------------------
\* The sets the types are made of.
LEMMA TypeFacts ==
    /\ 0 \in AllChunks
    /\ \A d \in Downloads : Chunks(d) \subseteq AllChunks
    /\ 0 \in 0..(MaxRetries - 1)
    /\ \A x \in Slots : x[1] \in Runs
  BY TransferAssumption DEF AllChunks, Slots

LEMMA InitIInv == Init => IInv
<1> SUFFICES ASSUME Init PROVE IInv
  BY Zenon
<1> USE TypeFacts, TransferAssumption DEF Init
<1>1. TypeOK
  BY Zenon DEF TypeOK, Statuses, Phases, WorkerPcs
<1>2. CompletedMeansFetched /\ SoundInv
  BY Zenon DEF CompletedMeansFetched, SoundInv
<1>3. PhaseInv
  BY Zenon DEF PhaseInv
<1>4. CancelInv /\ MapInv
  BY Zenon DEF CancelInv, QuietAfterCancel, MapInv, RunningIsListed, Running
<1>5. ListedIsRunning
  BY Zenon DEF ListedIsRunning
<1> QED
  BY <1>1, <1>2, <1>3, <1>4, <1>5, Zenon DEF IInv

\* Every step keeps the types.
LEMMA TypeStep == TypeOK /\ [Next]_vars => TypeOK'
<1> SUFFICES ASSUME TypeOK, [Next]_vars PROVE TypeOK'
  BY Zenon
<1> USE TypeFacts, TransferAssumption
    DEF recordVars, runVars, workerVars, TypeOK, Statuses, Phases, WorkerPcs
<1>1. ASSUME NEW d \in Downloads, NEW r \in Runs, Spawn(d, r) PROVE TypeOK'
  BY <1>1, Zenon DEF Spawn
<1>2. ASSUME NEW d \in Downloads, PauseDownload(d) PROVE TypeOK'
  BY <1>2, Zenon DEF PauseDownload
<1>3. ASSUME NEW d \in Downloads, CancelDownload(d) PROVE TypeOK'
  BY <1>3, Zenon DEF CancelDownload
<1>4. ASSUME NEW r \in Runs, CancelReturn(r) PROVE TypeOK'
  BY <1>4, Zenon DEF CancelReturn
<1>5. CASE Stop \/ StopReturn
  BY <1>5, ZenonT(60) DEF Stop, StopReturn
<1>6. ASSUME NEW r \in Runs, RunStart(r) PROVE TypeOK'
  <2>1. MissingChunks(dl[r]) \in SUBSET AllChunks
    BY Zenon DEF MissingChunks
  <2>2. CASE MissingChunks(dl[r]) = {}
    BY <1>6, <2>2, Zenon DEF RunStart, SetStatus
  <2>3. CASE MissingChunks(dl[r]) # {}
    <3>1. pc' \in [Slots -> WorkerPcs]
      BY <1>6, <2>3 DEF RunStart
    <3>2. /\ phase' = [phase EXCEPT ![r] = "working"]
          /\ work' = [work EXCEPT ![r] = MissingChunks(dl[r])]
          /\ UNCHANGED <<active, stop, recordVars, dl, cancelled, cancel, chunk, retry, reg, pos>>
      BY <1>6, <2>3, Zenon DEF RunStart
    <3> QED
      BY <2>1, <3>1, <3>2, Zenon
  <2> QED
    BY <2>2, <2>3, Zenon
<1>7. ASSUME NEW r \in Runs, RunCheck(r) PROVE TypeOK'
  BY <1>7, Zenon DEF RunCheck
<1>8. ASSUME NEW r \in Runs, RunStatus(r) PROVE TypeOK'
  BY <1>8, Zenon DEF RunStatus, SetStatus
<1>9. ASSUME NEW r \in Runs, RunRemove(r) PROVE TypeOK'
  BY <1>9, Zenon DEF RunRemove
<1>10. ASSUME NEW x \in Slots, TakeWork(x) PROVE TypeOK'
  <2>1. pc' \in [Slots -> WorkerPcs]
    <3>1. pc' \in {[pc EXCEPT ![x] = l] : l \in {"exited", "fetch"}}
      BY <1>10, Zenon DEF TakeWork
    <3> QED
      BY <3>1, Zenon
  <2>2. chunk' \in [Slots -> AllChunks]
    BY <1>10 DEF TakeWork
  <2>a. work' \in [Runs -> SUBSET AllChunks]
    <3>1. work' = work \/ \E c \in AllChunks : work' = [work EXCEPT ![x[1]] = @ \ {c}]
      BY <1>10, ZenonT(60) DEF TakeWork
    <3> QED
      BY <3>1
  <2>3. UNCHANGED <<active, stop, recordVars, phase, dl, cancelled, cancel, retry, reg, pos>>
    BY <1>10, Zenon DEF TakeWork
  <2> QED
    BY <2>1, <2>2, <2>a, <2>3, ZenonT(60)
<1>a. ASSUME NEW x \in Slots, NextChunk(x)
      PROVE  /\ pc' \in [Slots -> WorkerPcs] /\ chunk' \in [Slots -> AllChunks]
             /\ retry' \in [Slots -> 0..(MaxRetries - 1)]
  BY <1>a, Zenon DEF NextChunk
<1>11. ASSUME NEW x \in Slots, FetchFails(x) PROVE TypeOK'
  <2>1. CASE retry[x] + 1 < MaxRetries
    <3>1. retry' \in [Slots -> 0..(MaxRetries - 1)]
      BY <1>11, <2>1 DEF FetchFails
    <3> QED
      BY <1>11, <2>1, <3>1, Zenon DEF FetchFails
  <2>2. CASE ~(retry[x] + 1 < MaxRetries)
    <3>1. NextChunk(x) /\ UNCHANGED <<active, stop, recordVars, runVars, reg, pos>>
      BY <1>11, <2>2, Zenon DEF FetchFails
    <3> QED
      BY <1>a, <3>1, Zenon
  <2> QED
    BY <2>1, <2>2, Zenon
<1>12. ASSUME NEW x \in Slots, FetchSucceeds(x) PROVE TypeOK'
  BY <1>12 DEF FetchSucceeds
<1>13. ASSUME NEW x \in Slots, StoreByte(x) PROVE TypeOK'
  BY <1>13 DEF StoreByte
<1>14. ASSUME NEW x \in Slots, CountByte(x) PROVE TypeOK'
  <2>1. pc' \in [Slots -> WorkerPcs]
    BY <1>14 DEF CountByte
  <2>2. reg' \in [Slots -> SUBSET AllChunks]
    BY <1>14, Zenon DEF CountByte
  <2>3. pos' \in [Slots -> Nat]
    BY <1>14 DEF CountByte
  <2>4. UNCHANGED <<active, stop, recordVars, runVars, chunk, retry>>
    BY <1>14, Zenon DEF CountByte
  <2> QED
    BY <2>1, <2>2, <2>3, <2>4, ZenonT(60)
<1>15. ASSUME NEW x \in Slots, FinishChunk(x) PROVE TypeOK'
  <2>1. reg' \in [Slots -> SUBSET AllChunks] /\ counted' \in [Downloads -> SUBSET AllChunks]
    BY <1>15, Zenon DEF FinishChunk
  <2>2. NextChunk(x) /\ UNCHANGED <<active, stop, status, bitmap, fetched, runVars, pos>>
    BY <1>15, Zenon DEF FinishChunk
  <2> QED
    BY <1>a, <2>1, <2>2, Zenon
<1>16. CASE UNCHANGED vars
  BY <1>16, Zenon DEF vars
<1> QED
  BY <1>1, <1>2, <1>3, <1>4, <1>5, <1>6, <1>7, <1>8, <1>9, <1>10, <1>11, <1>12, <1>13, <1>14, <1>15, <1>16,
     ZenonT(40) DEF Next, Calls, Run, Worker, StartDownload, ResumeDownload

\* A bit never outruns the chunk it stands for, although workers overwrite each
\* other's bytes and counts.
LEMMA SoundStep == IInv /\ [Next]_vars => SoundInv'
<1> SUFFICES ASSUME IInv, [Next]_vars PROVE SoundInv'
  BY Zenon
<1> USE TypeFacts DEF recordVars, runVars, workerVars, IInv, TypeOK, SoundInv
<1>1. ASSUME NEW d \in Downloads, NEW r \in Runs, Spawn(d, r) PROVE SoundInv'
  BY <1>1 DEF Spawn, PhaseInv
<1>2. ASSUME NEW d \in Downloads, PauseDownload(d) \/ CancelDownload(d) PROVE SoundInv'
  BY <1>2, Zenon DEF PauseDownload, CancelDownload
<1>3. CASE (\E r \in Runs : CancelReturn(r)) \/ Stop \/ StopReturn
  BY <1>3, Zenon DEF CancelReturn, Stop, StopReturn
<1>4. ASSUME NEW r \in Runs, RunStart(r) PROVE SoundInv'
  <2>1. UNCHANGED <<bitmap, counted, fetched, dl, reg, chunk>>
    BY <1>4, Zenon DEF RunStart, SetStatus
  <2>2. \A x \in Slots : pc'[x] \in {"store", "count", "write"} => pc'[x] = pc[x]
    BY <1>4 DEF RunStart
  <2> QED
    BY <2>1, <2>2, Zenon
<1>5. ASSUME NEW r \in Runs, RunCheck(r) \/ RunStatus(r) \/ RunRemove(r) PROVE SoundInv'
  BY <1>5, Zenon DEF RunCheck, RunStatus, SetStatus, RunRemove
<1>6. ASSUME NEW x \in Slots, TakeWork(x) PROVE SoundInv'
  <2>1. UNCHANGED <<bitmap, counted, fetched, dl, reg>>
    BY <1>6, Zenon DEF TakeWork
  <2>2. \A y \in Slots : pc'[y] \in {"store", "count", "write"} => pc'[y] = pc[y] /\ chunk'[y] = chunk[y]
    BY <1>6 DEF TakeWork
  <2> QED
    BY <2>1, <2>2, Zenon
<1>7. ASSUME NEW x \in Slots, FetchFails(x) PROVE SoundInv'
  <2>1. UNCHANGED <<bitmap, counted, fetched, dl, reg>>
    BY <1>7, Zenon DEF FetchFails
  <2>2. \A y \in Slots : pc'[y] \in {"store", "count", "write"} => pc'[y] = pc[y] /\ chunk'[y] = chunk[y]
    BY <1>7, ZenonT(60) DEF FetchFails, NextChunk
  <2> QED
    BY <2>1, <2>2, Zenon
<1>8. ASSUME NEW x \in Slots, FetchSucceeds(x) PROVE SoundInv'
  BY <1>8, Zenon DEF FetchSucceeds
<1>9. ASSUME NEW x \in Slots, StoreByte(x) PROVE SoundInv'
  BY <1>9, ZenonT(60) DEF StoreByte
<1>10. ASSUME NEW x \in Slots, CountByte(x) PROVE SoundInv'
  <2>1. UNCHANGED <<bitmap, counted, fetched, dl, chunk>>
    BY <1>10, Zenon DEF CountByte
  <2>2. \A y \in Slots : reg'[y] \subseteq reg[y] \cup bitmap[dl[y[1]]]
    BY <1>10, Zenon DEF CountByte
  <2>3. \A y \in Slots : pc'[y] = pc[y] \/ (y = x /\ pc[x] = "count")
    BY <1>10, Zenon DEF CountByte
  <2> QED
    BY <2>1, <2>2, <2>3, Zenon
<1>11. ASSUME NEW x \in Slots, FinishChunk(x) PROVE SoundInv'
  <2>1. /\ UNCHANGED <<bitmap, fetched, dl>>
        /\ counted' = [counted EXCEPT ![dl[x[1]]] = reg[x]]
        /\ reg' = [reg EXCEPT ![x] = {}]
    BY <1>11, Zenon DEF FinishChunk
  <2>2. \A y \in Slots : pc'[y] \in {"store", "count", "write"} => pc'[y] = pc[y] /\ chunk'[y] = chunk[y]
    BY <1>11, Zenon DEF FinishChunk, NextChunk
  <2> QED
    BY <2>1, <2>2, ZenonT(60)
<1>12. CASE UNCHANGED vars
  BY <1>12, Zenon DEF vars
<1> QED
  BY <1>1, <1>2, <1>3, <1>4, <1>5, <1>6, <1>7, <1>8, <1>9, <1>10, <1>11, <1>12,
     ZenonT(60) DEF Next, Calls, Run, Worker, StartDownload, ResumeDownload

\* What the steps of the workers leave alone.
LEMMA WorkerFrame ==
    ASSUME IInv, NEW x \in Slots, Worker(x)
    PROVE  /\ UNCHANGED <<active, stop, status, phase, dl, cancelled, cancel>>
           /\ \A d \in Downloads : fetched[d] \subseteq fetched'[d]
           /\ \A y \in Slots : y # x => pc'[y] = pc[y] /\ reg'[y] = reg[y]
           /\ pc[x] \notin {"none", "exited"}
           /\ Cancelled(x[1]) /\ pc[x] = "idle" => pc'[x] = "exited"
<1> USE TypeFacts DEF IInv, TypeOK, recordVars, runVars, workerVars
<1>1. CASE TakeWork(x)
  BY <1>1 DEF TakeWork
<1>2. CASE FetchFails(x)
  BY <1>2, Zenon DEF FetchFails, NextChunk
<1>3. CASE FetchSucceeds(x)
  BY <1>3, Zenon DEF FetchSucceeds
<1>4. CASE StoreByte(x)
  BY <1>4, Zenon DEF StoreByte
<1>5. CASE CountByte(x)
  BY <1>5, Zenon DEF CountByte
<1>6. CASE FinishChunk(x)
  BY <1>6, Zenon DEF FinishChunk, NextChunk
<1> QED
  BY <1>1, <1>2, <1>3, <1>4, <1>5, <1>6, ZenonT(60) DEF Worker

\* runDownload waits for its workers before it looks at the result.
LEMMA PhaseStep == IInv /\ [Next]_vars => PhaseInv'
<1> SUFFICES ASSUME IInv, [Next]_vars PROVE PhaseInv'
  BY Zenon
<1> USE TypeFacts DEF recordVars, runVars, workerVars, IInv, TypeOK, PhaseInv, NoWorkers
<1>1. ASSUME NEW d \in Downloads, NEW r \in Runs, Spawn(d, r) PROVE PhaseInv'
  BY <1>1 DEF Spawn
<1>2. ASSUME NEW d \in Downloads, PauseDownload(d) \/ CancelDownload(d) PROVE PhaseInv'
  BY <1>2, Zenon DEF PauseDownload, CancelDownload
<1>3. CASE (\E r \in Runs : CancelReturn(r)) \/ Stop \/ StopReturn
  BY <1>3, ZenonT(60) DEF CancelReturn, Stop, StopReturn
<1>4. ASSUME NEW r \in Runs, RunStart(r) PROVE PhaseInv'
  <2>1. CASE MissingChunks(dl[r]) = {}
    BY <1>4, <2>1, SMTT(30) DEF RunStart, SetStatus
  <2>2. CASE MissingChunks(dl[r]) # {}
    <3>1. /\ phase' = [phase EXCEPT ![r] = "working"]
          /\ \A x \in Slots : x[1] # r => pc'[x] = pc[x]
          /\ UNCHANGED <<dl, fetched, reg>>
      BY <1>4, <2>2 DEF RunStart
    <3> QED
      BY <3>1, SMTT(30)
  <2> QED
    BY <2>1, <2>2, Zenon
<1>5. ASSUME NEW r \in Runs, RunCheck(r) PROVE PhaseInv'
  <2>1. IsComplete(dl[r]) => Chunks(dl[r]) \subseteq fetched[dl[r]]
    BY Zenon DEF IsComplete, SoundInv
  <2> QED
    BY <1>5, <2>1 DEF RunCheck
<1>6. ASSUME NEW r \in Runs, RunStatus(r) \/ RunRemove(r) PROVE PhaseInv'
  BY <1>6 DEF RunStatus, SetStatus, RunRemove
<1>7. ASSUME NEW x \in Slots, Worker(x) PROVE PhaseInv'
  <2>1. /\ phase' = phase /\ dl' = dl
        /\ \A d \in Downloads : fetched[d] \subseteq fetched'[d]
        /\ \A y \in Slots : y # x => pc'[y] = pc[y] /\ reg'[y] = reg[y]
        /\ pc[x] \notin {"none", "exited"}
    BY <1>7, WorkerFrame, Zenon
  <2>2. phase[x[1]] = "working"
    <3>1. x[1] \in Runs /\ phase[x[1]] \in Phases
      BY TypeFacts, Zenon DEF TypeOK
    <3>2. phase[x[1]] \notin {"unused", "spawned"}
      BY <2>1, Zenon DEF PhaseInv
    <3>3. phase[x[1]] \notin {"completing", "failing", "removing", "done"}
      BY <2>1, <3>1, Zenon DEF PhaseInv, NoWorkers
    <3> QED
      BY <3>1, <3>2, <3>3, Zenon DEF Phases
  <2> QED
    BY <2>1, <2>2, SMTT(90)
<1>8. CASE UNCHANGED vars
  BY <1>8, Zenon DEF vars
<1> QED
  BY <1>1, <1>2, <1>3, <1>4, <1>5, <1>6, <1>7, <1>8,
     ZenonT(60) DEF Next, Calls, Run, StartDownload, ResumeDownload

\* A download is marked as completed with every chunk received.
LEMMA CompletedStep == IInv /\ [Next]_vars => CompletedMeansFetched'
<1> SUFFICES ASSUME IInv, [Next]_vars PROVE CompletedMeansFetched'
  BY Zenon
<1> USE TypeFacts DEF recordVars, runVars, workerVars, IInv, TypeOK, CompletedMeansFetched
<1>1. ASSUME NEW d \in Downloads, NEW r \in Runs, Spawn(d, r) PROVE CompletedMeansFetched'
  BY <1>1, Zenon DEF Spawn
<1>2. ASSUME NEW d \in Downloads, PauseDownload(d) \/ CancelDownload(d) PROVE CompletedMeansFetched'
  BY <1>2, Zenon DEF PauseDownload, CancelDownload
<1>3. CASE (\E r \in Runs : CancelReturn(r)) \/ Stop \/ StopReturn
  BY <1>3, Zenon DEF CancelReturn, Stop, StopReturn
<1>4. ASSUME NEW r \in Runs, RunStart(r) PROVE CompletedMeansFetched'
  <2>1. MissingChunks(dl[r]) = {} => Chunks(dl[r]) \subseteq fetched[dl[r]]
    BY Zenon DEF MissingChunks, SoundInv
  <2> QED
    BY <1>4, <2>1, Zenon DEF RunStart, SetStatus
<1>5. ASSUME NEW r \in Runs, RunStatus(r) PROVE CompletedMeansFetched'
  BY <1>5, Zenon DEF RunStatus, SetStatus, PhaseInv
<1>6. ASSUME NEW r \in Runs, RunCheck(r) \/ RunRemove(r) PROVE CompletedMeansFetched'
  BY <1>6, Zenon DEF RunCheck, RunRemove
<1>7. ASSUME NEW x \in Slots, Worker(x) PROVE CompletedMeansFetched'
  <2>1. status' = status /\ \A d \in Downloads : fetched[d] \subseteq fetched'[d]
    BY <1>7, WorkerFrame, Zenon
  <2> QED
    BY <2>1, Zenon
<1>8. CASE UNCHANGED vars
  BY <1>8, Zenon DEF vars
<1> QED
  BY <1>1, <1>2, <1>3, <1>4, <1>5, <1>6, <1>7, <1>8,
     ZenonT(60) DEF Next, Calls, Run, StartDownload, ResumeDownload

\* CancelDownload and Stop return when the workers have, and workers that are
\* started later find their context cancelled.
LEMMA CancelStep == IInv /\ [Next]_vars => CancelInv'
<1> SUFFICES ASSUME IInv, [Next]_vars PROVE CancelInv'
  BY Zenon
<1>0. ASSUME NEW x \in Slots, Worker(x)
      PROVE  /\ UNCHANGED <<stop, cancelled, cancel>>
             /\ \A y \in Slots : y # x => pc'[y] = pc[y]
             /\ pc[x] \notin {"none", "exited"}
             /\ Cancelled(x[1]) /\ pc[x] = "idle" => pc'[x] = "exited"
  BY <1>0, WorkerFrame, Zenon
<1> USE TypeFacts DEF recordVars, runVars, workerVars, IInv, TypeOK, CancelInv, QuietAfterCancel
<1>1. ASSUME NEW d \in Downloads, NEW r \in Runs, Spawn(d, r) PROVE CancelInv'
  BY <1>1, Zenon DEF Spawn
<1>2. ASSUME NEW d \in Downloads, PauseDownload(d) PROVE CancelInv'
  BY <1>2, Zenon DEF PauseDownload
<1>3. ASSUME NEW d \in Downloads, CancelDownload(d) PROVE CancelInv'
  BY <1>3, Zenon DEF CancelDownload
<1>4. ASSUME NEW r \in Runs, CancelReturn(r) PROVE CancelInv'
  BY <1>4, Zenon DEF CancelReturn, NoWorkers
<1>5. CASE Stop
  BY <1>5, Zenon DEF Stop
<1>6. CASE StopReturn
  <2>1. \A x \in Slots : pc[x] \in {"none", "exited"}
    BY <1>6, Zenon DEF StopReturn, PhaseInv, NoWorkers
  <2> QED
    BY <1>6, <2>1, Zenon DEF StopReturn
<1>7. ASSUME NEW r \in Runs, RunStart(r) PROVE CancelInv'
  <2>1. UNCHANGED <<stop, cancelled, cancel>> /\ \A x \in Slots : pc'[x] \in {pc[x], "idle"}
    BY <1>7 DEF RunStart
  <2> QED
    BY <2>1, Zenon
<1>8. ASSUME NEW r \in Runs, RunCheck(r) \/ RunStatus(r) \/ RunRemove(r) PROVE CancelInv'
  <2>1. UNCHANGED <<stop, cancelled, cancel, pc>>
    BY <1>8, Zenon DEF RunCheck, RunStatus, RunRemove
  <2> QED
    BY <2>1, Zenon
<1>9. ASSUME NEW x \in Slots, Worker(x) PROVE CancelInv'
  <2>1. /\ UNCHANGED <<stop, cancelled, cancel>>
        /\ \A y \in Slots : y # x => pc'[y] = pc[y]
        /\ pc[x] \notin {"none", "exited"}
        /\ Cancelled(x[1]) /\ pc[x] = "idle" => pc'[x] = "exited"
    BY <1>0, <1>9, Zenon
  <2>2. cancel[x[1]] = "returned" \/ stop = "returned" => pc[x] = "idle" /\ Cancelled(x[1])
    BY <2>1, Zenon DEF Cancelled
  <2> QED
    BY <2>1, <2>2, Zenon
<1>10. CASE UNCHANGED vars
  BY <1>10, Zenon DEF vars
<1> QED
  BY <1>1, <1>2, <1>3, <1>4, <1>5, <1>6, <1>7, <1>8, <1>9, <1>10,
     ZenonT(60) DEF Next, Calls, Run, StartDownload, ResumeDownload

\* The entry of a download in the map is its newest run.
LEMMA MapStep == IInv /\ [Next]_vars => MapInv'
<1> SUFFICES ASSUME IInv, [Next]_vars PROVE MapInv'
  BY Zenon
<1>0. /\ MapInv
      /\ active \in [Downloads -> Runs \cup {NoRun}] /\ NoRun \notin Runs
      /\ phase \in [Runs -> Phases] /\ dl \in [Runs -> Downloads]
      /\ cancel \in [Runs -> {"no", "waiting", "returned"}]
  BY TransferAssumption, Zenon DEF IInv, TypeOK
<1> USE <1>0 DEF MapInv, RunningIsListed, Running
<1>1. ASSUME NEW d \in Downloads, NEW r \in Runs, Spawn(d, r), active[d] = NoRun PROVE MapInv'
  <2>1. /\ phase' = [phase EXCEPT ![r] = "spawned"]
        /\ dl' = [dl EXCEPT ![r] = d]
        /\ active' = [active EXCEPT ![d] = r]
        /\ cancel' = cancel
        /\ phase[r] = "unused" /\ cancel[r] = "no"
    BY <1>1, Zenon DEF Spawn
  <2>2. ASSUME NEW e \in Downloads, active'[e] # NoRun
        PROVE  dl'[active'[e]] = e /\ phase'[active'[e]] # "unused"
    BY <2>1, <2>2
  <2>3. ASSUME NEW q \in Runs, phase'[q] = "unused" PROVE cancel'[q] = "no"
    BY <2>1, <2>3, Zenon
  <2>4. ASSUME NEW q \in Runs, Running(q)'
        PROVE  active'[dl'[q]] = q \/ \E s \in Runs : dl'[s] = dl'[q] /\ cancel'[s] # "no"
    <3>1. CASE q = r
      BY <2>1, <3>1
    <3>2. CASE q # r
      <4>1. Running(q) /\ dl'[q] = dl[q]
        BY <2>1, <2>4, <3>2, Zenon
      <4>2. CASE active[dl[q]] = q
        BY <1>1, <2>1, <4>1, <4>2
      <4>3. CASE \E s \in Runs : dl[s] = dl[q] /\ cancel[s] # "no"
        BY <2>1, <4>1, <4>3
      <4> QED
        BY <4>1, <4>2, <4>3, Zenon
    <3> QED
      BY <3>1, <3>2, Zenon
  <2> QED
    BY <2>2, <2>3, <2>4, Zenon
<1>2. ASSUME NEW d \in Downloads, PauseDownload(d) PROVE MapInv'
  BY <1>2, Zenon DEF PauseDownload, recordVars, runVars, workerVars
<1>3. ASSUME NEW d \in Downloads, CancelDownload(d) PROVE MapInv'
  <2>1. /\ active[d] \in Runs /\ dl[active[d]] = d
        /\ cancel' = [cancel EXCEPT ![active[d]] = "waiting"]
        /\ active' = [active EXCEPT ![d] = NoRun]
        /\ phase' = phase /\ dl' = dl
    BY <1>3 DEF CancelDownload
  <2>2. \A s \in Runs : cancel[s] # "no" => cancel'[s] # "no"
    BY <2>1, Zenon
  <2>3. cancel'[active[d]] # "no"
    BY <2>1, Zenon
  <2>4. ASSUME NEW q \in Runs, Running(q)'
        PROVE  active'[dl'[q]] = q \/ \E s \in Runs : dl'[s] = dl'[q] /\ cancel'[s] # "no"
    BY <2>1, <2>2, <2>3, <2>4, Zenon
  <2>5. \A q \in Runs : phase'[q] = "unused" => cancel'[q] = "no"
    BY <2>1
  <2> QED
    BY <2>1, <2>4, <2>5
<1>4. ASSUME NEW r \in Runs, CancelReturn(r) PROVE MapInv'
  BY <1>4, Zenon DEF CancelReturn, recordVars, runVars, workerVars
<1>5. CASE Stop \/ StopReturn
  BY <1>5 DEF Stop, StopReturn, recordVars, runVars, workerVars
<1>6. ASSUME NEW r \in Runs, RunStart(r) \/ RunCheck(r) \/ RunStatus(r) PROVE MapInv'
  <2>1. /\ phase[r] \notin {"unused", "done"} /\ phase'[r] # "unused"
        /\ \A q \in Runs : q # r => phase'[q] = phase[q]
        /\ UNCHANGED <<active, dl, cancel>>
    BY <1>6 DEF RunStart, RunCheck, RunStatus, Phases
  <2> QED
    BY <2>1
<1>7. ASSUME NEW r \in Runs, RunRemove(r) PROVE MapInv'
  <2>1. /\ phase[r] = "removing"
        /\ phase' = [phase EXCEPT ![r] = "done"]
        /\ active' = [active EXCEPT ![dl[r]] = NoRun]
        /\ UNCHANGED <<dl, cancel>>
    BY <1>7, Zenon DEF RunRemove
  <2>2. ASSUME NEW q \in Runs, Running(q)'
        PROVE  active'[dl'[q]] = q \/ \E s \in Runs : dl'[s] = dl'[q] /\ cancel'[s] # "no"
    <3>1. q # r /\ Running(q) /\ Running(r)
      BY <2>1, <2>2, Zenon
    <3>2. CASE dl[q] # dl[r]
      BY <2>1, <3>1, <3>2, ZenonT(60)
    <3>3. CASE dl[q] = dl[r]
      BY <2>1, <3>1, <3>3
    <3> QED
      BY <3>2, <3>3, Zenon
  <2>3. \A e \in Downloads :
          active'[e] # NoRun => dl'[active'[e]] = e /\ phase'[active'[e]] # "unused"
    BY <2>1
  <2>4. \A q \in Runs : phase'[q] = "unused" => cancel'[q] = "no"
    BY <2>1, Zenon
  <2> QED
    BY <2>2, <2>3, <2>4, Zenon
<1>8. ASSUME NEW x \in Slots, Worker(x) PROVE MapInv'
  <2>1. UNCHANGED <<active, phase, dl, cancel>>
    BY <1>8, WorkerFrame, Zenon
  <2> QED
    BY <2>1, Zenon
<1>9. CASE UNCHANGED vars
  BY <1>9, Zenon DEF vars, runVars
<1>10. ASSUME NEW d \in Downloads, NEW r \in Runs, StartDownload(d, r) \/ ResumeDownload(d, r)
       PROVE  Spawn(d, r) /\ active[d] = NoRun
  BY <1>10, Zenon DEF StartDownload, ResumeDownload
<1> QED
  BY <1>1, <1>2, <1>3, <1>4, <1>5, <1>6, <1>7, <1>8, <1>9, <1>10, ZenonT(60) DEF Next, Calls, Run

\* A run deletes its own entry before it is done, unless it has had no worker.
LEMMA ListedStep == IInv /\ [Next]_vars => ListedIsRunning'
<1> SUFFICES ASSUME IInv, [Next]_vars,
                    NEW e \in Downloads, active'[e] # NoRun,
                    phase'[active'[e]] \in {"unused", "done"},
                    NEW y \in Slots, y[1] = active'[e]
             PROVE  pc'[y] = "none"
  BY Zenon DEF ListedIsRunning, Running
<1> DEFINE q == active[e]
<1>0. /\ active \in [Downloads -> Runs \cup {NoRun}] /\ phase \in [Runs -> Phases]
      /\ dl \in [Runs -> Downloads] /\ pc \in [Slots -> WorkerPcs]
  BY Zenon DEF IInv, TypeOK
<1>a. q # NoRun /\ phase[q] \in {"unused", "done"} /\ y[1] = q => pc[y] = "none"
  BY Zenon DEF IInv, ListedIsRunning, Running
<1>b. q # NoRun => q \in Runs /\ dl[q] = e
  BY <1>0 DEF IInv, MapInv
<1>c. phase'[active'[e]] \in {"unused", "done"}
  OBVIOUS
<1>d. CASE active'[e] = q /\ phase'[q] = phase[q] /\ pc'[y] = pc[y]
  BY <1>a, <1>c, <1>d, Zenon
<1> HIDE DEF q
<1>1. ASSUME NEW d \in Downloads, NEW r \in Runs, Spawn(d, r) PROVE pc'[y] = "none"
  <2>1. /\ phase' = [phase EXCEPT ![r] = "spawned"]
        /\ active' = [active EXCEPT ![d] = r] /\ pc' = pc
    BY <1>1, Zenon DEF Spawn, workerVars
  <2>2. phase'[r] = "spawned"
    BY <1>0, <2>1, Zenon
  <2>3. active'[e] # r
    BY <1>c, <2>2, Zenon
  <2>4. active'[e] = q /\ q \in Runs /\ q # r
    BY <1>0, <1>b, <2>1, <2>3, ZenonT(60) DEF q
  <2>5. phase'[q] = phase[q]
    BY <1>0, <2>1, <2>4, Zenon
  <2> QED
    BY <1>d, <2>1, <2>4, <2>5, Zenon
<1>2. ASSUME NEW d \in Downloads, PauseDownload(d) PROVE pc'[y] = "none"
  BY <1>2, <1>d, Zenon DEF PauseDownload, workerVars, q
<1>3. ASSUME NEW d \in Downloads, CancelDownload(d) PROVE pc'[y] = "none"
  <2>1. active' = [active EXCEPT ![d] = NoRun] /\ phase' = phase /\ pc' = pc
    BY <1>3, Zenon DEF CancelDownload, workerVars
  <2>2. active'[e] = q
    BY <1>0, <2>1, ZenonT(60) DEF q
  <2> QED
    BY <1>d, <2>1, <2>2, Zenon
<1>4. ASSUME NEW r \in Runs, CancelReturn(r) PROVE pc'[y] = "none"
  BY <1>4, <1>d, Zenon DEF CancelReturn, workerVars, q
<1>5. CASE Stop \/ StopReturn
  BY <1>5, <1>d, Zenon DEF Stop, StopReturn, runVars, workerVars, q
<1>6. ASSUME NEW r \in Runs, RunStart(r) PROVE pc'[y] = "none"
  <2>0. active'[e] = q /\ q \in Runs /\ \A x \in Slots : x[1] = r => pc[x] = "none"
    <3>1. active' = active /\ phase[r] = "spawned"
      BY <1>6, Zenon DEF RunStart
    <3>2. \A x \in Slots : x[1] = r => pc[x] = "none"
      BY <3>1, Zenon DEF IInv, PhaseInv
    <3> QED
      BY <1>b, <3>1, <3>2, Zenon DEF q
  <2>1. CASE MissingChunks(dl[r]) = {}
    <3>1. phase' = [phase EXCEPT ![r] = "done"] /\ pc' = pc
      BY <1>6, <2>1, Zenon DEF RunStart
    <3>2. CASE q = r
      BY <2>0, <3>1, <3>2, Zenon
    <3>3. CASE q # r
      BY <1>0, <1>d, <2>0, <3>1, <3>3, Zenon
    <3> QED
      BY <3>2, <3>3, Zenon
  <2>2. CASE MissingChunks(dl[r]) # {}
    <3>1. phase' = [phase EXCEPT ![r] = "working"]
      BY <1>6, <2>2, Zenon DEF RunStart
    <3>2. q # r
      BY <1>0, <1>c, <2>0, <3>1, Zenon
    <3>3. PICK started \in SUBSET Workers :
            pc' = [x \in Slots |-> IF x[1] = r /\ x[2] \in started THEN "idle" ELSE pc[x]]
      BY <1>6, <2>2, Zenon DEF RunStart
    <3>4. pc'[y] = pc[y]
      BY <2>0, <3>2, <3>3, Zenon
    <3> QED
      BY <1>0, <1>d, <2>0, <3>1, <3>2, <3>4, Zenon
  <2> QED
    BY <2>1, <2>2, Zenon
<1>7. ASSUME NEW r \in Runs, RunCheck(r) \/ RunStatus(r) PROVE pc'[y] = "none"
  <2>1. active'[e] = q /\ q \in Runs /\ pc' = pc
    BY <1>7, <1>b, Zenon DEF RunCheck, RunStatus, workerVars, q
  <2>2. phase'[r] \notin {"unused", "done"} /\ \A p \in Runs : p # r => phase'[p] = phase[p]
    BY <1>0, <1>7 DEF RunCheck, RunStatus
  <2> QED
    BY <1>c, <1>d, <2>1, <2>2, Zenon
<1>8. ASSUME NEW r \in Runs, RunRemove(r) PROVE pc'[y] = "none"
  <2>1. /\ active' = [active EXCEPT ![dl[r]] = NoRun] /\ pc' = pc
        /\ phase' = [phase EXCEPT ![r] = "done"]
    BY <1>8, Zenon DEF RunRemove, workerVars
  <2>2. active'[e] = q /\ dl[r] # e
    BY <1>0, <2>1, ZenonT(60) DEF q
  <2>3. q \in Runs /\ q # r
    BY <1>b, <2>2, Zenon
  <2> QED
    BY <1>0, <1>d, <2>1, <2>2, <2>3, Zenon
<1>9. ASSUME NEW x \in Slots, Worker(x) PROVE pc'[y] = "none"
  <2>1. active' = active /\ phase' = phase /\ pc[x] # "none" /\ (y # x => pc'[y] = pc[y])
    BY <1>9, WorkerFrame, Zenon
  <2>2. pc[y] = "none"
    BY <1>a, <1>c, <2>1, Zenon DEF q
  <2> QED
    BY <2>1, <2>2, Zenon
<1>10. CASE UNCHANGED vars
  BY <1>10, <1>d, Zenon DEF vars, runVars, workerVars, q
<1>11. ASSUME NEW d \in Downloads, NEW r \in Runs, StartDownload(d, r) \/ ResumeDownload(d, r)
       PROVE  Spawn(d, r)
  BY <1>11, Zenon DEF StartDownload, ResumeDownload
<1> QED
  BY <1>1, <1>2, <1>3, <1>4, <1>5, <1>6, <1>7, <1>8, <1>9, <1>10, <1>11, ZenonT(60) DEF Next, Calls, Run

-----------------------------------------------------------------------------
\* IInv is inductive: no call of the API, and no step of a run or of a worker,
\* breaks it.
THEOREM Invariance == Spec => []IInv
<1>1. IInv /\ [Next]_vars => IInv'
  BY TypeStep, SoundStep, PhaseStep, CompletedStep, CancelStep, MapStep, ListedStep, Zenon DEF IInv
<1> QED
  BY InitIInv, <1>1, PTL DEF Spec

\* The variables keep their types; a worker never counts up to MaxRetries.
THEOREM TypeCorrect == Spec => []TypeOK
<1>1. IInv => TypeOK
  BY Zenon DEF IInv
<1> QED
  BY Invariance, <1>1, PTL

\* A completed download has received and verified every chunk, however many
\* workers race on its bitmap.
THEOREM CompletedIsFetched == Spec => []CompletedMeansFetched
<1>1. IInv => CompletedMeansFetched
  BY Zenon DEF IInv
<1> QED
  BY Invariance, <1>1, PTL

\* After CancelDownload or Stop has returned the workers of the run are quiet.
THEOREM CancelIsQuiet == Spec => []QuietAfterCancel
<1>1. IInv => QuietAfterCancel
  BY Zenon DEF IInv, CancelInv
<1> QED
  BY Invariance, <1>1, PTL

\* Without CancelDownload, a run that has not ended is the one in the map.
THEOREM RunsAreListed == Spec => []RunningIsListed
<1>1. IInv => RunningIsListed
  BY Zenon DEF IInv, MapInv
<1> QED
  BY Invariance, <1>1, PTL

\* Only the early return of runDownload leaves an entry behind.
THEOREM EndedLeavesMap == Spec => []ListedIsRunning
<1>1. IInv => ListedIsRunning
  BY Zenon DEF IInv
<1> QED
  BY Invariance, <1>1, PTL

=============================================================================
