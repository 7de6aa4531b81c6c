# Verification of bib in TLA+

`bib` is a peer-to-peer data network: a daemon (`cmd/bibd`) with storage, a
libp2p node, optional clustering, authentication and a gRPC interface, and a
command line client (`cmd/bib`). This directory models the parts of it in which
concurrency, failures and restarts decide whether the code is right. The modules
are checked with TLC on small instances, and their main properties are proved
with TLAPS for all instances.

## How to run

    tlc -workers 2 -config BreakGlass.cfg MCBreakGlass
    tlapm BreakGlassProofs.tla

Every `X.cfg` belongs to the `MC` module whose name it starts with. The list of
runs, the source lines behind each definition, the hazards and the findings are
in `PROJECT.json`.

## Inventory

| Part | Source | State it owns and who touches it | Module |
|---|---|---|---|
| Break glass access | `internal/storage/breakglass`, `grpc/services/breakglass` | one session in memory under a mutex; RPCs, one expiry goroutine per session, PostgreSQL roles that outlive the process | `BreakGlass` |
| Transfer manager | `internal/p2p/transfer.go`, `internal/domain/sync.go` | a map of running downloads under a mutex, download records without one; API calls, a goroutine per run, chunk workers | `Transfer` |
| Local blob store, ingestion, garbage collection | `internal/storage/blob/{local,ingestion,gc}.go` | files and database rows, no lock; transfer workers, reads with background touches, the collector, other processes | `BlobStore` |
| Hybrid store and S3 store | `internal/storage/blob/{hybrid,s3}.go` | two tiers, no lock; calls, background warm-ups, the tiering command | `HybridStore`, `BlobKeeping` |
| Users, challenges, sessions | `internal/auth`, `grpc/services/{auth,user}`, the user and session repositories of `storage/sqlite` | rows that each request reads and writes back without a transaction, challenges in memory; gRPC and SSH requests, clean-up jobs | `Accounts` |
| Topics, members, invitations | `grpc/services/topic`, the topic repositories of `storage/sqlite` | the same, for three tables | `Topics` |
| Daemon, gRPC and SSH servers | `cmd/bibd`, `internal/grpc/server_lifecycle.go`, `internal/ssh` | what is running; the main goroutine, clients, the health check of the managed PostgreSQL | `Lifecycle` |
| Bootstrap and discovery | `internal/p2p/{bootstrap,discovery}.go` | one loop per bootstrap peer, a goroutine that waits for them | `Bootstrap`, composed in `Lifecycle` |
| Cluster node | `internal/cluster/{raft,fsm,storage,cluster}.go` | a cache, tables, a log and snapshot files; the apply loop, the snapshot loop, callers, clean-ups. The Raft node is a placeholder: there are no elections and there is no replication to model | `ClusterNode` |
| Credential rotation | `storage/postgres/credentials`, `roles.go`, `pool` | a file, the roles of the database, a pool and the state of the rotator, changed one after the other; callers, the scheduler, crashes | `Rotation` |
| Storing received chunks, node modes, PubSub, node manager, cluster transport, audit log | `internal/p2p`, `internal/cluster/transport.go`, `storage/audit` | see "Not modelled" | none |
| Other SQL, migrations, backup, container runtimes, certificates, configuration, setup, CLI, TUI | the rest | I/O, parsing, rendering; no interleaving of their own | not modelled |

How they interact: the daemon (`Lifecycle`) opens the stores, starts the P2P node
with its bootstrapper (`Bootstrap`), the cluster node (`ClusterNode`), and the
gRPC and SSH servers. Their requests log in and administer accounts (`Accounts`),
manage topics (`Topics`) and open break glass sessions (`BreakGlass`). Downloads
of the transfer manager (`Transfer`) end in a callback that ingests each chunk
into the blob store (`BlobStore`, or `HybridStore` over it) and the chunks table.
Break glass and credential rotation (`Rotation`) act on the roles of the same
PostgreSQL instance. `Lifecycle` extends `Bootstrap`: the step of `Stop` that
waits for the goroutines of discovery waits for the state of that module.

## Plan

Done: the ten modules above and their runs, and the proofs listed under them.
What would come next, in this order: the audit log (its hash chain against the
order of its rows), the peers map of the cluster transport, the synchronisation
of the node modes against unsubscription, and the composition of `Transfer` with
`BlobStore` through the chunk callback.

## Conventions

A module has the state of its component as VARIABLES, one action per step that
other actors can see half-done, and its properties at the end. Code under one
lock is one action; code without a lock has one action per access to shared
state. Calls that fail without changing anything are not steps. A definition
`X_Broken`, `X_Untyped` or the like is `X` with a plausible mistake: no
specification uses it; it is there to be put in place of `X`, upon which the
property named beside it in `PROJECT.json` must fail.

The proofs about a module `X` are in `XProofs`. Those about `Rotation` and about
`Lifecycle` with `Bootstrap` share `DaemonProofs`, so the standard definitions of
`Lifecycle` carry a name of their own (`DaemonInit`, `DaemonNext`, `DaemonSpec`).

## BreakGlass

*Code.* `Manager` keeps one session. `EnableSession` of the gRPC service calls
`VerifyChallenge`, which deletes the challenge, and then `Enable`, which creates
a PostgreSQL role and starts `monitorExpiry`. `Disable` or the monitor ends the
session: the role is dropped, a report becomes pending if acknowledgment is
required, and `Acknowledge` removes it.

*Model.* Every method holds the mutex throughout, so it is one action.
`verified` is the set of RPCs between their two calls into the manager. A
monitor is spawned, computes how long to wait, waits and fires, each a step of
its own. `Tick` is the clock. `Restart` forgets all but the roles and reads the
configuration again. Nothing under `src/` calls `SetDatabaseCallback`, so a
process has the callback or not (`dbCallback`); without it no role is made.
Creating, granting and dropping roles may fail wherever the code handles it. `trail` records the events given to `LogBreakGlassEvent`.

| Model | Code |
|---|---|
| `CreateChallenge`, `VerifyChallenge`, `Enable`, `Disable`, `Acknowledge` | the methods of `Manager` of these names |
| `StartSession`, `CreateUserFails` | the two outcomes of `CreateBreakGlassUser` inside `Enable` |
| `EndSession` | `endSession`, called by `Disable` and by the monitor |
| `MonitorStart`, `MonitorFire` | `monitorExpiry` before and after its timer |
| `session`, `pending`, `chState` | `m.session`, `m.pendingReports`, `m.challenges` |
| `roles`, `roleUntil` | PostgreSQL roles and their `VALID UNTIL` |
| `verified`, `via`, `trail` | RPCs in progress; ghosts for the properties |

*Run.* `breakglass`: two sessions, two challenges and a clock, so that a session
can outlive another and the timer of an old session fires during a new one. It
checks that the active session is the current one (`ActiveIsCurrent`), that a
session starts, ends and is acknowledged at most once and in that order although
`Disable` races the monitor (`AuditTrailWellFormed`), that only its own timer
expires a session
(`NoEarlyExpiry`) and that a challenge opens one session
(`ChallengeOpensOneSession`); that the end of a session is
logged in the end (`SessionEventuallyEnds`), unless the process restarts or an
`Enable` after its expiry overwrites it before its monitor runs; and that its
credential stops working whatever fails and restarts
(`CredentialEventuallyInvalid`). Fairness: time passes, and the Go runtime runs a
goroutine that is ready. Nobody is assumed to call `Disable` or `Acknowledge`.

*Proofs* (`BreakGlassProofs`). All these safety properties, for any numbers of
sessions and challenges and any durations, and two more: the role of the current
session exists if there is a callback (`CurrentSessionHasRole`), and pending
reports are unique and of ended sessions (`PendingReportsUnique`). The inductive invariant ties the
pieces of state that the properties mention separately: the state of a session
determines its trail (`TrailInv`), pending reports are of sessions in state
`pending_ack` (`PendingInv`), a session that is active without being current
has run out of time (`ActiveInv`), and a verified challenge is gone from the map
before any session comes of it (`ChallengeInv`): without that, nothing would
exclude a second RPC that is past its verification with the same challenge.

## Transfer

*Code.* `StartDownload` and `ResumeDownload` put an `activeDownload` into the
map and start `runDownload`, which feeds the missing chunks to workers, waits
for them, writes the status and deletes the map entry. Workers fetch with
retries, verify, and mark the chunk in the bitmap of the record. The mutex
covers the map only.

*Model.* A run goes through phases (`RunStart`, `RunCheck`, `RunStatus`,
`RunRemove`), so calls fall in between. `SetChunkCompleted` is modelled as its
memory accesses: load a byte, store it, count byte by byte, write the count;
two workers can lose each other's bit. `CancelDownload` and `Stop` return when
their wait groups are down. A fetch fails or succeeds; what is fetched and
passes verification is recorded in `fetched`.

| Model | Code |
|---|---|
| `StartDownload`, `ResumeDownload`, `PauseDownload`, `Stop` | the methods of `TransferManager` |
| `CancelDownload`, `CancelReturn` | `CancelDownload` before and after `ad.wg.Wait()` |
| `RunStart`, `RunCheck`, `RunStatus`, `RunRemove` | `runDownload`, cut at its wait and its unlocked writes |
| `TakeWork`, `FetchFails`, `FetchSucceeds` | `chunkWorker`, and an attempt of `downloadChunk` |
| `StoreByte`, `CountByte`, `FinishChunk` | `SetChunkCompleted` and `countCompletedChunks` |
| `active`, `work` | `tm.downloads`, the work channel |
| `status`, `bitmap`, `counted` | fields of `domain.Download` |

*Runs.* `transfer`: two downloads of the same hash, one of them empty, two runs,
several bytes, retries. It checks that a completed download has received every
chunk despite pauses and second runs (`CompletedMeansFetched`), that no worker
fetches or marks once `CancelDownload` or `Stop` returned (`QuietAfterCancel`),
that a run is the one in the map unless its download was cancelled
(`RunningIsListed`), that the map keeps no run that has ended but one that found
nothing missing (`ListedIsRunning`), that every run ends (`RunsEnd`), that a
paused download leaves the map, so that a `ResumeDownload` is not lost for ever
(`PausedBecomesResumable`), and that `Stop` returns (`StopReturns`). Races of
two workers on one byte are in `transfer_lost_bit`, and in the proofs, which are
for any number of workers. Fairness: goroutines run, a fetch returns because of
`ChunkTimeout`, and a wait on a wait group returns once it is down. A system in
which all runs are used up may stop, so deadlock is not checked here.

*Proofs* (`TransferProofs`). The safety properties for any number of downloads,
runs, workers and chunks. `SoundInv` is the heart: a bit, whether in the bitmap,
in a register of a worker or in a count, is of a chunk that was received; lost
updates only remove bits, so it survives every interleaving. `PhaseInv` says
that a run that checks its result has no workers left, `MapInv` whose entry is
in the map. That a run past its check has no workers is also what tells an entry
left by the early return from one that the end of a run would have deleted.

## BlobStore

*Code.* `IngestChunk` looks for the blob; it either adds a reference to the
metadata or calls `Put` (temp file, rename, metadata), then creates the row.
`DeleteChunk` removes the reference or, with the last one, the blob, which goes
to the trash. `Get` starts a goroutine that rewrites the metadata. The collector
marks by rows or counts references, sweeps old blobs, and empties the trash by
age. Deleting a dataset sets its status only, so rows of chunks stay.

*Model.* There is no lock, so every access to a file or to the database is an
action, of any chunk's call, of a touch or of the collector. Files are absent,
empty or whole, and an open file keeps being written where a rename has moved
it. Every access that can fail may fail (`Faults`), with the clean-up or the
warning the code has for it. `Restart` is a crash at any point. Time has two
values, recent and longer ago than the configured days. The ghost `history`
remembers of a hash whether calls on it overlapped or failed half-way, whether two
`Put`s of it used the temp file at once, and whether one of these ended while it
had the published blob still to write.

| Model | Code |
|---|---|
| `IngestStart`, `DedupRead`, `DedupWrite`, `CreateChunk` | `IngestChunk` |
| `PutStat`, `PutCreate`, `PutWrite`, `PutRename`, `PutMeta` | `LocalStore.Put` with its deferred clean-up |
| `DeleteChunk`, `WriteRest`, `UpdateStatus` | `Ingestion.DeleteChunk` |
| `DeleteBlob`, `DeleteMeta` | `LocalStore.Delete`, from a chunk or from the collector |
| `TouchRead`, `TouchWrite` | the goroutine of `Get` |
| `GcStart` ... `GcCleanTrash`, `EmptyTrash` | `GarbageCollector.Run`, its two methods, the trash |
| `temp`, `blob`, `trash`, `meta`, `row` | the files of a hash and the row of a chunk |

Assumed: a crash is one of the process, so that what was written is in the file
system, and readers do not see metadata half-written (they may find it
truncated, which counts as none).

*Run.* `blob`: three chunks with the same content, reads, and either collector.
`history` never gets better, and `SequentialCallsKeepBlobs` claims nothing of a
hash that is not clean. So a constraint (`Continued`) goes on from a state after
an overlap, a fault or a crash only with ingestions, more faults and more crashes,
which is what `RenamePublishesWholeBlobs` is about; the proofs have no such limit.
`SequentialCallsKeepBlobs`: a verified chunk whose calls did not
overlap and did not fail half-way has its blob, whole, and its reference, through
any sequence of ingestions, deletions, collections and crashes in between.
`RenamePublishesWholeBlobs`: a blob that can be read is whole, whatever fails and
wherever the process crashes. When `Put`s of its hash overlapped and it is empty,
somebody still has it open and is to write it, or ended before writing.

*Proofs* (`BlobStoreProofs`). Both, and `TypeOK`, for any chunks and hashes. For
`RenamePublishesWholeBlobs` the invariant is ownership of the temp file: a `Put`
between `os.Create` and `os.Rename` that no other overlaps is the only one there,
has the file open until it has written it, and finds it whole when it renames it.
Of overlapping `Put`s, `OpenInv` says that an empty blob is open in a call that has
still to write it, until one of them ends before it did, and so is an empty temp
file that somebody may yet rename.
`SequentialCallsKeepBlobs` needs to know of every point of a call what the call
knows there: `DeleteChunk` removes the blob on references that it read a step
before, the collector on marks and counts that it gathered over many. `BooksInv`
says it of every clean hash. At most one call, touch or collection is under way
(`Alone`); blob, metadata and rows fit together but for what that one has taken
away or not yet added (`RowsKept`, `MetaKept`, `CallFits`); and what the collector
has not marked, or is about to delete, is of no verified chunk (`GcFits`).

## HybridStore and BlobKeeping

*Code.* `Put` writes to the hot tier. `Get` and `Exists` look in the hot, then
in the cold tier; a cold hit starts `WarmUp` in the background. `CoolDown`
uploads unless the cold tier has the blob, then deletes the hot copy. `Delete`
removes from both.

*Model.* A tier is the set of hashes it holds. Every access to a tier is a step
of the call that makes it. Accesses fail, an upload may succeed and be reported
as failed, and a process dies between any two accesses (`Crash`). A read that
goes on to warm up turns into that goroutine. `doomed` is a ghost: the hashes
of which a `Delete` began since the calls on them were last at rest.

| Model | Code |
|---|---|
| `Put`, `Get`, `Exists`, `WarmUp`, `CoolDown`, `Delete` | the calls on `HybridStore`, as they begin |
| `PutStat`, `Rename` | `LocalStore.Put` |
| `GetHot`, `GetCold`, `ExistsHot`, `ExistsCold` | the two look-ups of a read |
| `WarmCold`, `WarmHot`, `WarmRead` | `WarmUp` and `S3Store.Copy` |
| `CoolHot`, `CoolCold`, `CoolRead`, `UploadStat`, `Upload`, `Drop` | `CoolDown`, `LocalStore.Copy`, `S3Store.Put`, `LocalStore.Delete` |
| `DeleteHot`, `DeleteRead`, `DeleteCold` | `Delete` on both tiers |

`BlobKeeping` is what a blob store promises: what was put stays until its
deletion is asked for. `HybridStore` implements it with
`stored <- hot \cup cold` (`KeepsBlobs`). The promise is deliberately not
stronger: `Delete` followed by a new `Put` while a `CoolDown` of that hash is
still in flight can lose the new blob, because `CoolDown` acts on the cold copy
it saw before. `ReadsFindBlobs` says that a read finds a blob that is there
when it begins, although it looks in two places one after the other.

*Run.* `hybrid_keeping`: two hashes, three calls, faults. Two calls show every
race of a pair; the third is needed for a move that races a move that races a
read.

*Proofs* (`HybridStoreProofs`). Both properties and the refinement, for any
hashes and callers. The invariant (`CallInv`) says of each call what it may
rely on: a call about to delete the hot copy has a cold one, a reader that
missed the hot tier has a cold copy to find, unless the hash is doomed, and a
`Delete` in flight dooms its hash. It is inductive because a hash stops being
doomed only when no call on it is left.

## Accounts

*Code.* A login looks the key up (`GetByPublicKey`), registers a new user if that
is allowed, writes the row back with the time of the login, checks the session
limit and creates a session. `VerifyChallenge` of the auth service takes a
challenge out of the `ChallengeStore` first; the SSH server logs in without one.
The user service reads a row, changes a field and writes the whole row back. No
call runs in a transaction.

*Model.* A request is a member of `Calls`. It is served once, one step per
statement of a repository, and what it keeps in between is a record
(`CallType`). Every statement that the code lets fail may fail, and a cancelled
context ends a call at any point (`Abandon`). The ghosts make the exceptions
exact: `behind` marks a call whose row another call has changed, `late` a call
that was let in before the sessions it depends on were ended, and `raced`,
`crowded` and `missed` the users to whom that has done something. `want` is the
row that the administrative calls asked for. `NewRole` is the role that the
configuration gives to a user who registers, `user` if it names none that is
valid.

| Model | Code |
|---|---|
| `Challenge`, `GetChallenge`, `VerifyChallenge`, `CleanupChallenges` | `ChallengeStore`, `Server.VerifyChallenge` of the auth service |
| `LoginLookup`, `LoginCount`, `LoginCreate`, `LoginTouch`, `LoginLimit`, `LoginEvict`, `LoginOpen` | `Service.Authenticate`, statement by statement |
| `EditUser`, `EditUserWrite`, `AddUser`, `DeleteUser`, `EndAll` | the user service; `Asked` is the field each call changes |
| `RevokeSession`, `RevokeAllSessions`, `RevokeList`, `RevokeNext`, `Refresh`, `RefreshWrite`, `Logout` | the session calls of both services |
| `row`, `sess`, `chal` | the tables and the map |

*Run.* `accounts`: any three calls of two users in any overlap, on rows that are
absent, active or deleted, with a limit of one session. Three calls are enough
for a login, the call that overtakes it and one that sees the result. It checks
that changes by administrators take effect and stay (`AdminChangesStick`), that a
suspended or deleted user is signed out (`SignedOut`), the limit
(`SessionLimit`), one session per challenge (`OneSessionPerChallenge`), that
registration gives the role that fits the accounts at the moment of the insertion,
an administrator's to the account that opens an empty database whatever overlaps
(`FirstUserIsAdmin`), and that an ended session stays ended (`EndedStaysEnded`), each with its exceptions.
Two first logins at once may both become administrators: the second has counted
before the first was inserted, which is the exception of `FirstUserIsAdmin`.
A finite number of calls comes to an end, so deadlock is not checked.

*Proofs* (`AccountsProofs`). All these properties, for any users, challenges,
requests, session limit and bound on the sessions. None is inductive, because a
call acts on what it has read. `Fresh` says that a call has the row of its user as
it is, or is marked as overtaken, which gives `AdminChangesStick` and, with the
role that fits the count it has made (`FitRole`), `FirstUserIsAdmin`: accounts are
never removed, so a call that found some (`Inhabited`) inserts into no empty
database; `Numbered` the same of a session and its refresh, which gives
`EndedStaysEnded`. A session number and a challenge have one owner (`SessInv`,
`ChalInv`). `SignInv` adds to `SignedOut` the logins that will open a session yet.
`Limited` adds to `SessionLimit` that one login at a time is past the check, and
that there is room for its session, or will be once it has ended the one that it
has picked: the count it compared is old by then, and only its own step may add
to the sessions that it counted.

## Topics

*Code.* `CreateTopic` inserts a topic and then the membership of its owner,
ignoring an error of the second. The membership manager checks the role of the
actor, reads the member, counts the owners when one is to go, and writes. An
invitation is read, checked, acted on and only then marked. `RestoreTopic`
removes all members that were not owners when it listed them.

*Model.* As `Accounts`: calls that are served once, one step per statement, any
of which may be the last. There is one topic. A membership has a generation
(`gen`), since `Members().Update` goes by its id and `Members().Delete` by the
user. `blind` records that an owner was removed by a call whose check was out of
date, `contested` the invitations answered by a call that was overtaken.

| Model | Code |
|---|---|
| `CreateTopic`, `CreateTopicInsert`, `CreateTopicOwner`, `EditTopic*`, `UpdateTopicWrite`, `DeleteTopicWrite`, `Subscribe*`, `Unsubscribe` | `topic/server.go` |
| `EditMember`, `EditMemberGet`, `CountOwners`, `SetRole`, `Remove`, `Restore*` | `topic/membership.go`: roles, removal, transfer, restore |
| `InviteMember`, `InviteCreate`, `AcceptInvitation`, `AcceptJoin`, `AcceptWrite`, `DeclineInvitation`, `CancelInvitation`, `AnswerWrite`, `ExpirePending` | invitations |
| `Create`, `Update`, `Delete` | the member repository of SQLite |

*Run.* `topics`: any three calls of three users, on no topic or on one with
owners, viewers and at least one user who is not a member, and one invitation.
`KeepsOwner`: a topic has an owner, unless one was removed on a stale check.
`OneAnswer`: an invitation makes one user a member and is accepted, or nobody and
is not. `UpdateTopicWrite` writes back the status that `UpdateTopic` has read and so
undoes a deletion in between; no property excludes it, because the code does it.
Deadlock is not checked, as in `Accounts`.

*Proofs* (`TopicsProofs`). `KeepsOwner` and `OneAnswer` hold for any users, invitations and requests, however many overlap. The invariant `IInv`
says what a call may rely on at each of its points. A call about to demote or
remove somebody leaves an owner (`LeavesOwner`): it saw two owners, or its target is
none, or a write that made this untrue has marked it. A call about to answer an
invitation finds it pending (`UpToDate`), unless it was marked, and one call at a
time is between the two writes of an acceptance (`AnswerInv`). A call past a check
that only owners pass has a topic that was completely created (`Settled`), without
which the gap between the two writes of `CreateTopic` would count as a topic with no
owner. Frame lemmas (`OwnerFrame`, `AnswerFrame`) say what a step has to tell the
other calls; the lemma of each action shows that it does.

## Lifecycle and Bootstrap

*Code.* `Daemon.Start` starts the parts one after the other and rolls back what
it has started when one fails; `Stop` stops them in the reverse order, each stop
doing nothing when the daemon has no pointer to the part. The bootstrapper dials
each peer in a loop with exponential backoff and waits until `MinPeers` are
connected.

*Model.* `at` is the step at which the main goroutine is. `Then` is the order of
`Stop`, of which every roll-back is a tail. `held` is what the daemon has a
pointer to and `live` what exists, so that the two can differ. Clients connect
and call at any time, the health check of the managed PostgreSQL restarts it, and
`Expire` is the end of the 30 seconds that `main` gives to `Stop`. `Lifecycle`
extends `Bootstrap` and shares its variables: `DiscoveryWait` waits for the
`waiter` of that module, `BootstrapperWait` for its loops. The backoff is
computed as in the code: a product that is out of the range of a Duration is
converted to either end of the range, which depends on the processor.

| Model | Code |
|---|---|
| `WritePIDFile` ... `StartSSH` | `Daemon.Start` and the `start...` methods it calls |
| `StopSSH` ... `RemovePIDFile` | `Daemon.Stop` and the `stop...` methods |
| `GracefulStop`, `Drain`, `CloseListeners` | `Server.Stop` of gRPC |
| `HealthCheckFails`, `HandleHealthFailure` | `healthCheckLoop` of the PostgreSQL manager |
| `ConnectOK`, `ConnectFails`, `BackoffOver`, `ConnectionLost`, `LoopEnds` | `connectWithBackoff` and `monitorConnection` |
| `WaitForMinPeers`, `DiscoveryWait`, `BootstrapperWait` | `waitForMinPeers`, `Discovery.Stop`, `Bootstrapper.Stop` |

*Run.* `lifecycle`: three configurations, no bootstrap peer (the default) or one
that comes and goes, every step failing. `StoreOutlivesUsers`: when the store is
closed nothing uses it any more, but for what `Stop` gave up waiting for, calls that
a server took whose start failed, and calls on the Unix socket. `Released`: at the
end nothing is left but what a failed step left behind, a PostgreSQL that was
restarted or could not be stopped, and the PID file of a failed start.
`BackoffHolds`: a wait between two dials is bounded, and it is not empty unless the
default interval was lost or the product left the range of a Duration.
`StopReturnsOnceBootstrapped`: `Stop` ends if P2P is off, no peer is configured, or
enough peers can be reached in the end. Fairness: the main goroutine and the loops are
run, and time passes; peers and clients owe nothing. The process ends, so
deadlock is not checked.

*Proofs* (`DaemonProofs`, second part). The three safety properties and
`DaemonTypeOK`, for any set of configurations, any bootstrap peers and any
intervals. Neither `Released` nor `StoreOutlivesUsers` is inductive: they speak of
the last steps only. `MayLive` is the table of what may exist at each step of
`Start` and `Stop`, and `LiveInOrder` says that nothing else does, but for what a
failed step left behind. A stop step does nothing without a pointer, so the table
holds at the next step only because what exists has a pointer (`Backed`): the
gRPC listeners the one of the server, except between the TCP listener and the
Unix socket; the PostgreSQL container one as long as the health check may restart
it. `Served` ties connections and calls to the listener or to the step that still
waits for them. Three lemmas do the work once: a step of `Start` that succeeds
(`StartedKeeps`), one that fails, wherever its roll-back begins
(`RolledBackKeeps`), and a stop step (`StoppedKeeps`); for an action it remains to
read its rows of the table. `BackoffHolds` needs that an interval of zero comes
from the configuration (`IntervalSet`) and that a power of two is positive, which
is shown of the recursion `Pow2` with a least counterexample.

## ClusterNode

*Code.* `RaftNode` applies what arrives on `commitCh` to the `FSM`, which keeps
maps and stores rows, and then moves `appliedIndex` under another lock.
`TakeSnapshot`, called by the snapshot loop and by anybody, reads that index,
copies the maps, writes a file and a row, and deletes the log up to the index
less `TrailingLogs`; a clean-up in the background keeps the `RetainCount`
furthest snapshots.

*Model.* The engine that would feed `commitCh` does not exist in the code and is
environment: it appends to the log and delivers in its order, again from the
first entry after a restart. A value has two parts, each the index of the command
that wrote it, so contents tell which commands they have seen: the definition of a
job, which storing the job again does not update in its row (`Upsert`), and the
rest. `TakeSnapshot` is cut at each of its four steps. `split` is the keys on which
a failed write left maps and tables apart, `hollow` that a snapshot was created or
removed by half, `sound` the snapshots of a state machine that had missed nothing. Rows, files and writes fail separately, and a crash
falls anywhere. Indexes are unsigned words (`Word`), since the difference wraps
around when fewer than `TrailingLogs` commands were applied.

| Model | Code |
|---|---|
| `Start`, `HasMembers` | `Cluster.Start`, `RaftNode.Bootstrap`, `loadState` |
| `ApplyCommand`, `Effect`, `Upsert`, `Stored`, `Advance` | `FSM.Apply` and `applyLoop` |
| `Tick`, `TakeSnapshot`, `TakeData`, `CreateSnapshot`, `Compact` | `snapshotLoop`, `TakeSnapshot`, `Storage.CreateSnapshot`, `DeleteRange` |
| `Cleanup`, `Retained` | `cleanupSnapshots` and its query |
| `Restore` | `FSM.Restore` |

*Run.* `cluster`: a log of two commands, a job and an entry of the catalog, the loop
and another caller, two snapshots of which one is kept, one trailing entry. That is enough for two
snapshots that overlap and finish in either order, a clean-up of either, and a
crash in between; the difference wraps around at the first index. `CacheBacked`:
what the maps have of a key the tables have too, but for the definition of a job,
and but for a key whose last write failed after the map was changed, until it is
written again. `SnapshotCovers`: a snapshot has every command up to its index.
`LogCovered`: a command is in the log, or its effect in a snapshot that can be read.
It says nothing once a snapshot was taken of a state machine that was not whole: a
process that starts on a compacted log replays the rest of it on empty maps.
`BootstrapsOnce`: a node founds one cluster in its lifetime. A constraint
(`Sound`) does not continue from a state in which a snapshot was created or
removed by half, of which `LogCovered` says nothing. The bounds on the log and on
the snapshots are bounds on the behaviour, so deadlock is not checked.

*Proofs* (`ClusterNodeProofs`). All these safety properties and `TypeOK`, for
any keys, callers, log, retention and width of the index.
`LogCovered` rests on two invariants, one of which says that some listed snapshot
goes far enough, the other what is in it. The first is not inductive: between the
row of a snapshot and the compaction another `TakeSnapshot` may have cleaned that
row up. `CoverInv` adds that a
caller about to compact finds some listed snapshot that goes as far as its index,
and that a listed snapshot has its file; a clean-up keeps the furthest ones, so
the cover survives it. `SnapshotCovers` follows from `SnapInv`: an index that a
call has read was applied before (`Counts`), a state machine that missed nothing
is the replay of what was delivered and the log has the rest, because only
applied commands are compacted away (`Intact`), and so a copy of it has at least
what its index says (`Copies`). What `Replay` computes, and that appending a
command does not change the replay of the earlier ones, is shown with a least
counterexample (`Least`, `Alike`), since the induction theorems of the library
cannot be used.

## Rotation

*Code.* `Rotate` refuses to run while its state is not idle, complete or failed.
It generates a set, creates the roles, marks the old set, updates the pool, waits
for the grace period, drops the old roles, saves the new set and makes it current.
A failure ends it where it is. The scheduler rotates when a tick finds the set
too old, or when it is triggered. Nothing outside the tests creates a `Rotator`
yet; the callback it is given is taken to be the role manager and the pool.

*Model.* A set is a number. The roles of a set are altered by one batch, so one
name stands for them; it is the same name for all sets, as in the code. Each call
in `Rotate` is a step that succeeds or fails, and the process may crash between
any two, keeping the file and the database. The pool opens every connection with
the connection string it was created with (`pool`); `UpdateCredentials` sets a
field that nothing reads (`poolCreds`). `spoiled` remembers that a rotation
which had altered the roles did not complete, or that `Initialize` replaced a file
it could not read; `blank`, that a `Rotate` found a
manager without credentials.

| Model | Code |
|---|---|
| `Initialize`, `Generate` | `Manager.Initialize`, `Manager.generate` |
| `RotateBegin` ... `Complete` | `Rotator.Rotate`, call by call |
| `CreateRoles`, `DropRoles`, `UpdatePool` | `RoleManager`, `Pool.UpdateCredentials` |
| `SchedulerRotates`, `SchedulerEnds`, `TriggerRotation`, `StopScheduler` | `RotationScheduler` |
| `file`, `current`, `pool`, `poolCreds`, `state` | the credentials file, `manager.current`, the connection string and the field `creds` of the pool, `r.state` |

*Run.* `rotation`: one caller and the scheduler, three sets.
`SaveReplacesItsBase`: the set that is saved was made from the one in the file.
`RolesKeepNewSet`: from their creation to the drop the roles have the passwords of
the rotation that created them, and the pool was given the same.
`PoolLogsInBefore`: a pool with the current credentials can open connections until
a rotation touches the roles. `RolesCanBeReached`: the passwords of the roles are in the
file or with the running rotation. `BusyMeansRunning`: the rotator refuses only
while a rotation runs. `RotateReturns`: every `Rotate` returns. `StopReturns`: so does
the stop of the scheduler, though a trigger or a tick may begin further rotations
before the select takes `stopCh`. Fairness: weak for a
rotation, whose calls and timer return; strong for the branch of the select that
sees `stopCh`, since Go chooses among the ready branches at random.

*Proofs* (`DaemonProofs`, first part). The five safety properties, for any callers and any
number of sets. The check of the state and the save are far apart, so the
invariant says that one rotation runs at a time (`OneInv`), what it holds at each
step (`CallInv`), that the file has the current set except between the save and
the assignment (`FileInv`), and what the passwords are at each step (`RolesInv`).
`PoolInv` adds that a pool never has the set a rotation is about to make current.

## Where documentation and code disagree

Three are runs that TLC ends with a counterexample.

- `transfer_lost_bit`: two workers update one byte of the bitmap and a received
  chunk loses its bit (`domain/sync.go:110`).
- `lifecycle_stop`: `Discovery.Stop` waits for the goroutine that waits for
  `MinPeers` peers before it stops the bootstrapper, so a daemon that cannot
  reach them never stops, although `main` gives it 30 seconds
  (`p2p/discovery.go:154`).
- `rotation_grace`: all credential sets have the same role names, so creating the
  new roles takes the old passwords away before the grace period begins
  (`postgres/roles.go:132`), while the pool keeps opening connections with them
  (`pool/pool.go:268`).

The others are exceptions that the properties state, and reachable in the runs:

- `Enable` overwrites a session that has expired and whose monitor has not run
  yet; it is never ended or reported (`breakglass/manager.go:212`, against
  `docs/storage/break-glass.md:14`).
- After cancel and resume, the end of the old run deletes the map entry of the
  new one, which can then be neither listed nor cancelled (`p2p/transfer.go:306`,
  against "ListDownloads returns all active downloads", line 230).
- A blob is deleted between the moment `IngestChunk` finds it and the moment it
  creates the row (`blob/ingestion.go:163`, against "atomic handling", line 53).
- The trash is emptied by modification time, which the move to the trash keeps,
  so an old blob has no time in the trash (`blob/gc.go:312`, against
  `docs/storage/blob-storage.md:93`).
- Logins that overlap pass `MaxSessionsPerUser`, and since a login evicts one
  session only, the surplus stays (`auth/service.go:104`, against
  `config/types.go:626`).
- A login, or any administrative call, that read an account before a suspension
  or a change of role writes the old row back (`auth/service.go:91`).
- Two owners who remove each other at once leave a topic without an owner
  (`topic/membership.go:214`); an invitation accepted twice at once makes two
  members; an update of a topic that overlaps its deletion undoes it.
- The server of the Unix socket is not drained: its calls may use the store after
  it is closed (`grpc/server_lifecycle.go:347`).
- A roll-back of `Start` leaves the PID file, and a cluster that fails to
  bootstrap leaves its storage and transport open.
- A health check that began before `Stop` can restart the PostgreSQL container
  after it (`lifecycle/manager.go:959`).
- After enough failures the backoff is out of the range of a Duration, and
  without `retry_interval` the default is lost after the first lost connection:
  in both cases there is no wait between dials (`p2p/bootstrap.go:152`, `:158`).
- When the row of a snapshot cannot be inserted, `CreateSnapshot` returns the
  error of the variable that `os.Remove` shadows, which is none, and the log is
  compacted without a snapshot (`cluster/storage.go:373`). A row that cannot be
  deleted, its file being gone, ends every later clean-up.
- A failed `FSM.Apply` is skipped and the next command is applied
  (`cluster/raft.go:350`); a restarted node has empty maps until its log is
  replayed; with `bootstrap: true` it does not start at all. A failure between
  the two writes of `Bootstrap` leaves a node that can never be bootstrapped.
- `DropRoles` at the end of a rotation drops the roles of the new set, which have
  the same names; `Rotate` before `Initialize` leaves the rotator busy for ever
  (`credentials/rotation.go:118`).

Met while modelling: a role whose `DROP` fails stays usable until its
`VALID UNTIL`, two hours after it was created; a session without
`RequireAcknowledgment` that is disabled is left as pending acknowledgment and
has no report; a download resumed with no chunk missing stays in the map; a
`ResumeDownload` while a paused run is still draining does nothing; an error of
storing a received chunk is only logged; overlapping `Put`s can publish an empty
blob; concurrent ingestions lose references; the collector acts on marks that
are out of date.

## What is proved and what is only checked

Proved for all values of the constants: the inductive invariants and the safety
properties listed under *Proofs*, type correctness of every component, and the
refinement of `BlobKeeping`. The proofs rest on the ASSUMEs
of the modules only: absent values (`None`, `NoRun`, `NoHash`, `NoMeta`, `NoUser`,
`NoChallenge`, `Gc`) are distinct from real ones, durations, chunk counts, byte
widths, limits and bounds are naturals, the set of workers is finite and not
empty, every chunk has a hash, there are a key, a user and a request, the accounts
that exist at the start have rows as the code writes them, an index and its
negative fit in a word, and the default and the largest retry interval are
positive.

Only checked with TLC: the liveness properties (`SessionEventuallyEnds`,
`CredentialEventuallyInvalid`, `RunsEnd`, `PausedBecomesResumable`,
`RotateReturns`, the two `StopReturns`,
`StopReturnsOnceBootstrapped`), which TLAPS does not reach, and the three
counterexamples. Every safety property of a passing run has its theorem.

The runs bound the sets of identifiers, the clock (`MaxTime`) and the retries.
The proofs are for arbitrary sets, infinite ones included (of the workers they
ask that they are finitely many), and for every clock bound and retry limit.

## Not modelled

Within the modelled parts: message texts, statistics, session recordings,
notifications, compression, encryption, tags, the choice of peers, storage
pressure, and metadata in the hybrid store.

Parts with state of their own that are left out:

- *Audit log* (`storage/audit`). Hashes are chained under a lock and the rows are
  written after it, so the order of the rows may differ from the chain. It is the
  first part to model next.
- *Cluster transport* (`cluster/transport.go`). It would carry the messages of a
  Raft engine; there is none, and nothing sends on it.
- *Node modes* (`p2p/mode*.go`). Their start and stop are steps of `Lifecycle`;
  the synchronisation with subscribed peers and its cache are not modelled.
- *PubSub and the node manager* (`p2p/pubsub.go`, `p2p/manager.go`). Nothing in
  the daemon creates them.
- *Storing received chunks* (`p2p/blob.go`). `Transfer` ends at the callback and
  `BlobStore` begins at `IngestChunk`; nothing in the daemon connects the two.

The rest of the repository (other SQL, migrations, backup, container runtimes,
certificates, configuration, setup, CLI, TUI) translates, renders and calls other
programs, mostly within one goroutine. It is listed in `PROJECT.json` with its
reasons.
