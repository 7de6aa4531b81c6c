---------------------------- MODULE ClusterNode -----------------------------
(***************************************************************************)
(* One node of a cluster: the Raft node with its bootstrap, apply loop and *)
(* snapshot loop (internal/cluster/raft.go), the replicated state machine  *)
(* (fsm.go), and the database and the snapshot files under them            *)
(* (storage.go).                                                           *)
(*                                                                         *)
(* The consensus engine is not part of the code: commitCh is where it is   *)
(* to be connected.  The model has it as environment.  It appends commands *)
(* to the log and delivers them in the order of the log, from the first    *)
(* one that the log has when the process starts.                           *)
(*                                                                         *)
(* A command writes a key, deletes an entry of the catalog or of the       *)
(* configuration, or assigns a job.  A value has two parts, each the index *)
(* of the command that wrote it: the definition of a job (type and         *)
(* expression), and the rest, which is all that an assignment changes and  *)
(* all that storing a job again updates in its row.                        *)
(*                                                                         *)
(* The mutex of the state machine and that of the database make a call of  *)
(* either one step, except that a call may fail in the middle.  Left out:  *)
(* members other than the node, join tokens, and the channels of proposals *)
(* and configuration changes, which nobody reads.                          *)
(*                                                                         *)
(* A definition whose name ends in _Broken or the like is the definition   *)
(* that follows it with a plausible mistake; no specification uses it.     *)
(***************************************************************************)
EXTENDS Naturals, FiniteSets

CONSTANTS
    Keys,         \* keys of the catalog, the jobs and the configuration
    Jobs,         \* those of the jobs
    Takers,       \* goroutines that call TakeSnapshot
    Loop,         \* the one of them that is snapshotLoop
    MaxIndex,     \* bound on the commands of the log
    MaxSnapshots, \* bound on the snapshots that are created
    Word,         \* how many values an index has, 2^64 in the code
    TrailingLogs, \* cfg.Raft.TrailingLogs
    Threshold,    \* cfg.Snapshot.Threshold
    RetainCount   \* cfg.Snapshot.RetainCount

ASSUME ClusterAssumption ==
    /\ Loop \in Takers /\ Keys # {} /\ Jobs \subseteq Keys
    /\ {MaxIndex, MaxSnapshots, TrailingLogs} \subseteq Nat
    /\ {Threshold, RetainCount, Word} \subseteq Nat \ {0}
    /\ 2 * MaxIndex < Word /\ 2 * TrailingLogs < Word

Indexes == 1 .. MaxIndex
Index == 0 .. MaxIndex
Ids == 1 .. MaxSnapshots
Value == [def : Index, state : Index]
Absent == [def |-> 0, state |-> 0]
Contents == [Keys -> Value]
Empty == [k \in Keys |-> Absent]
Commands ==
    [op : {"set"}, key : Keys] \cup [op : {"assign"}, key : Jobs]
        \cup [op : {"delete"}, key : Keys \ Jobs]

VARIABLES
    command,   \* by index, the commands that were appended
    last,      \* the index of the last of them
    log,       \* the indexes that the log still has
    table,     \* the tables of the database
    member,    \* cluster_members has the node
    snaps,     \* how many snapshots were created
    row, file, \* the snapshots that have a row, and a file
    at,        \* the index of a snapshot
    content,   \* the data of a snapshot
    up,        \* a process is running
    cache,     \* the maps of the state machine
    sent,      \* the last command that was delivered to this process
    arrived,   \* the command that the apply loop has applied, 0 for none
    applied,   \* rn.appliedIndex
    pc,        \* where a TakeSnapshot is
    seen,      \* the index that it has read
    data,      \* the data that it has read
    tick,      \* currentIndex of the snapshot loop
    lastSnapshotIndex,
    cleaning,  \* how many goroutines are to run cleanupSnapshots
    boots,     \* history: how often the node was made leader
    torn,      \* history: the state machine missed a command or was restored
    split,     \* history: the keys whose last write to the database failed after the cache changed
    whole,     \* history: takers with the data of a state machine that was not torn
    sound,     \* history: the snapshots that were created of such data
    hollow     \* history: a snapshot was created or removed by half

logVars == <<command, last, log>>
snapVars == <<snaps, row, file, at, content, sound>>
nodeVars == <<member, up, boots>>
fsmVars == <<cache, sent, arrived, applied>>
takerVars == <<pc, seen, data, whole, tick, lastSnapshotIndex>>
vars == <<logVars, table, snapVars, nodeVars, fsmVars, takerVars, cleaning, torn, split, hollow>>

TypeOK ==
    /\ command \in [Indexes -> Commands]
    /\ last \in Index
    /\ log \subseteq 1 .. last
    /\ table \in Contents
    /\ snaps \in 0 .. MaxSnapshots
    /\ row \cup file \cup sound \subseteq 1 .. snaps
    /\ at \in [Ids -> Index]
    /\ content \in [Ids -> Contents]
    /\ cache \in Contents
    /\ {sent, arrived, applied} \subseteq 0 .. last
    /\ pc \in [Takers -> {"idle", "tick", "data", "create", "compact"}]
    /\ seen \in [Takers -> Index]
    /\ data \in [Takers -> Contents]
    /\ whole \subseteq Takers
    /\ {tick, lastSnapshotIndex} \subseteq Index
    /\ boots \in Nat
    /\ cleaning \in 0 .. MaxSnapshots
    /\ split \subseteq Keys
    /\ {member, up, torn, hollow} \subseteq BOOLEAN

Init ==
    /\ command = [i \in Indexes |-> CHOOSE c \in Commands : TRUE]
    /\ last = 0
    /\ log = {}
    /\ table = Empty
    /\ member = FALSE
    /\ snaps = 0
    /\ row = {}
    /\ file = {}
    /\ at = [s \in Ids |-> 0]
    /\ content = [s \in Ids |-> Empty]
    /\ up = FALSE
    /\ cache = Empty
    /\ sent = 0
    /\ arrived = 0
    /\ applied = 0
    /\ pc = [t \in Takers |-> "idle"]
    /\ seen = [t \in Takers |-> 0]
    /\ data = [t \in Takers |-> Empty]
    /\ whole = {}
    /\ tick = 0
    /\ lastSnapshotIndex = 0
    /\ cleaning = 0
    /\ boots = 0
    /\ torn = FALSE
    /\ split = {}
    /\ sound = {}
    /\ hollow = FALSE

-----------------------------------------------------------------------------
(* Start and end of a process *)

HasMembers_Broken == FALSE  \* the members are not loaded

\* loadState fills rn.members from the database.
HasMembers == member

\* Cluster.Start.  NewFSM has empty maps.  With bootstrap, Bootstrap fails for a
\* node that has members; it stores the member and then the hard state, and a
\* failure of the second leaves a node that cannot be bootstrapped any more.
Start ==
    /\ ~up
    /\ \/ up' = TRUE /\ UNCHANGED <<member, boots>>
       \/ /\ ~HasMembers
          /\ up' = TRUE
          /\ member' = TRUE
          /\ boots' = boots + 1
       \/ /\ ~HasMembers
          /\ member' = TRUE
          /\ UNCHANGED <<up, boots>>
    /\ torn' = (log # 1 .. last)
    /\ UNCHANGED <<logVars, table, snapVars, fsmVars, takerVars, cleaning, split, hollow>>

\* The process dies at any point, or is stopped: its memory is lost.
Crash ==
    /\ up
    /\ up' = FALSE
    /\ cache' = Empty
    /\ sent' = 0
    /\ arrived' = 0
    /\ applied' = 0
    /\ pc' = [t \in Takers |-> "idle"]
    /\ seen' = [t \in Takers |-> 0]
    /\ data' = [t \in Takers |-> Empty]
    /\ whole' = {}
    /\ tick' = 0
    /\ lastSnapshotIndex' = 0
    /\ cleaning' = 0
    /\ torn' = FALSE
    /\ split' = {}
    /\ UNCHANGED <<logVars, table, snapVars, member, boots, hollow>>

-----------------------------------------------------------------------------
(* The engine, and the apply loop *)

\* The engine appends a command to the log; it does so only in a cluster that has
\* members.
Append ==
    /\ up
    /\ member
    /\ last < MaxIndex
    /\ \E c \in Commands : command' = [command EXCEPT ![last + 1] = c]
    /\ last' = last + 1
    /\ log' = log \cup {last + 1}
    /\ UNCHANGED <<table, snapVars, nodeVars, fsmVars, takerVars, cleaning, torn, split, hollow>>

\* The commands that are still to be delivered.
Undelivered == {i \in log : i > sent}

\* What command i makes of the contents c of the state machine.
Effect(c, i) ==
    LET k == command[i].key
        v == CASE command[i].op = "set" -> [def |-> i, state |-> i]
               [] command[i].op = "delete" -> Absent
               [] command[i].op = "assign" ->
                    IF c[k] = Absent THEN Absent ELSE [def |-> c[k].def, state |-> i]
    IN  [c EXCEPT ![k] = v]

\* The row of k once v is stored.  On conflict StoreJob updates neither the type
\* nor the expression; an entry of the catalog or the configuration is replaced.
Upsert(k, v) ==
    IF k \in Jobs /\ table[k] # Absent THEN [def |-> table[k].def, state |-> v.state] ELSE v

\* Command i has something to store.
Stores(i) == Effect(cache, i)[command[i].key] # Absent

\* What command i stores in the tables; a delete stores nothing.
Stored(i) ==
    LET k == command[i].key
    IN  IF Stores(i) THEN [table EXCEPT ![k] = Upsert(k, Effect(cache, i)[k])] ELSE table

ApplyCommand_Broken(i) ==  \* an update, too, is cached and then stored
    \/ /\ cache' = Effect(cache, i)
       /\ table' = Stored(i)
       /\ arrived' = i
       /\ split' = split \ {command[i].key}
       /\ UNCHANGED torn
    \/ /\ Stores(i)
       /\ cache' = Effect(cache, i)
       /\ split' = IF command[i].op = "assign" THEN split \cup {command[i].key} ELSE split
       /\ torn' = TRUE
       /\ arrived' = 0
       /\ UNCHANGED table

\* FSM.Apply.  An update is stored and then cached, an assignment is cached and
\* then stored, a delete only touches the cache.  When the store fails the loop
\* goes on with the next command.
ApplyCommand(i) ==
    \/ /\ cache' = Effect(cache, i)
       /\ table' = Stored(i)
       /\ arrived' = i
       /\ split' = split \ {command[i].key}
       /\ UNCHANGED torn
    \/ /\ Stores(i)
       /\ cache' = IF command[i].op = "assign" THEN Effect(cache, i) ELSE cache
       /\ split' = IF command[i].op = "assign" THEN split \cup {command[i].key} ELSE split
       /\ torn' = TRUE
       /\ arrived' = 0
       /\ UNCHANGED table

\* The engine delivers the next command, and the apply loop applies it.
Deliver ==
    /\ up
    /\ arrived = 0
    /\ \E i \in Undelivered :
         /\ \A j \in Undelivered : i <= j
         /\ sent' = i
         /\ ApplyCommand(i)
    /\ UNCHANGED <<logVars, snapVars, nodeVars, applied, takerVars, cleaning, hollow>>

\* The apply loop moves appliedIndex, under another lock.
Advance ==
    /\ arrived # 0
    /\ applied' = IF arrived > applied THEN arrived ELSE applied
    /\ arrived' = 0
    /\ UNCHANGED <<logVars, table, snapVars, nodeVars, cache, sent, takerVars, cleaning, torn, split,
                   hollow>>

-----------------------------------------------------------------------------
(* Snapshots *)

\* snapshotLoop looks at the index and calls TakeSnapshot when it has moved
\* Threshold from the last snapshot; anybody else calls it at any time.
Tick ==
    /\ up
    /\ pc[Loop] = "idle"
    /\ applied - lastSnapshotIndex >= Threshold
    /\ tick' = applied
    /\ pc' = [pc EXCEPT ![Loop] = "tick"]
    /\ UNCHANGED <<logVars, table, snapVars, nodeVars, fsmVars, seen, data, whole, lastSnapshotIndex,
                   cleaning, torn, split, hollow>>

TakeSnapshot_Broken(t) ==  \* the index of the last entry, not of the last applied one
    /\ up
    /\ snaps < MaxSnapshots
    /\ pc[t] = IF t = Loop THEN "tick" ELSE "idle"
    /\ seen' = [seen EXCEPT ![t] = last]
    /\ pc' = [pc EXCEPT ![t] = "data"]
    /\ UNCHANGED <<logVars, table, snapVars, nodeVars, fsmVars, data, whole, tick, lastSnapshotIndex,
                   cleaning, torn, split, hollow>>

\* TakeSnapshot reads appliedIndex.
TakeSnapshot(t) ==
    /\ up
    /\ snaps < MaxSnapshots
    /\ pc[t] = IF t = Loop THEN "tick" ELSE "idle"
    /\ seen' = [seen EXCEPT ![t] = applied]
    /\ pc' = [pc EXCEPT ![t] = "data"]
    /\ UNCHANGED <<logVars, table, snapVars, nodeVars, fsmVars, data, whole, tick, lastSnapshotIndex,
                   cleaning, torn, split, hollow>>

\* It copies the state machine.
TakeData(t) ==
    /\ pc[t] = "data"
    /\ data' = [data EXCEPT ![t] = cache]
    /\ whole' = IF torn THEN whole \ {t} ELSE whole \cup {t}
    /\ pc' = [pc EXCEPT ![t] = "create"]
    /\ UNCHANGED <<logVars, table, snapVars, nodeVars, fsmVars, seen, tick, lastSnapshotIndex, cleaning,
                   torn, split, hollow>>

\* TakeSnapshot returns.
Return(t) ==
    /\ pc' = [pc EXCEPT ![t] = "idle"]
    /\ seen' = [seen EXCEPT ![t] = 0]
    /\ tick' = IF t = Loop THEN 0 ELSE tick

\* CreateSnapshot writes the file and inserts the row, and starts the cleanup.
\* It fails when the file cannot be written.  When the row cannot be inserted it
\* removes the file and returns the error of that, which is none.
CreateSnapshot(t) ==
    /\ pc[t] = "create"
    /\ \/ /\ snaps < MaxSnapshots
          /\ snaps' = snaps + 1
          /\ row' = row \cup {snaps + 1}
          /\ file' = file \cup {snaps + 1}
          /\ at' = [at EXCEPT ![snaps + 1] = seen[t]]
          /\ content' = [content EXCEPT ![snaps + 1] = data[t]]
          /\ sound' = IF t \in whole THEN sound \cup {snaps + 1} ELSE sound
          /\ cleaning' = cleaning + 1
          /\ pc' = [pc EXCEPT ![t] = "compact"]
          /\ UNCHANGED <<seen, tick, hollow>>
       \/ /\ Return(t)
          /\ UNCHANGED <<snapVars, cleaning, hollow>>
       \/ /\ pc' = [pc EXCEPT ![t] = "compact"]
          /\ hollow' = TRUE
          /\ UNCHANGED <<snapVars, seen, tick, cleaning>>
    /\ data' = [data EXCEPT ![t] = Empty]
    /\ whole' = whole \ {t}
    /\ UNCHANGED <<logVars, table, nodeVars, fsmVars, lastSnapshotIndex, torn, split>>

\* The entries that DeleteRange(0, index - TrailingLogs) deletes.  The difference
\* wraps around, and database/sql refuses an integer that has the highest bit.
Deleted(index) ==
    LET max == (index + Word - TrailingLogs) % Word
    IN  IF 2 * max >= Word THEN {} ELSE {i \in log : i <= max}

\* TakeSnapshot compacts the log, whose error is ignored, and returns; then
\* snapshotLoop takes note of the index that it has looked at.
Compact(t) ==
    /\ pc[t] = "compact"
    /\ \/ log' = log \ Deleted(seen[t])
       \/ UNCHANGED log
    /\ Return(t)
    /\ lastSnapshotIndex' = IF t = Loop THEN tick ELSE lastSnapshotIndex
    /\ UNCHANGED <<command, last, table, snapVars, nodeVars, fsmVars, data, whole, cleaning, torn, split,
                   hollow>>

Retained_Broken(keep) ==  \* ORDER BY created_at: the newest, not the furthest
    /\ Cardinality(keep) = IF Cardinality(row) < RetainCount THEN Cardinality(row) ELSE RetainCount
    /\ \A a \in keep, b \in row \ keep : a > b

\* The rows that the query of cleanupSnapshots skips: the first RetainCount by
\* descending index.
Retained(keep) ==
    /\ Cardinality(keep) = IF Cardinality(row) < RetainCount THEN Cardinality(row) ELSE RetainCount
    /\ \A a \in keep, b \in row \ keep : at[a] >= at[b]

\* cleanupSnapshots.  It removes file and row of the others in the same order,
\* until a file cannot be removed; that a row cannot be is ignored.
Cleanup ==
    /\ cleaning > 0
    /\ cleaning' = cleaning - 1
    /\ \E keep \in SUBSET row :
         /\ Retained(keep)
         /\ \E gone \in SUBSET ((row \ keep) \cap file) :
              /\ \A a \in gone, b \in (row \ keep) \ gone : at[a] >= at[b]
              /\ file' = file \ gone
              /\ content' = [s \in Ids |-> IF s \in gone THEN Empty ELSE content[s]]
              /\ \E rows \in SUBSET gone :
                   /\ row' = row \ rows
                   /\ hollow' = (hollow \/ rows # gone)
    /\ UNCHANGED <<logVars, table, snaps, at, sound, nodeVars, fsmVars, takerVars, torn, split>>

\* Restore of a snapshot that is listed: the cache is replaced, and what is in it
\* is stored, row by row, until that fails.
Restore ==
    /\ up
    /\ \E s \in row \cap file :
         /\ cache' = content[s]
         /\ \E done \in SUBSET {k \in Keys : content[s][k] # Absent} :
              /\ table' = [k \in Keys |-> IF k \in done THEN Upsert(k, content[s][k]) ELSE table[k]]
              /\ split' = {k \in Keys \ done : content[s][k] # Absent}
    /\ torn' = TRUE
    /\ UNCHANGED <<logVars, snapVars, nodeVars, sent, arrived, applied, takerVars, cleaning, hollow>>

-----------------------------------------------------------------------------
(* The specification *)

Next ==
    \/ Start
    \/ Crash
    \/ Append
    \/ Deliver
    \/ Advance
    \/ Tick
    \/ \E t \in Takers : TakeSnapshot(t) \/ TakeData(t) \/ CreateSnapshot(t) \/ Compact(t)
    \/ Cleanup
    \/ Restore

Spec == Init /\ [][Next]_vars

-----------------------------------------------------------------------------
(* Properties *)

\* What the commands up to i make of an empty state machine.
Replay[i \in Index] == IF i = 0 THEN Empty ELSE Effect(Replay[i - 1], i)

\* What the state machine has in memory the database has too, except for the type
\* and the expression of a job, and except for the one key whose last write failed
\* after the map had been changed, until it is written again.  FSM.Apply stores an
\* update before it caches it; a delete leaves the row behind.
CacheBacked ==
    \A k \in Keys \ split :
        cache[k] = Absent \/ /\ table[k].state = cache[k].state
                             /\ k \in Jobs \/ table[k] = cache[k]

\* Snapshot s has what the commands up to its index, or some more, make.
Holds(s) == \E i \in at[s] .. last : content[s] = Replay[i]

\* A snapshot has all that its index says and perhaps some commands more, never
\* less: TakeSnapshot reads the index before it copies the state machine, and the
\* apply loop applies a command before it moves the index.  Not so for the copy of
\* a state machine that missed a command, was restored, or began in the middle of
\* the log.
SnapshotCovers == \A s \in sound \cap file : Holds(s)

\* Every command that was appended is in the log, or its effect is in a snapshot
\* that is listed and can be read: two TakeSnapshots at a time, the cleanup of
\* either and a crash at any point compact away nothing else.  Not so once a row
\* could not be inserted (CreateSnapshot then returns no error) or deleted, and not
\* once a snapshot was taken of a state machine that was not whole: a process that
\* starts on a compacted log replays the rest of it on empty maps, and its snapshot
\* takes the place of one that had everything.
LogCovered ==
    \/ hollow
    \/ sound # 1 .. snaps
    \/ \A i \in 1 .. last : i \in log \/ \E s \in row \cap file : at[s] >= i /\ Holds(s)

\* A node makes itself the leader of a new cluster at most once in its lifetime,
\* whatever crashes and restarts there are: Bootstrap refuses a node whose members
\* loadState has found.
BootstrapsOnce == boots <= 1

=============================================================================
