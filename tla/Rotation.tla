------------------------------ MODULE Rotation ------------------------------
(***************************************************************************)
(* Rotation of the database credentials: the credential manager with its   *)
(* encrypted file (internal/storage/postgres/credentials/credentials.go    *)
(* and storage.go), the rotator and its scheduler (rotation.go), the roles *)
(* of the database (postgres/roles.go) and the connection pool             *)
(* (postgres/pool/pool.go).                                                *)
(*                                                                         *)
(* A credential set is a number, in the order in which the sets were       *)
(* generated; sets have passwords of their own.  The roles of a set are    *)
(* created, altered and dropped by one batch of statements, which the      *)
(* server runs as one transaction, so one name stands for all of them; the *)
(* superuser is treated apart.  The callback of the rotator is an          *)
(* interface; it is taken to be the role manager and the pool of this      *)
(* code.                                                                   *)
(*                                                                         *)
(* A process may crash at any point.  Its file and the database stay.      *)
(*                                                                         *)
(* A definition whose name ends in _Broken or the like is the definition   *)
(* that follows it with a plausible mistake; no specification uses it.     *)
(***************************************************************************)
EXTENDS Naturals

CONSTANTS
    Callers,    \* goroutines that call Rotate themselves
    Scheduler,  \* the goroutine of the RotationScheduler
    MaxSets     \* bound on the credential sets that are ever generated

ASSUME RotationAssumption == Scheduler \notin Callers /\ MaxSets \in Nat \ {0}

VARIABLES
    sets,      \* how many sets were generated
    version,   \* Version, of a set
    status,    \* Status of the credentials of a set, in memory
    stale,     \* sets whose ExpiresAt has passed
    file,      \* the set in the credentials file, 0 if there is none
    current,   \* manager.current, 0 for nil
    roles,     \* by name, the set whose password a role has, 0 if it does not exist
    super,     \* the same of the superuser
    pool,      \* the set in the connection string of the pool, with which it opens every
               \* connection; 0 if there is no pool
    poolCreds, \* the field creds of the pool, which nothing reads
    state,     \* the state of the rotator
    pc,        \* where a call of Rotate is
    old, new,  \* oldCreds and newCreds of a call
    sched,     \* the scheduler: off, waiting in its select, rotating or done
    trigger,   \* rotationCh holds an element
    stopping,  \* stopCh is closed
    cancelled, \* the context is cancelled
    blank,     \* history: some Rotate met a manager without credentials
    spoiled    \* history: a rotation that had altered the roles did not complete, or a
               \* file that could not be read was replaced

managerVars == <<sets, version, status, stale, file, current>>
dbVars == <<roles, super, pool, poolCreds>>
schedVars == <<sched, trigger, stopping, cancelled>>
vars == <<managerVars, dbVars, state, pc, old, new, schedVars, blank, spoiled>>

Threads == Callers \cup {Scheduler}
Sets == 1 .. MaxSets
SetOrNil == 0 .. MaxSets
Free == {"idle", "complete", "failed"}
Busy == {"preparing", "transitioning", "finalizing"}
Steps == {"idle", "current", "generate", "create", "retire", "pool", "grace", "drop", "save",
          "set", "complete"}

\* The user name in the credentials of a set: string(role), for every set.
Username(g) == "bibd_admin"

Usernames == {Username(g) : g \in Sets}

\* The credentials of set g are accepted by the database.
LogsIn(g) == g # 0 /\ roles[Username(g)] = g

TypeOK ==
    /\ sets \in SetOrNil
    /\ version \in [Sets -> SetOrNil]
    /\ status \in [Sets -> {"active", "retiring", "expired"}]
    /\ stale \subseteq Sets
    /\ {file, current, super, pool, poolCreds} \subseteq 0 .. sets
    /\ roles \in [Usernames -> 0 .. sets]
    /\ state \in Free \cup Busy
    /\ pc \in [Threads -> Steps]
    /\ old \in [Threads -> SetOrNil]
    /\ new \in [Threads -> SetOrNil]
    /\ sched \in {"off", "select", "rotating", "done"}
    /\ {trigger, stopping, cancelled, blank, spoiled} \subseteq BOOLEAN

Init ==
    /\ sets = 0
    /\ version = [g \in Sets |-> 0]
    /\ status = [g \in Sets |-> "active"]
    /\ stale = {}
    /\ file = 0
    /\ current = 0
    /\ roles = [n \in Usernames |-> 0]
    /\ super = 0
    /\ pool = 0
    /\ poolCreds = 0
    /\ state = "idle"
    /\ pc = [t \in Threads |-> "idle"]
    /\ old = [t \in Threads |-> 0]
    /\ new = [t \in Threads |-> 0]
    /\ sched = "off"
    /\ trigger = FALSE
    /\ stopping = FALSE
    /\ cancelled = FALSE
    /\ blank = FALSE
    /\ spoiled = FALSE

Goto(t, l) == pc' = [pc EXCEPT ![t] = l]

-----------------------------------------------------------------------------
(* Start of a process *)

\* Manager.generate: a new set, active, with version v.
Generate(v) ==
    /\ sets < MaxSets
    /\ sets' = sets + 1
    /\ version' = [version EXCEPT ![sets + 1] = v]

\* Manager.Initialize: load the file; whatever is wrong with it, generate a
\* first version and save that in its place.
Initialize ==
    /\ current = 0
    /\ \/ /\ file # 0
          /\ current' = file
          /\ status' = [status EXCEPT ![file] = "active"]
          /\ UNCHANGED <<sets, version, file, spoiled>>
       \/ /\ Generate(1)
          /\ file' = sets + 1
          /\ current' = sets + 1
          /\ spoiled' = (spoiled \/ file # 0)
          /\ UNCHANGED status
    /\ UNCHANGED <<stale, dbVars, state, pc, old, new, schedVars, blank>>

\* RoleManager.CreateRoles in the set-up of a database that has no roles yet.
FirstRoles ==
    /\ current # 0
    /\ super = 0
    /\ roles' = [roles EXCEPT ![Username(current)] = current]
    /\ super' = current
    /\ UNCHANGED <<managerVars, pool, poolCreds, state, pc, old, new, schedVars, blank, spoiled>>

OpenPool_NoPing ==  \* the pool is returned without a ping
    /\ pool = 0
    /\ current # 0
    /\ pool' = current
    /\ poolCreds' = current
    /\ UNCHANGED <<managerVars, roles, super, state, pc, old, new, schedVars, blank, spoiled>>

\* pool.New, which pings the database before it returns a pool.  The connection
\* string is parsed here and never again.
OpenPool ==
    /\ pool = 0
    /\ LogsIn(current)
    /\ pool' = current
    /\ poolCreds' = current
    /\ UNCHANGED <<managerVars, roles, super, state, pc, old, new, schedVars, blank, spoiled>>

-----------------------------------------------------------------------------
(* Rotate *)

\* Rotate returns to its caller.
Ends(t) ==
    /\ Goto(t, "idle")
    /\ old' = [old EXCEPT ![t] = 0]
    /\ new' = [new EXCEPT ![t] = 0]
    /\ sched' = IF t = Scheduler THEN "select" ELSE sched

\* failRotation and the return of the error.
FailRotation(t) ==
    /\ state' = "failed"
    /\ Ends(t)
    /\ spoiled' = (spoiled \/ pc[t] \in {"retire", "pool", "grace", "drop", "save"})

RotateBegin_Broken(t) ==  \* the state is not looked at
    /\ pc[t] = "idle"
    /\ state' = "preparing"
    /\ Goto(t, "current")

\* Rotate: one at a time, by the state.  Otherwise it returns an error.
RotateBegin(t) ==
    /\ pc[t] = "idle"
    /\ state \in Free
    /\ state' = "preparing"
    /\ Goto(t, "current")

RotateCall(t) ==
    /\ t \in Callers
    /\ RotateBegin(t)
    /\ UNCHANGED <<managerVars, dbVars, old, new, schedVars, blank, spoiled>>

\* Without credentials Rotate returns, and the state stays as it is.
GetCurrent(t) ==
    /\ pc[t] = "current"
    /\ \/ /\ current # 0
          /\ old' = [old EXCEPT ![t] = current]
          /\ Goto(t, "generate")
          /\ UNCHANGED <<new, sched, blank>>
       \/ /\ current = 0
          /\ Ends(t)
          /\ blank' = TRUE
    /\ UNCHANGED <<managerVars, dbVars, state, trigger, stopping, cancelled, spoiled>>

NewVersion_Broken(t) == version[old[t]]  \* the version is carried over

NewVersion(t) == version[old[t]] + 1

\* generateNewCredentials.
GenerateNew(t) ==
    /\ pc[t] = "generate"
    /\ \/ /\ Generate(NewVersion(t))
          /\ new' = [new EXCEPT ![t] = sets + 1]
          /\ state' = "transitioning"
          /\ Goto(t, "create")
          /\ UNCHANGED <<old, sched, spoiled>>
       \/ /\ FailRotation(t)
          /\ UNCHANGED <<sets, version>>
    /\ UNCHANGED <<status, stale, file, current, dbVars, trigger, stopping, cancelled, blank>>

\* CreateRoles: roles that exist get the new passwords, the superuser does not.
CreateRoles(t) ==
    /\ pc[t] = "create"
    /\ \/ /\ roles' = [roles EXCEPT ![Username(new[t])] = new[t]]
          /\ super' = IF super = 0 THEN new[t] ELSE super
          /\ Goto(t, "retire")
          /\ UNCHANGED <<state, old, new, sched, spoiled>>
       \/ /\ FailRotation(t)
          /\ UNCHANGED <<roles, super>>
    /\ UNCHANGED <<managerVars, pool, poolCreds, trigger, stopping, cancelled, blank>>

\* markRetiring changes the set that the manager holds, not the file.
MarkRetiring(t) ==
    /\ pc[t] = "retire"
    /\ status' = [status EXCEPT ![old[t]] = "retiring"]
    /\ Goto(t, "pool")
    /\ UNCHANGED <<sets, version, stale, file, current, dbVars, state, old, new, schedVars,
                   blank, spoiled>>

\* UpdatePoolCredentials: the field of the pool is assigned, its connection string
\* stays as it is.
UpdatePool(t) ==
    /\ pc[t] = "pool"
    /\ \/ /\ poolCreds' = IF pool = 0 THEN 0 ELSE new[t]
          /\ Goto(t, "grace")
          /\ UNCHANGED <<state, old, new, sched, spoiled>>
       \/ /\ FailRotation(t)
          /\ UNCHANGED poolCreds
    /\ UNCHANGED <<managerVars, roles, super, pool, trigger, stopping, cancelled, blank>>

GraceEnds_Broken(t) ==  \* only the context ends the wait
    /\ pc[t] = "grace"
    /\ cancelled
    /\ FailRotation(t)
    /\ UNCHANGED <<managerVars, dbVars, trigger, stopping, cancelled, blank>>

\* The grace period ends, or the context is cancelled before that.
GraceEnds(t) ==
    /\ pc[t] = "grace"
    /\ \/ /\ state' = "finalizing"
          /\ Goto(t, "drop")
          /\ UNCHANGED <<old, new, sched, spoiled>>
       \/ /\ cancelled
          /\ FailRotation(t)
    /\ UNCHANGED <<managerVars, dbVars, trigger, stopping, cancelled, blank>>

\* DropRoles goes by the names of the roles; its failure is only recorded.
DropRoles(t) ==
    /\ pc[t] = "drop"
    /\ \/ roles' = [roles EXCEPT ![Username(old[t])] = 0]
       \/ UNCHANGED roles
    /\ Goto(t, "save")
    /\ UNCHANGED <<managerVars, super, pool, poolCreds, state, old, new, schedVars, blank, spoiled>>

SaveNew_Skipped(t) ==  \* the set is not written
    /\ pc[t] = "save"
    /\ status' = [status EXCEPT ![old[t]] = "expired"]
    /\ Goto(t, "set")
    /\ UNCHANGED <<sets, version, stale, file, current, dbVars, state, old, new, schedVars, blank,
                   spoiled>>

\* markExpired, and Save of the new set.
SaveNew(t) ==
    /\ pc[t] = "save"
    /\ status' = [status EXCEPT ![old[t]] = "expired"]
    /\ \/ /\ file' = new[t]
          /\ Goto(t, "set")
          /\ UNCHANGED <<state, old, new, sched, spoiled>>
       \/ /\ FailRotation(t)
          /\ UNCHANGED file
    /\ UNCHANGED <<sets, version, stale, current, dbVars, trigger, stopping, cancelled, blank>>

SetCurrent(t) ==
    /\ pc[t] = "set"
    /\ current' = new[t]
    /\ Goto(t, "complete")
    /\ UNCHANGED <<sets, version, status, stale, file, dbVars, state, old, new, schedVars, blank,
                   spoiled>>

Complete_Forgotten(t) ==  \* the state is left at finalizing
    /\ pc[t] = "complete"
    /\ Ends(t)
    /\ UNCHANGED <<managerVars, dbVars, state, trigger, stopping, cancelled, blank, spoiled>>

Complete(t) ==
    /\ pc[t] = "complete"
    /\ state' = "complete"
    /\ Ends(t)
    /\ UNCHANGED <<managerVars, dbVars, trigger, stopping, cancelled, blank, spoiled>>

RotateStep(t) ==
    \/ GetCurrent(t) \/ GenerateNew(t) \/ CreateRoles(t) \/ MarkRetiring(t) \/ UpdatePool(t)
    \/ GraceEnds(t) \/ DropRoles(t) \/ SaveNew(t) \/ SetCurrent(t) \/ Complete(t)

-----------------------------------------------------------------------------
(* The scheduler *)

StartScheduler ==
    /\ sched = "off"
    /\ sched' = "select"
    /\ UNCHANGED <<managerVars, dbVars, state, pc, old, new, trigger, stopping, cancelled, blank,
                   spoiled>>

\* run: a tick when rotation is needed, or an element of rotationCh.  A Rotate
\* that is refused brings it back to its select.
SchedulerRotates ==
    /\ sched = "select"
    /\ \/ current \in stale /\ UNCHANGED trigger
       \/ trigger /\ trigger' = FALSE
    /\ \/ RotateBegin(Scheduler) /\ sched' = "rotating"
       \/ state \in Busy /\ UNCHANGED <<state, pc, sched>>
    /\ UNCHANGED <<managerVars, dbVars, old, new, stopping, cancelled, blank, spoiled>>

SchedulerEnds_Broken ==  \* only the context is looked at
    /\ sched = "select"
    /\ cancelled
    /\ sched' = "done"
    /\ UNCHANGED <<managerVars, dbVars, state, pc, old, new, trigger, stopping, cancelled, blank,
                   spoiled>>

SchedulerEnds ==
    /\ sched = "select"
    /\ stopping \/ cancelled
    /\ sched' = "done"
    /\ UNCHANGED <<managerVars, dbVars, state, pc, old, new, trigger, stopping, cancelled, blank,
                   spoiled>>

TriggerRotation ==
    /\ ~trigger
    /\ trigger' = TRUE
    /\ UNCHANGED <<managerVars, dbVars, state, pc, old, new, sched, stopping, cancelled, blank,
                   spoiled>>

\* Stop closes stopCh and waits for run to end, also if Start was never called: it
\* then waits until Start is.
StopScheduler ==
    /\ ~stopping
    /\ stopping' = TRUE
    /\ UNCHANGED <<managerVars, dbVars, state, pc, old, new, sched, trigger, cancelled, blank,
                   spoiled>>

Cancel ==
    /\ ~cancelled
    /\ cancelled' = TRUE
    /\ UNCHANGED <<managerVars, dbVars, state, pc, old, new, sched, trigger, stopping, blank,
                   spoiled>>

-----------------------------------------------------------------------------
\* The current set passes its ExpiresAt.
TimePasses ==
    /\ current # 0
    /\ current \notin stale
    /\ stale' = stale \cup {current}
    /\ UNCHANGED <<sets, version, status, file, current, dbVars, state, pc, old, new, schedVars,
                   blank, spoiled>>

\* The process dies, and a new one has the file and the database.
Crash ==
    /\ current # 0
    /\ current' = 0
    /\ pool' = 0
    /\ poolCreds' = 0
    /\ state' = "idle"
    /\ pc' = [t \in Threads |-> "idle"]
    /\ old' = [t \in Threads |-> 0]
    /\ new' = [t \in Threads |-> 0]
    /\ sched' = "off"
    /\ trigger' = FALSE
    /\ stopping' = FALSE
    /\ cancelled' = FALSE
    /\ blank' = FALSE
    /\ spoiled' = (spoiled \/ \E t \in Threads : pc[t] \in {"retire", "pool", "grace", "drop", "save"})
    /\ UNCHANGED <<sets, version, status, stale, file, roles, super>>

Next ==
    \/ Initialize \/ FirstRoles \/ OpenPool
    \/ \E t \in Threads : RotateCall(t) \/ RotateStep(t)
    \/ StartScheduler \/ SchedulerRotates \/ SchedulerEnds
    \/ TriggerRotation \/ StopScheduler \/ Cancel
    \/ TimePasses \/ Crash

Spec == Init /\ [][Next]_vars

\* Goroutines run, and timers and calls of the database return.  A select that
\* finds both a tick and a closed channel ready takes each of them in the end.
Fairness ==
    /\ \A t \in Threads : WF_vars(RotateStep(t))
    /\ SF_vars(SchedulerEnds)

FairSpec == Spec /\ Fairness

-----------------------------------------------------------------------------
(* Properties *)

\* A rotation builds on what it replaces: the set that is about to be saved has
\* the version after that of the file, and no other rotation has saved in
\* between, although the check of the state and the save are far apart.
SaveReplacesItsBase ==
    \A t \in Threads :
        pc[t] = "save" => old[t] = file /\ version[new[t]] = version[file] + 1

\* From CreateRoles to DropRoles the passwords of the roles are those of the
\* rotation that created them, whatever callers and scheduler do meanwhile, and the
\* credentials that the pool was given, if there is one, are of that rotation too.
RolesKeepNewSet ==
    \A t \in Threads :
        /\ pc[t] \in {"retire", "pool", "grace", "drop"} => LogsIn(new[t])
        /\ pc[t] \in {"grace", "drop"} /\ pool # 0 => poolCreds = new[t]

\* A pool that was opened with the current credentials can open connections until
\* a rotation touches the roles, as long as no rotation broke off and Initialize
\* could read the file.
PoolLogsInBefore ==
    /\ ~spoiled
    /\ pool # 0 /\ pool = current
    /\ \A t \in Threads : pc[t] \in {"idle", "current", "generate", "create"}
    => LogsIn(pool)

\* The passwords of the roles are in the file, or in the set of a rotation that
\* has not saved yet, as long as every rotation that altered them completed and
\* Initialize could read the file.
RolesCanBeReached ==
    ~spoiled => \A n \in Usernames :
        roles[n] \in {0, file} \/ \E t \in Threads : new[t] = roles[n] /\ pc[t] # "idle"

\* A rotator that refuses rotations has one running, unless some Rotate met a
\* manager that was not initialised: that one leaves the state at preparing.
BusyMeansRunning ==
    state \in Busy /\ ~blank => \E t \in Threads : pc[t] # "idle"

\* Every Rotate returns.
RotateReturns == \A t \in Threads : pc[t] # "idle" ~> pc[t] = "idle"

\* Stop of a scheduler that was started, now or later, returns, unless the process
\* dies.  It may take more than the running rotation: with an element in rotationCh or
\* a tick, the select may begin others before it takes stopCh.
StopReturns == stopping /\ sched # "off" ~> sched \in {"done", "off"}

\* Documented: during the grace period both old and new credentials are valid, and
\* the pool uses the new ones.  So a pool that has either can open connections.
\* By PoolLogsInBefore a pool with the old ones could when the rotation began.
GraceKeepsPool ==
    \A t \in Threads :
        pc[t] = "grace" /\ ~spoiled /\ pool \in {old[t], new[t]} => LogsIn(pool)

=============================================================================
