---------------------------- MODULE DaemonProofs ----------------------------
(***************************************************************************)
(* Proofs about the database credentials of the daemon and about the       *)
(* daemon itself.                                                          *)
(*                                                                         *)
(* Rotation: one rotation runs at a time, it replaces the set it started   *)
(* from, the roles keep its passwords to its end, and the passwords of the *)
(* roles are known to somebody.                                            *)
(*                                                                         *)
(* Lifecycle and Bootstrap: whatever step of Start fails and whenever Stop *)
(* is asked for, the parts are released in an order in which the store     *)
(* outlives its users, and nothing is left that no error left behind; and  *)
(* the bootstrapper waits between two attempts.                            *)
(***************************************************************************)
EXTENDS Lifecycle, Rotation, NaturalsInduction, WellFoundedInduction, TLAPS

(***************************************************************************)
(* Rotation                                                                *)
(***************************************************************************)

\* The name of the roles of every set.
Name == "bibd_admin"

AfterGet == {"generate", "create", "retire", "pool", "grace", "drop", "save", "set", "complete"}
AfterGenerate == AfterGet \ {"generate"}
AfterCreate == AfterGenerate \ {"create"}

\* The version of a set is not larger than its number.
VersionInv == \A g \in Sets : version[g] <= g

\* One rotation at a time: the state of the rotator is busy while one runs.
OneInv ==
    /\ \A t, u \in Threads : pc[t] # "idle" /\ pc[u] # "idle" => t = u
    /\ \A t \in Threads : pc[t] # "idle" => state \in Busy

\* What a rotation may rely on at each of its steps.
CallInv ==
    \A t \in Threads :
        /\ pc[t] \in {"idle", "current"} => old[t] = 0
        /\ pc[t] \in {"idle", "current", "generate"} => new[t] = 0
        /\ pc[t] \in AfterGet => old[t] \in 1 .. sets
        /\ pc[t] \in AfterGenerate => new[t] \in 1 .. sets /\ version[new[t]] = version[old[t]] + 1
        /\ pc[t] \in AfterGet \ {"complete"} => current = old[t]
        /\ pc[t] \in {"set", "complete"} => file = new[t]
        /\ pc[t] = "complete" => current = new[t]

\* The file has the set of the manager, except between Save and the assignment.
FileInv == current # 0 /\ (\A t \in Threads : pc[t] # "set") => file = current

\* The passwords of the roles and of the pool at each step of a rotation.
RolesInv ==
    \A t \in Threads :
        /\ pc[t] = "create" => roles[Name] # new[t]
        /\ pc[t] \in {"retire", "pool", "grace", "drop"} => roles[Name] = new[t]
        /\ pc[t] \in {"save", "set", "complete"} => roles[Name] \in {0, new[t]}
        /\ pc[t] \in {"grace", "drop"} /\ pool # 0 => poolCreds = new[t]
        /\ pc[t] \in AfterCreate => super # 0

IInv ==
    /\ TypeOK /\ VersionInv /\ OneInv /\ CallInv /\ FileInv /\ RolesInv
    /\ BusyMeansRunning /\ RolesCanBeReached

LEMMA OneName == Usernames = {Name} /\ \A g : Username(g) = Name
  BY RotationAssumption DEF Usernames, Username, Name, Sets

\* What Manager.generate leaves behind.
LEMMA Generated ==
    ASSUME TypeOK, VersionInv, NEW v \in 1 .. sets + 1, Generate(v)
    PROVE  /\ sets' = sets + 1 /\ sets' \in Sets
           /\ version' \in [Sets -> SetOrNil] /\ VersionInv'
           /\ version'[sets'] = v
           /\ \A g \in 1 .. sets : version'[g] = version[g]
<1> USE RotationAssumption DEF Generate
<1>1. sets' = sets + 1 /\ sets' \in Sets /\ sets \in Nat /\ v \in SetOrNil
  BY DEF TypeOK, Sets, SetOrNil
<1>2. version' \in [Sets -> SetOrNil] /\ version'[sets'] = v
  BY <1>1, Zenon DEF TypeOK
<1>3. \A g \in Sets : g # sets' => version'[g] = version[g]
  BY <1>1, Zenon DEF TypeOK
<1>4. \A g \in 1 .. sets : version'[g] = version[g]
  BY <1>1, <1>3 DEF Sets
<1>5. VersionInv'
  BY <1>1, <1>2, <1>3 DEF VersionInv, Sets
<1> QED
  BY <1>1, <1>2, <1>4, <1>5, Zenon

\* A rotation never has two equal sets.
LEMMA NewIsNotOld ==
    ASSUME IInv, NEW t \in Threads, pc[t] \in AfterGenerate
    PROVE  old[t] # new[t] /\ new[t] # 0
<1>1. /\ old[t] \in 1 .. sets /\ new[t] \in 1 .. sets
      /\ version[new[t]] = version[old[t]] + 1
  BY ZenonT(60) DEF IInv, CallInv, AfterGet, AfterGenerate
<1>2. version[old[t]] \in Nat
  <2>1. version \in [Sets -> SetOrNil] /\ sets \in SetOrNil
    BY Zenon DEF IInv, TypeOK
  <2> QED
    BY <1>1, <2>1, RotationAssumption DEF Sets, SetOrNil
<1> QED
  BY <1>1, <1>2

LEMMA InitInv == Init => IInv
<1> SUFFICES ASSUME Init PROVE IInv
  BY Zenon
<1> USE DEF Init
<1>1. TypeOK
  <2>1. roles \in [Usernames -> 0 .. sets] /\ {file, current, super, pool, poolCreds} \subseteq 0 .. sets
    OBVIOUS
  <2>2. {trigger, stopping, cancelled, blank, spoiled} \subseteq BOOLEAN
    BY Zenon
  <2>3. sets \in SetOrNil /\ version \in [Sets -> SetOrNil] /\ stale \subseteq Sets
    BY RotationAssumption DEF SetOrNil
  <2>4. old \in [Threads -> SetOrNil] /\ new \in [Threads -> SetOrNil]
    BY RotationAssumption DEF SetOrNil
  <2> QED
    BY <2>1, <2>2, <2>3, <2>4, Zenon DEF TypeOK, Free, Steps
<1>2. VersionInv
  BY DEF VersionInv, Sets
<1>3. OneInv /\ CallInv /\ FileInv /\ RolesInv
  BY Zenon DEF OneInv, CallInv, FileInv, RolesInv, AfterGet, AfterGenerate, AfterCreate
<1>4. BusyMeansRunning /\ RolesCanBeReached
  BY Zenon DEF BusyMeansRunning, RolesCanBeReached, Busy
<1> QED
  BY <1>1, <1>2, <1>3, <1>4, Zenon DEF IInv

\* Initialize, FirstRoles and OpenPool.
LEMMA StartKeeps == ASSUME IInv, Initialize \/ FirstRoles \/ OpenPool PROVE IInv'
<1> USE RotationAssumption, OneName DEF IInv
<1>1. CASE Initialize
  <2> USE <1>1 DEF Initialize, Generate
  <2>0. \A t \in Threads : pc[t] \in {"idle", "current"}
    BY DEF CallInv, AfterGet, AfterGenerate, TypeOK, Steps
  <2>1. TypeOK' /\ VersionInv'
    <3>1. /\ version' \in [Sets -> SetOrNil] /\ sets' \in SetOrNil /\ sets <= sets'
          /\ VersionInv'
      <4>1. CASE Generate(1)
        <5>1. 1 \in 1 .. sets + 1
          BY DEF TypeOK, SetOrNil
        <5>2. /\ sets' = sets + 1 /\ sets' \in Sets
              /\ version' \in [Sets -> SetOrNil] /\ VersionInv'
          <6> HIDE DEF Generate, Initialize
          <6> QED
            BY <4>1, <5>1, Generated, Zenon
        <5> QED
          BY <5>2, SMTT(60) DEF TypeOK, Sets, SetOrNil
      <4>2. CASE UNCHANGED <<sets, version>>
        BY <4>2 DEF TypeOK, VersionInv, SetOrNil
      <4> QED
        BY <4>1, <4>2, ZenonT(60)
    <3>2. {file', current', super', pool', poolCreds'} \subseteq 0 .. sets'
      BY <3>1 DEF TypeOK, SetOrNil, dbVars
    <3>3. roles' \in [Usernames -> 0 .. sets']
      BY <3>1 DEF TypeOK, SetOrNil, dbVars
    <3>4. status' \in [Sets -> {"active", "retiring", "expired"}]
      BY Zenon DEF TypeOK
    <3>5. {trigger', stopping', cancelled', blank', spoiled'} \subseteq BOOLEAN
      BY Zenon DEF TypeOK, schedVars
    <3> QED
      BY <3>1, <3>2, <3>3, <3>4, <3>5, Zenon DEF TypeOK, schedVars
  <2>2. OneInv' /\ BusyMeansRunning'
    BY Zenon DEF OneInv, BusyMeansRunning
  <2>3. CallInv'
    BY <2>0, Zenon DEF CallInv, AfterGet, AfterGenerate
  <2>4. FileInv'
    BY Zenon DEF FileInv, CallInv, AfterGet
  <2>5. RolesInv'
    BY Zenon DEF RolesInv, dbVars
  <2>6. RolesCanBeReached'
    BY ZenonT(60) DEF RolesCanBeReached, CallInv, AfterGet, TypeOK, Steps, dbVars
  <2> QED
    BY <2>1, <2>2, <2>3, <2>4, <2>5, <2>6, ZenonT(60)
<1>2. CASE FirstRoles
  <2> USE <1>2 DEF FirstRoles, managerVars, schedVars
  <2>1. TypeOK' /\ VersionInv'
    BY Zenon DEF TypeOK, VersionInv
  <2>2. OneInv' /\ BusyMeansRunning'
    BY Zenon DEF OneInv, BusyMeansRunning
  <2>3. CallInv' /\ FileInv'
    BY ZenonT(60) DEF CallInv, FileInv
  <2>4. RolesInv'
    <3>1. \A t \in Threads : pc[t] \notin AfterCreate
      BY Zenon DEF RolesInv
    <3>2. roles'[Name] = current
      BY ZenonT(60) DEF TypeOK
    <3>3. \A t \in Threads : pc[t] = "create" => current # new[t]
      <4> TAKE t \in Threads
      <4> HAVE pc[t] = "create"
      <4>1. /\ old[t] \in 1 .. sets /\ current = old[t]
            /\ version[new[t]] = version[old[t]] + 1
        BY ZenonT(60) DEF CallInv, AfterGet, AfterGenerate
      <4>2. version[old[t]] \in Nat
        BY <4>1 DEF TypeOK, Sets, SetOrNil
      <4> QED
        BY <4>1, <4>2
    <3> QED
      BY <3>1, <3>2, <3>3, ZenonT(60) DEF RolesInv, AfterCreate, AfterGenerate, AfterGet
  <2>5. RolesCanBeReached'
    BY ZenonT(60) DEF RolesCanBeReached, RolesInv, FileInv, AfterGet, AfterGenerate, AfterCreate, TypeOK
  <2> QED
    BY <2>1, <2>2, <2>3, <2>4, <2>5, Zenon
<1>3. CASE OpenPool
  <2> USE <1>3 DEF OpenPool, managerVars, schedVars
  <2>1. TypeOK' /\ VersionInv'
    BY Zenon DEF TypeOK, VersionInv
  <2>2. OneInv' /\ BusyMeansRunning'
    BY Zenon DEF OneInv, BusyMeansRunning
  <2>3. CallInv' /\ FileInv'
    BY ZenonT(60) DEF CallInv, FileInv
  <2>4. RolesInv'
    <3>1. current # 0 /\ roles[Name] = current
      BY Zenon DEF LogsIn
    <3>2. \A t \in Threads : pc[t] \in {"grace", "drop"} => current # new[t]
      <4> TAKE t \in Threads
      <4> HAVE pc[t] \in {"grace", "drop"}
      <4>1. current = old[t] /\ pc[t] \in AfterGenerate
        BY Zenon DEF CallInv, AfterGet, AfterGenerate
      <4> QED
        BY <4>1, NewIsNotOld, Zenon
    <3> QED
      BY <3>1, <3>2, Zenon DEF RolesInv
  <2>5. RolesCanBeReached'
    BY Zenon DEF RolesCanBeReached
  <2> QED
    BY <2>1, <2>2, <2>3, <2>4, <2>5, ZenonT(60)
<1> QED
  BY <1>1, <1>2, <1>3, Zenon


\* The beginning of a rotation, by a caller or by the scheduler.
LEMMA BeginKeeps ==
    ASSUME IInv, NEW t \in Threads, RotateBegin(t),
           UNCHANGED <<managerVars, dbVars, old, new, stopping, cancelled, blank, spoiled>>,
           sched' \in {"off", "select", "rotating", "done"}, trigger' \in BOOLEAN
    PROVE  IInv'
<1> USE RotationAssumption DEF IInv, RotateBegin, Goto, managerVars, dbVars
<1>1. TypeOK' /\ VersionInv'
  BY Zenon DEF TypeOK, VersionInv, Steps, Busy
<1>2. OneInv' /\ BusyMeansRunning'
  BY Zenon DEF OneInv, BusyMeansRunning, TypeOK, Busy, Free
<1>3. CallInv'
  BY ZenonT(60) DEF CallInv, TypeOK, AfterGet, AfterGenerate
<1>4. FileInv'
  BY Zenon DEF FileInv, TypeOK
<1>5. RolesInv'
  BY Zenon DEF RolesInv, TypeOK, AfterGet, AfterGenerate, AfterCreate
<1>6. RolesCanBeReached'
  BY Zenon DEF RolesCanBeReached, TypeOK
<1> QED
  BY <1>1, <1>2, <1>3, <1>4, <1>5, <1>6, ZenonT(60)

\* A rotation fails, having changed nothing but perhaps the status of the old set.
LEMMA FailKeeps ==
    ASSUME IInv, NEW t \in Threads, FailRotation(t), pc[t] \in AfterGet \ {"set", "complete"},
           status' \in [Sets -> {"active", "retiring", "expired"}],
           UNCHANGED <<sets, version, stale, file, current, dbVars, trigger, stopping, cancelled, blank>>
    PROVE  IInv'
<1> USE RotationAssumption DEF IInv, FailRotation, Ends, Goto, dbVars
<1>1. TypeOK' /\ VersionInv'
  BY DEF TypeOK, VersionInv, Steps, Free, SetOrNil
<1>2. OneInv' /\ BusyMeansRunning'
  BY ZenonT(60) DEF OneInv, BusyMeansRunning, TypeOK, Busy, Free, AfterGet
<1>3. CallInv'
  BY ZenonT(60) DEF CallInv, TypeOK, AfterGet, AfterGenerate
<1>4. FileInv'
  BY Zenon DEF FileInv, TypeOK, OneInv, AfterGet
<1>5. RolesInv'
  BY ZenonT(60) DEF RolesInv, TypeOK, AfterGet, AfterGenerate, AfterCreate
<1>6. RolesCanBeReached'
  <2>1. SUFFICES ASSUME ~spoiled, pc[t] \in {"generate", "create"}
                PROVE  roles[Name] \in {0, file}
    BY OneName, Zenon DEF RolesCanBeReached, AfterGet
  <2>2. new[t] = 0 \/ roles[Name] # new[t]
    BY <2>1, Zenon DEF CallInv, RolesInv
  <2>3. \A u \in Threads : pc[u] # "idle" => u = t
    BY <2>1, Zenon DEF OneInv
  <2> QED
    BY <2>1, <2>2, <2>3, OneName, Zenon DEF RolesCanBeReached
<1> QED
  BY <1>1, <1>2, <1>3, <1>4, <1>5, <1>6, ZenonT(60)


\* Rotate looks up the current credentials.
LEMMA GetCurrentKeeps == ASSUME IInv, NEW t \in Threads, GetCurrent(t) PROVE IInv'
<1> USE RotationAssumption DEF IInv, GetCurrent, Goto, managerVars, dbVars
<1>0. current \in SetOrNil /\ current \in 0 .. sets
  BY DEF TypeOK, SetOrNil
<1>1. TypeOK' /\ VersionInv'
  <2>1. {trigger', stopping', cancelled', blank', spoiled'} \subseteq BOOLEAN
    BY Zenon DEF TypeOK
  <2>2. old' \in [Threads -> SetOrNil] /\ new' \in [Threads -> SetOrNil]
    BY <1>0 DEF TypeOK, Ends, SetOrNil
  <2>3. pc' \in [Threads -> Steps] /\ sched' \in {"off", "select", "rotating", "done"}
    BY Zenon DEF TypeOK, Ends, Steps
  <2> QED
    BY <2>1, <2>2, <2>3, Zenon DEF TypeOK, VersionInv
<1>2. OneInv' /\ BusyMeansRunning'
  BY ZenonT(60) DEF OneInv, BusyMeansRunning, TypeOK, Ends
<1>3. CallInv'
  BY <1>0 DEF CallInv, TypeOK, AfterGet, AfterGenerate, Ends, SetOrNil
<1>4. FileInv'
  BY Zenon DEF FileInv, TypeOK, Ends
<1>5. RolesInv'
  BY SMTT(60) DEF RolesInv, TypeOK, AfterGet, AfterGenerate, AfterCreate, Ends
<1>6. RolesCanBeReached'
  BY OneName DEF RolesCanBeReached, TypeOK, CallInv, OneInv, Ends
<1> QED
  BY <1>1, <1>2, <1>3, <1>4, <1>5, <1>6, ZenonT(60)

\* A new set: its version follows that of the old one, and no role has it yet.
LEMMA GenerateNewKeeps == ASSUME IInv, NEW t \in Threads, GenerateNew(t) PROVE IInv'
<1> USE RotationAssumption DEF IInv
<1>1. CASE FailRotation(t) /\ UNCHANGED <<sets, version>>
  <2>1. pc[t] \in AfterGet \ {"set", "complete"} /\ status' \in [Sets -> {"active", "retiring", "expired"}]
    BY Zenon DEF GenerateNew, TypeOK, AfterGet
  <2>2. UNCHANGED <<sets, version, stale, file, current, dbVars, trigger, stopping, cancelled, blank>>
    BY <1>1, Zenon DEF GenerateNew
  <2> QED
    BY <1>1, <2>1, <2>2, FailKeeps, Zenon
<1>2. CASE Generate(NewVersion(t)) /\ new' = [new EXCEPT ![t] = sets + 1]
           /\ state' = "transitioning" /\ Goto(t, "create") /\ UNCHANGED <<old, sched, spoiled>>
  <2> USE <1>2 DEF Goto, dbVars
  <2>0. /\ UNCHANGED <<status, stale, file, current, dbVars, trigger, stopping, cancelled, blank>>
        /\ pc[t] = "generate"
    BY ZenonT(60) DEF GenerateNew
  <2>1. /\ old[t] \in 1 .. sets /\ sets \in SetOrNil
        /\ version[old[t]] \in Nat /\ version[old[t]] <= old[t]
    BY <2>0, SMTT(60) DEF CallInv, AfterGet, TypeOK, Sets, SetOrNil, VersionInv
  <2>2. NewVersion(t) \in 1 .. sets + 1
    BY <2>1 DEF NewVersion, SetOrNil
  <2>3. /\ sets' = sets + 1 /\ sets' \in Sets
        /\ version' \in [Sets -> SetOrNil] /\ VersionInv'
        /\ version'[sets'] = version[old[t]] + 1
        /\ \A g \in 1 .. sets : version'[g] = version[g]
    BY <2>2, Generated, Zenon DEF NewVersion
  <2>4. TypeOK'
    <3>1. {file', current', super', pool', poolCreds'} \subseteq 0 .. sets' /\ sets' \in SetOrNil
      <4>1. {file, current, super, pool, poolCreds} \subseteq 0 .. sets
        BY Zenon DEF TypeOK
      <4>2. 0 .. sets \subseteq 0 .. sets' /\ sets' \in SetOrNil
        BY <2>1, <2>3, SMTT(60) DEF Sets, SetOrNil
      <4> QED
        BY <2>0, <4>1, <4>2, Zenon
    <3>2. roles' \in [Usernames -> 0 .. sets']
      BY <2>0, <2>1, <2>3 DEF TypeOK, SetOrNil
    <3>3. new' \in [Threads -> SetOrNil]
      BY <2>3, <3>1, Zenon DEF TypeOK
    <3> QED
      BY <2>0, <2>3, <3>1, <3>2, <3>3, Zenon DEF TypeOK, Steps, Busy
  <2>5. OneInv' /\ BusyMeansRunning'
    BY <2>0, Zenon DEF OneInv, BusyMeansRunning, TypeOK, Busy
  <2>6. \A u \in Threads : u # t => pc[u] = "idle" /\ pc'[u] = "idle"
    BY <2>0, ZenonT(60) DEF OneInv, TypeOK
  <2>7. CallInv'
    BY <2>0, <2>1, <2>3, <2>6 DEF CallInv, TypeOK, AfterGet, AfterGenerate, SetOrNil
  <2>8. FileInv'
    BY <2>0, <2>6, Zenon DEF FileInv, TypeOK
  <2>9. RolesInv'
    <3>1. roles[Name] \in 0 .. sets /\ new'[t] = sets + 1 /\ pc'[t] = "create"
      BY OneName, ZenonT(60) DEF TypeOK
    <3>2. roles'[Name] # new'[t]
      BY <2>0, <2>1, <3>1 DEF SetOrNil
    <3> QED
      BY <2>6, <3>1, <3>2, Zenon DEF RolesInv, AfterCreate, AfterGenerate, AfterGet
  <2>10. RolesCanBeReached'
    <3>1. ~spoiled => roles[Name] \in {0, file}
      BY <2>0, <2>6, OneName, ZenonT(60) DEF RolesCanBeReached, CallInv
    <3> QED
      BY <2>0, <3>1, OneName, Zenon DEF RolesCanBeReached
  <2> QED
    BY <2>3, <2>4, <2>5, <2>7, <2>8, <2>9, <2>10, ZenonT(60)
<1> QED
  BY <1>1, <1>2, Zenon DEF GenerateNew


\* The roles get the passwords of the new set.
LEMMA CreateRolesKeeps == ASSUME IInv, NEW t \in Threads, CreateRoles(t) PROVE IInv'
<1> USE RotationAssumption, OneName DEF IInv
<1>1. CASE FailRotation(t) /\ UNCHANGED <<roles, super>>
  <2>1. pc[t] \in AfterGet \ {"set", "complete"} /\ status' \in [Sets -> {"active", "retiring", "expired"}]
    BY Zenon DEF CreateRoles, TypeOK, AfterGet, managerVars
  <2>2. UNCHANGED <<sets, version, stale, file, current, dbVars, trigger, stopping, cancelled, blank>>
    BY <1>1, Zenon DEF CreateRoles, dbVars, managerVars
  <2> QED
    BY <1>1, <2>1, <2>2, FailKeeps, Zenon
<1>2. CASE /\ roles' = [roles EXCEPT ![Username(new[t])] = new[t]]
           /\ super' = IF super = 0 THEN new[t] ELSE super
           /\ Goto(t, "retire") /\ UNCHANGED <<state, old, new, sched, spoiled>>
  <2> USE <1>2 DEF Goto
  <2>0. UNCHANGED <<managerVars, pool, poolCreds, trigger, stopping, cancelled, blank>> /\ pc[t] = "create"
    BY ZenonT(60) DEF CreateRoles
  <2>1. new[t] \in 1 .. sets /\ sets \in Nat
    BY <2>0, SMTT(60) DEF CallInv, AfterGet, AfterGenerate, TypeOK, SetOrNil
  <2>2. roles'[Name] = new[t] /\ super' # 0 /\ super' \in 0 .. sets
    BY <2>1 DEF TypeOK
  <2>3. TypeOK' /\ VersionInv'
    <3>1. roles' \in [Usernames -> 0 .. sets]
      BY <2>1 DEF TypeOK
    <3> QED
      BY <2>0, <2>2, <3>1, ZenonT(60) DEF TypeOK, VersionInv, Steps, managerVars
  <2>4. OneInv' /\ BusyMeansRunning'
    BY <2>0, Zenon DEF OneInv, BusyMeansRunning, TypeOK
  <2>5. CallInv'
    BY <2>0, ZenonT(60) DEF CallInv, TypeOK, AfterGet, AfterGenerate, managerVars
  <2>6. FileInv'
    BY <2>0, Zenon DEF FileInv, TypeOK, managerVars
  <2>7. RolesInv'
    BY <2>0, <2>2, ZenonT(60) DEF RolesInv, OneInv, TypeOK, AfterCreate, AfterGenerate, AfterGet
  <2>8. RolesCanBeReached'
    BY <2>0, <2>2 DEF RolesCanBeReached, TypeOK
  <2> QED
    BY <2>3, <2>4, <2>5, <2>6, <2>7, <2>8, ZenonT(60)
<1> QED
  BY <1>1, <1>2, Zenon DEF CreateRoles

\* The old set is marked; the pool takes the new one.
LEMMA PoolKeeps ==
    ASSUME IInv, NEW t \in Threads, MarkRetiring(t) \/ UpdatePool(t) PROVE IInv'
<1> USE RotationAssumption, OneName DEF IInv
<1>1. CASE UpdatePool(t) /\ FailRotation(t) /\ UNCHANGED poolCreds
  <2>1. pc[t] \in AfterGet \ {"set", "complete"} /\ status' \in [Sets -> {"active", "retiring", "expired"}]
    BY <1>1, Zenon DEF UpdatePool, TypeOK, AfterGet, managerVars
  <2>2. UNCHANGED <<sets, version, stale, file, current, dbVars, trigger, stopping, cancelled, blank>>
    BY <1>1, Zenon DEF UpdatePool, dbVars, managerVars
  <2> QED
    BY <1>1, <2>1, <2>2, FailKeeps, Zenon
<1>2. CASE MarkRetiring(t)
  <2> USE <1>2 DEF MarkRetiring, Goto, dbVars, schedVars
  <2>1. new[t] \in 1 .. sets /\ sets \in Nat
    BY DEF CallInv, AfterGet, AfterGenerate, TypeOK, SetOrNil
  <2>2. TypeOK' /\ VersionInv'
    BY <2>1, Zenon DEF TypeOK, VersionInv, Steps
  <2>3. OneInv' /\ BusyMeansRunning'
    BY Zenon DEF OneInv, BusyMeansRunning, TypeOK
  <2>4. CallInv'
    BY ZenonT(60) DEF CallInv, TypeOK, AfterGet, AfterGenerate
  <2>5. FileInv'
    BY Zenon DEF FileInv, TypeOK
  <2>6. RolesInv'
    BY ZenonT(60) DEF RolesInv, OneInv, TypeOK, AfterCreate, AfterGenerate, AfterGet
  <2>7. RolesCanBeReached'
    BY Zenon DEF RolesCanBeReached, TypeOK
  <2> QED
    BY <2>2, <2>3, <2>4, <2>5, <2>6, <2>7, ZenonT(60)
<1>3. CASE /\ UpdatePool(t) /\ poolCreds' = (IF pool = 0 THEN 0 ELSE new[t]) /\ Goto(t, "grace")
           /\ UNCHANGED <<state, old, new, sched, spoiled>>
  <2> USE <1>3 DEF UpdatePool, Goto, managerVars
  <2>1. new[t] \in 1 .. sets /\ sets \in Nat
    BY SMTT(60) DEF CallInv, AfterGet, AfterGenerate, TypeOK, SetOrNil
  <2>2. TypeOK' /\ VersionInv'
    BY <2>1 DEF TypeOK, VersionInv, Steps
  <2>3. OneInv' /\ BusyMeansRunning'
    BY Zenon DEF OneInv, BusyMeansRunning, TypeOK
  <2>4. CallInv'
    BY ZenonT(60) DEF CallInv, TypeOK, AfterGet, AfterGenerate
  <2>5. FileInv'
    BY Zenon DEF FileInv, TypeOK
  <2>6. RolesInv'
    BY ZenonT(60) DEF RolesInv, OneInv, TypeOK, AfterCreate, AfterGenerate, AfterGet
  <2>7. RolesCanBeReached'
    BY Zenon DEF RolesCanBeReached, TypeOK
  <2> QED
    BY <2>2, <2>3, <2>4, <2>5, <2>6, <2>7, ZenonT(60)
<1> QED
  BY <1>1, <1>2, <1>3, Zenon DEF UpdatePool

\* The end of the grace period.
LEMMA GraceKeeps == ASSUME IInv, NEW t \in Threads, GraceEnds(t) PROVE IInv'
<1> USE RotationAssumption, OneName DEF IInv
<1>1. CASE FailRotation(t)
  <2>1. pc[t] \in AfterGet \ {"set", "complete"} /\ status' \in [Sets -> {"active", "retiring", "expired"}]
    BY Zenon DEF GraceEnds, TypeOK, AfterGet, managerVars
  <2>2. UNCHANGED <<sets, version, stale, file, current, dbVars, trigger, stopping, cancelled, blank>>
    BY Zenon DEF GraceEnds, managerVars
  <2> QED
    BY <1>1, <2>1, <2>2, FailKeeps, Zenon
<1>2. CASE state' = "finalizing" /\ Goto(t, "drop") /\ UNCHANGED <<old, new, sched, spoiled>>
  <2> USE <1>2 DEF GraceEnds, Goto, managerVars, dbVars
  <2>2. TypeOK' /\ VersionInv'
    BY Zenon DEF TypeOK, VersionInv, Steps, Busy
  <2>3. OneInv' /\ BusyMeansRunning'
    BY Zenon DEF OneInv, BusyMeansRunning, TypeOK, Busy
  <2>4. CallInv'
    BY ZenonT(60) DEF CallInv, TypeOK, AfterGet, AfterGenerate
  <2>5. FileInv'
    BY Zenon DEF FileInv, TypeOK
  <2>6. RolesInv'
    BY ZenonT(60) DEF RolesInv, OneInv, TypeOK, AfterCreate, AfterGenerate, AfterGet
  <2>7. RolesCanBeReached'
    BY Zenon DEF RolesCanBeReached, TypeOK
  <2> QED
    BY <2>2, <2>3, <2>4, <2>5, <2>6, <2>7, ZenonT(60)
<1> QED
  BY <1>1, <1>2, Zenon DEF GraceEnds


\* The roles are dropped by name, and the new set is saved.
LEMMA SaveKeeps ==
    ASSUME IInv, NEW t \in Threads, DropRoles(t) \/ SaveNew(t) PROVE IInv'
<1> USE RotationAssumption, OneName DEF IInv
<1>1. CASE SaveNew(t) /\ FailRotation(t) /\ UNCHANGED file
  <2>1. pc[t] \in AfterGet \ {"set", "complete"} /\ status' \in [Sets -> {"active", "retiring", "expired"}]
    BY <1>1, Zenon DEF SaveNew, TypeOK, AfterGet
  <2>2. UNCHANGED <<sets, version, stale, file, current, dbVars, trigger, stopping, cancelled, blank>>
    BY <1>1, Zenon DEF SaveNew
  <2> QED
    BY <1>1, <2>1, <2>2, FailKeeps, ZenonT(60)
<1>2. CASE DropRoles(t)
  <2> USE <1>2 DEF DropRoles, Goto, managerVars, dbVars, schedVars
  <2>1. roles' \in [Usernames -> 0 .. sets] /\ roles'[Name] \in {0, roles[Name]}
    BY DEF TypeOK, SetOrNil
  <2>2. TypeOK' /\ VersionInv'
    BY <2>1, Zenon DEF TypeOK, VersionInv, Steps
  <2>3. OneInv' /\ BusyMeansRunning'
    BY Zenon DEF OneInv, BusyMeansRunning, TypeOK
  <2>4. CallInv'
    BY ZenonT(60) DEF CallInv, TypeOK, AfterGet, AfterGenerate
  <2>5. FileInv'
    BY Zenon DEF FileInv, TypeOK
  <2>6. RolesInv'
    BY <2>1, ZenonT(60) DEF RolesInv, OneInv, TypeOK, AfterCreate, AfterGenerate, AfterGet
  <2>7. RolesCanBeReached'
    BY <2>1 DEF RolesCanBeReached, TypeOK
  <2> QED
    BY <2>2, <2>3, <2>4, <2>5, <2>6, <2>7, ZenonT(60)
<1>3. CASE /\ SaveNew(t) /\ file' = new[t] /\ Goto(t, "set")
           /\ UNCHANGED <<state, old, new, sched, spoiled>>
  <2> USE <1>3 DEF SaveNew, Goto, dbVars
  <2>1. new[t] \in 0 .. sets
    BY DEF CallInv, AfterGet, AfterGenerate, TypeOK, SetOrNil
  <2>2. TypeOK' /\ VersionInv'
    BY <2>1, ZenonT(60) DEF TypeOK, VersionInv, Steps
  <2>3. OneInv' /\ BusyMeansRunning'
    BY ZenonT(60) DEF OneInv, BusyMeansRunning, TypeOK
  <2>4. CallInv'
    <3>1. pc'[t] = "set" /\ \A u \in Threads \ {t} : pc[u] = "idle" /\ pc'[u] = "idle"
      BY Zenon DEF OneInv, TypeOK
    <3>2. UNCHANGED <<old, new, sets, version, current>> /\ file' = new[t]
      BY Zenon
    <3>3. /\ old[t] \in 1 .. sets /\ new[t] \in 1 .. sets /\ current = old[t]
          /\ version[new[t]] = version[old[t]] + 1
      BY Zenon DEF CallInv, AfterGet, AfterGenerate
    <3>4. \A u \in Threads \ {t} : old[u] = 0 /\ new[u] = 0
      BY <3>1, Zenon DEF CallInv
    <3> QED
      BY <3>1, <3>2, <3>3, <3>4, ZenonT(60) DEF CallInv, AfterGet, AfterGenerate
  <2>5. FileInv'
    BY Zenon DEF FileInv, TypeOK
  <2>6. RolesInv'
    BY ZenonT(60) DEF RolesInv, OneInv, TypeOK, AfterCreate, AfterGenerate, AfterGet
  <2>7. RolesCanBeReached'
    BY Zenon DEF RolesCanBeReached, RolesInv
  <2> QED
    BY <2>2, <2>3, <2>4, <2>5, <2>6, <2>7, ZenonT(60)
<1> QED
  BY <1>1, <1>2, <1>3, Zenon DEF SaveNew

\* The manager takes the new set, and Rotate returns.
LEMMA CompleteKeeps ==
    ASSUME IInv, NEW t \in Threads, SetCurrent(t) \/ Complete(t) PROVE IInv'
<1> USE RotationAssumption, OneName DEF IInv, Goto, managerVars, dbVars, schedVars
<1>1. CASE SetCurrent(t)
  <2> USE <1>1 DEF SetCurrent
  <2>1. new[t] \in 0 .. sets /\ file = new[t]
    BY Zenon DEF CallInv, AfterGet, AfterGenerate, TypeOK, SetOrNil
  <2>2. TypeOK' /\ VersionInv'
    BY <2>1, Zenon DEF TypeOK, VersionInv, Steps
  <2>3. OneInv' /\ BusyMeansRunning'
    BY ZenonT(60) DEF OneInv, BusyMeansRunning, TypeOK
  <2>4. CallInv'
    BY <2>1 DEF CallInv, OneInv, TypeOK, AfterGet, AfterGenerate
  <2>5. FileInv'
    BY <2>1, Zenon DEF FileInv, TypeOK
  <2>6. RolesInv'
    BY Zenon DEF RolesInv, TypeOK, AfterCreate, AfterGenerate, AfterGet
  <2>7. RolesCanBeReached'
    BY Zenon DEF RolesCanBeReached, TypeOK
  <2> QED
    BY <2>2, <2>3, <2>4, <2>5, <2>6, <2>7, ZenonT(60)
<1>2. CASE Complete(t)
  <2> USE <1>2 DEF Complete, Ends
  <2>1. \A u \in Threads : u # t => pc[u] = "idle"
    BY ZenonT(60) DEF OneInv
  <2>2. TypeOK' /\ VersionInv'
    BY DEF TypeOK, VersionInv, Steps, Free, SetOrNil
  <2>3. OneInv' /\ BusyMeansRunning'
    BY <2>1, Zenon DEF OneInv, BusyMeansRunning, TypeOK, Busy
  <2>4. CallInv'
    BY <2>1, ZenonT(60) DEF CallInv, TypeOK, AfterGet, AfterGenerate
  <2>5. FileInv'
    BY <2>1, Zenon DEF FileInv, CallInv, TypeOK
  <2>6. RolesInv'
    BY <2>1, ZenonT(60) DEF RolesInv, TypeOK, AfterCreate, AfterGenerate, AfterGet
  <2>7. roles[Name] \in {0, file}
    BY Zenon DEF RolesInv, CallInv
  <2>8. RolesCanBeReached'
    BY <2>7, Zenon DEF RolesCanBeReached
  <2> QED
    BY <2>2, <2>3, <2>4, <2>5, <2>6, <2>8, ZenonT(60)
<1> QED
  BY <1>1, <1>2, Zenon

\* What changes only the channels of the scheduler, or the age of a set.
LEMMA SignalKeeps ==
    ASSUME IInv, UNCHANGED <<sets, version, status, file, current, dbVars, state, pc, old, new,
                             blank, spoiled>>,
           stale' \subseteq Sets, sched' \in {"off", "select", "rotating", "done"},
           trigger' \in BOOLEAN, stopping' \in BOOLEAN, cancelled' \in BOOLEAN
    PROVE  IInv'
<1> USE DEF IInv, dbVars
<1>1. TypeOK' /\ VersionInv'
  BY Zenon DEF TypeOK, VersionInv
<1>2. OneInv' /\ BusyMeansRunning' /\ CallInv' /\ FileInv'
  BY Zenon DEF OneInv, BusyMeansRunning, CallInv, FileInv
<1>3. RolesInv' /\ RolesCanBeReached'
  BY Zenon DEF RolesInv, RolesCanBeReached
<1> QED
  BY <1>1, <1>2, <1>3, Zenon

\* After a crash the file has the passwords of the roles, unless a rotation was
\* cut off between CreateRoles and Save.
LEMMA CrashKeeps == ASSUME IInv, Crash PROVE IInv'
<1> USE RotationAssumption, OneName DEF IInv, Crash
<1>1. TypeOK' /\ VersionInv'
  <2>1. {file', current', super', pool', poolCreds'} \subseteq 0 .. sets'
    BY DEF TypeOK, SetOrNil
  <2>2. old' \in [Threads -> SetOrNil] /\ new' \in [Threads -> SetOrNil]
    BY DEF SetOrNil
  <2>3. {trigger', stopping', cancelled', blank'} \subseteq BOOLEAN
    BY Zenon
  <2>4. spoiled' \in BOOLEAN
    BY Zenon DEF TypeOK
  <2> QED
    BY <2>1, <2>2, <2>3, <2>4, ZenonT(60) DEF TypeOK, VersionInv, Steps, Free
<1>2. OneInv' /\ BusyMeansRunning' /\ CallInv' /\ FileInv' /\ RolesInv'
  BY Zenon DEF OneInv, BusyMeansRunning, CallInv, FileInv, RolesInv, AfterGet, AfterGenerate, AfterCreate,
         Busy
<1>3. RolesCanBeReached'
  <2>1. SUFFICES ASSUME ~spoiled,
                        \A t \in Threads : pc[t] \notin {"retire", "pool", "grace", "drop", "save"}
                PROVE  roles[Name] \in {0, file}
    BY Zenon DEF RolesCanBeReached
  <2>2. \A t \in Threads : pc[t] # "idle" /\ new[t] = roles[Name] => roles[Name] \in {0, file}
    BY <2>1, ZenonT(60) DEF TypeOK, Steps, CallInv, RolesInv
  <2> QED
    BY <2>1, <2>2, Zenon DEF RolesCanBeReached
<1> QED
  BY <1>1, <1>2, <1>3, Zenon

LEMMA StepKeeps == IInv /\ [Next]_vars => IInv'
<1> SUFFICES ASSUME IInv, [Next]_vars PROVE IInv'
  BY Zenon
<1>0. TypeOK
  BY Zenon DEF IInv
<1>1. CASE Initialize \/ FirstRoles \/ OpenPool
  BY <1>1, StartKeeps, Zenon
<1>2. ASSUME NEW t \in Threads, RotateCall(t) PROVE IInv'
  BY <1>0, <1>2, BeginKeeps, Zenon DEF RotateCall, schedVars, TypeOK
<1>3. ASSUME NEW t \in Threads, RotateStep(t) PROVE IInv'
  BY <1>3, GetCurrentKeeps, GenerateNewKeeps, CreateRolesKeeps, PoolKeeps, GraceKeeps, SaveKeeps,
     CompleteKeeps, ZenonT(60) DEF RotateStep
<1>4. CASE SchedulerRotates
  <2>1. CASE RotateBegin(Scheduler) /\ sched' = "rotating"
    <3>1. Scheduler \in Threads /\ trigger' \in BOOLEAN
      BY <1>0, <1>4, Zenon DEF SchedulerRotates, TypeOK, Threads
    <3> QED
      BY <1>4, <2>1, <3>1, BeginKeeps, Zenon DEF SchedulerRotates
  <2>2. CASE UNCHANGED <<state, pc, sched>>
    BY <1>0, <1>4, <2>2, SignalKeeps, Zenon DEF SchedulerRotates, TypeOK, managerVars
  <2> QED
    BY <1>4, <2>1, <2>2, Zenon DEF SchedulerRotates
<1>5. CASE StartScheduler \/ SchedulerEnds
  BY <1>0, <1>5, SignalKeeps, Zenon DEF StartScheduler, SchedulerEnds, TypeOK, managerVars
<1>6. CASE TriggerRotation \/ StopScheduler \/ Cancel
  BY <1>0, <1>6, SignalKeeps, Zenon DEF TriggerRotation, StopScheduler, Cancel, TypeOK, managerVars
<1>7. CASE TimePasses
  <2>1. stale' \subseteq Sets
    <3>1. current \in 0 .. sets /\ sets \in 0 .. MaxSets /\ current # 0
      BY <1>0, <1>7, Zenon DEF TimePasses, TypeOK, SetOrNil
    <3>2. current \in Sets
      BY <3>1, RotationAssumption DEF Sets
    <3> QED
      BY <1>0, <1>7, <3>2, Zenon DEF TimePasses, TypeOK
  <2> QED
    BY <1>0, <1>7, <2>1, SignalKeeps, Zenon DEF TimePasses, TypeOK, schedVars
<1>8. CASE Crash
  BY <1>8, CrashKeeps, Zenon
<1>9. CASE UNCHANGED vars
  BY <1>0, <1>9, SignalKeeps, Zenon DEF vars, managerVars, schedVars, TypeOK
<1> QED
  BY <1>1, <1>2, <1>3, <1>4, <1>5, <1>6, <1>7, <1>8, <1>9, ZenonT(60) DEF Next

\* The variables keep their types, and Version of a set stays in range.
THEOREM TypeCorrect == Spec => []TypeOK
<1>1. IInv => TypeOK
  BY Zenon DEF IInv
<1> QED
  BY InitInv, StepKeeps, <1>1, PTL DEF Spec

\* Whatever callers, scheduler and crashes do, a rotation that saves replaces the
\* set it was made from: two rotations never overlap, although the state is only
\* looked at when Rotate begins.
THEOREM SaveReplacesBase == Spec => []SaveReplacesItsBase
<1>1. IInv => SaveReplacesItsBase
  <2> SUFFICES ASSUME IInv, NEW t \in Threads, pc[t] = "save"
               PROVE  old[t] = file /\ version[new[t]] = version[file] + 1
    BY Zenon DEF SaveReplacesItsBase
  <2>1. /\ old[t] \in 1 .. sets /\ current = old[t]
        /\ version[new[t]] = version[old[t]] + 1
    BY Zenon DEF IInv, CallInv, AfterGet, AfterGenerate
  <2>2. \A u \in Threads : pc[u] # "set"
    BY Zenon DEF IInv, OneInv
  <2>3. file = current
    BY <2>1, <2>2 DEF IInv, FileInv
  <2> QED
    BY <2>1, <2>3, Zenon
<1> QED
  BY InitInv, StepKeeps, <1>1, PTL DEF Spec

\* From CreateRoles to DropRoles the passwords of the roles are those of the running
\* rotation, and so are the credentials that UpdatePoolCredentials gave the pool.
THEOREM RolesHaveNewSet == Spec => []RolesKeepNewSet
<1>1. IInv => RolesKeepNewSet
  BY OneName DEF IInv, RolesInv, CallInv, RolesKeepNewSet, LogsIn, AfterGet, AfterGenerate
<1> QED
  BY InitInv, StepKeeps, <1>1, PTL DEF Spec

\* As long as no rotation failed or was cut off after CreateRoles, and Initialize
\* could read its file, the passwords of the roles are in the file or in the hands
\* of a rotation.
THEOREM RolesReachable == Spec => []RolesCanBeReached
<1>1. IInv => RolesCanBeReached
  BY Zenon DEF IInv
<1> QED
  BY InitInv, StepKeeps, <1>1, PTL DEF Spec

\* The rotator refuses a rotation only while one runs, or once a Rotate met a
\* manager without credentials.
THEOREM BusyRuns == Spec => []BusyMeansRunning
<1>1. IInv => BusyMeansRunning
  BY Zenon DEF IInv
<1> QED
  BY InitInv, StepKeeps, <1>1, PTL DEF Spec

-----------------------------------------------------------------------------
(* The pool between two rotations *)

Mid == {"create", "retire", "pool", "grace", "drop", "save", "set"}
Early == {"idle", "current", "generate", "create", "complete"}

\* A pool belongs to a manager with credentials and never has the set that a
\* rotation is about to make current; if it has the current one and no rotation is
\* between CreateRoles and the assignment, it can open connections.
PoolInv ==
    /\ current = 0 => pool = 0
    /\ \A t \in Threads : pc[t] \in Mid => pool # new[t]
    /\ ~spoiled /\ pool # 0 /\ pool = current /\ (\A t \in Threads : pc[t] \in Early) => LogsIn(pool)

LEMMA NoPoolKeeps == ASSUME IInv', pool' = 0 PROVE PoolInv'
<1> SUFFICES ASSUME NEW t \in Threads, pc'[t] \in Mid PROVE new'[t] # 0
  BY Zenon DEF PoolInv
<1>1. new'[t] \in 1 .. sets'
  BY Zenon DEF IInv, CallInv, Mid, AfterGet, AfterGenerate
<1> QED
  BY <1>1

\* Steps that change neither the pool nor the current set.
LEMMA PoolFrame ==
    ASSUME PoolInv, UNCHANGED <<current, pool>>,
           \A t \in Threads : pc'[t] \in Mid => pc[t] \in Mid /\ new'[t] = new[t],
           \/ spoiled'
           \/ \E t \in Threads : pc'[t] \notin Early
           \/ ~spoiled /\ roles' = roles /\ \A t \in Threads : pc[t] \in Early
    PROVE  PoolInv'
  BY Zenon DEF PoolInv, LogsIn, Username

\* Steps of Rotate.
LEMMA PoolRotate == ASSUME IInv, PoolInv, NEW t \in Threads, RotateStep(t) PROVE PoolInv'
<1> USE DEF dbVars
<1>0. pc \in [Threads -> Steps] /\ new \in [Threads -> SetOrNil] /\ spoiled \in BOOLEAN
  BY Zenon DEF IInv, TypeOK
<1>a. ASSUME NEW l \in Steps, pc' = [pc EXCEPT ![t] = l]
      PROVE  pc'[t] = l /\ \A u \in Threads \ {t} : pc'[u] = pc[u]
  BY <1>0, <1>a, Zenon
<1>b. pc[t] # "idle" => \A u \in Threads \ {t} : pc[u] = "idle"
  BY Zenon DEF IInv, OneInv
<1>c. ASSUME Ends(t), pc[t] # "idle", UNCHANGED <<current, pool, roles>>, spoiled' = spoiled,
             pc[t] \in Early
      PROVE  PoolInv'
  <2>1. pc'[t] = "idle" /\ \A u \in Threads \ {t} : pc'[u] = "idle" /\ pc[u] = "idle"
    BY <1>a, <1>b, <1>c, Zenon DEF Ends, Goto, Steps
  <2>2. \A u \in Threads : pc'[u] \notin Mid /\ pc[u] \in Early
    BY <1>c, <2>1, Zenon DEF Mid, Early
  <2> QED
    BY <1>c, <2>2, <1>0, PoolFrame, Zenon
<1>d. ASSUME FailRotation(t), pc[t] \in {"generate", "create", "pool", "grace", "save"},
             UNCHANGED <<current, pool, roles>>
      PROVE  PoolInv'
  <2>1. CASE pc[t] \in {"generate", "create"}
    <3>1. spoiled' = spoiled
      BY <1>0, <1>d, <2>1, Zenon DEF FailRotation
    <3> QED
      BY <1>c, <1>d, <2>1, <3>1, Zenon DEF FailRotation, Early
  <2>2. CASE pc[t] \in {"pool", "grace", "save"}
    <3>1. spoiled'
      BY <1>d, <2>2, Zenon DEF FailRotation
    <3>2. \A u \in Threads : pc'[u] = "idle"
      BY <1>a, <1>b, <1>d, Zenon DEF FailRotation, Ends, Goto, Steps
    <3> QED
      BY <1>d, <3>1, <3>2, PoolFrame, Zenon DEF Mid
  <2> QED
    BY <1>d, <2>1, <2>2, Zenon
<1>e. ASSUME NEW l \in Mid \ {"create"}, Goto(t, l), pc[t] \in Mid, UNCHANGED <<current, pool, new>>
      PROVE  PoolInv'
  <2>1. l \in Steps /\ l \notin Early
    BY <1>e, Zenon DEF Mid, Steps, Early
  <2>2. pc'[t] = l /\ \A u \in Threads \ {t} : pc'[u] = pc[u]
    BY <1>a, <1>e, <2>1, Zenon DEF Goto
  <2> QED
    BY <1>e, <2>1, <2>2, PoolFrame, Zenon
<1>1. CASE GetCurrent(t)
  <2>1. UNCHANGED <<current, pool, roles>> /\ spoiled' = spoiled /\ pc[t] = "current"
    BY <1>1, Zenon DEF GetCurrent, managerVars
  <2>2. CASE Ends(t)
    BY <1>c, <2>1, <2>2, Zenon DEF Early
  <2>3. CASE Goto(t, "generate")
    <3>1. pc'[t] = "generate" /\ \A u \in Threads \ {t} : pc'[u] = "idle" /\ pc[u] = "idle"
      BY <1>a, <1>b, <2>1, <2>3, Zenon DEF Goto, Steps
    <3>2. \A u \in Threads : pc'[u] \notin Mid /\ pc[u] \in Early
      BY <2>1, <3>1, Zenon DEF Mid, Early
    <3> QED
      BY <1>0, <2>1, <3>2, PoolFrame, Zenon
  <2> QED
    BY <1>1, <2>2, <2>3, Zenon DEF GetCurrent
<1>2. CASE GenerateNew(t)
  <2>1. UNCHANGED <<current, pool, roles>> /\ pc[t] = "generate"
    BY <1>2, Zenon DEF GenerateNew
  <2>2. CASE FailRotation(t)
    BY <1>d, <2>1, <2>2, Zenon
  <2>3. CASE Generate(NewVersion(t)) /\ new' = [new EXCEPT ![t] = sets + 1] /\ Goto(t, "create")
             /\ spoiled' = spoiled
    <3>1. pc'[t] = "create" /\ \A u \in Threads \ {t} : pc'[u] = "idle" /\ pc[u] = "idle"
      BY <1>a, <1>b, <2>1, <2>3, Zenon DEF Goto, Steps
    <3>2. pool # new'[t]
      <4>1. new'[t] = sets + 1
        BY <1>0, <2>3, Zenon
      <4>2. pool \in 0 .. sets /\ sets \in 0 .. MaxSets
        BY Zenon DEF IInv, TypeOK, SetOrNil
      <4> QED
        BY <4>1, <4>2, RotationAssumption
    <3>3. \A u \in Threads : pc[u] \in Early /\ (pc'[u] \in Mid => u = t)
      BY <2>1, <3>1, Zenon DEF Mid, Early
    <3> QED
      BY <2>1, <2>3, <3>2, <3>3, Zenon DEF PoolInv, LogsIn, Username
  <2> QED
    BY <1>2, <2>2, <2>3, Zenon DEF GenerateNew
<1>3. CASE CreateRoles(t)
  <2>1. UNCHANGED <<current, pool>> /\ pc[t] = "create"
    BY <1>3, Zenon DEF CreateRoles, managerVars
  <2>2. CASE FailRotation(t) /\ UNCHANGED <<roles, super>>
    BY <1>d, <2>1, <2>2, Zenon
  <2>3. CASE Goto(t, "retire") /\ UNCHANGED new
    BY <1>e, <2>1, <2>3, Zenon DEF Mid
  <2> QED
    BY <1>3, <2>2, <2>3, Zenon DEF CreateRoles
<1>4. CASE MarkRetiring(t)
  BY <1>e, <1>4, Zenon DEF MarkRetiring, Mid
<1>5. CASE UpdatePool(t)
  <2>1. UNCHANGED <<current, pool, roles>> /\ pc[t] = "pool"
    BY <1>5, Zenon DEF UpdatePool, managerVars
  <2>2. CASE FailRotation(t)
    BY <1>d, <2>1, <2>2, Zenon
  <2>3. CASE Goto(t, "grace") /\ UNCHANGED new
    BY <1>e, <2>1, <2>3, Zenon DEF Mid
  <2> QED
    BY <1>5, <2>2, <2>3, Zenon DEF UpdatePool
<1>6. CASE GraceEnds(t)
  <2>1. UNCHANGED <<current, pool, roles>> /\ pc[t] = "grace"
    BY <1>6, Zenon DEF GraceEnds, managerVars
  <2>2. CASE FailRotation(t)
    BY <1>d, <2>1, <2>2, Zenon
  <2>3. CASE Goto(t, "drop") /\ UNCHANGED new
    BY <1>e, <2>1, <2>3, Zenon DEF Mid
  <2> QED
    BY <1>6, <2>2, <2>3, Zenon DEF GraceEnds
<1>7. CASE DropRoles(t)
  BY <1>e, <1>7, Zenon DEF DropRoles, Mid, managerVars
<1>8. CASE SaveNew(t)
  <2>1. UNCHANGED <<current, pool, roles>> /\ pc[t] = "save"
    BY <1>8, Zenon DEF SaveNew
  <2>2. CASE FailRotation(t)
    BY <1>d, <2>1, <2>2, Zenon
  <2>3. CASE Goto(t, "set") /\ UNCHANGED new
    BY <1>e, <2>1, <2>3, Zenon DEF Mid
  <2> QED
    BY <1>8, <2>2, <2>3, Zenon DEF SaveNew
<1>9. CASE SetCurrent(t)
  <2>1. current' = new[t] /\ UNCHANGED <<pool, roles, new>> /\ spoiled' = spoiled /\ pc[t] = "set"
    BY <1>9, Zenon DEF SetCurrent
  <2>2. pc'[t] = "complete" /\ \A u \in Threads \ {t} : pc'[u] = "idle"
    BY <1>a, <1>b, <1>9, Zenon DEF SetCurrent, Goto, Steps
  <2>3. new[t] # 0 /\ pool # new[t]
    BY <2>1, NewIsNotOld, Zenon DEF PoolInv, Mid, AfterGenerate, AfterGet
  <2>4. \A u \in Threads : pc'[u] \notin Mid
    BY <2>2, Zenon DEF Mid
  <2> QED
    BY <2>1, <2>3, <2>4, Zenon DEF PoolInv
<1>10. CASE Complete(t)
  BY <1>c, <1>10, Zenon DEF Complete, managerVars, Early
<1> QED
  BY <1>1, <1>2, <1>3, <1>4, <1>5, <1>6, <1>7, <1>8, <1>9, <1>10, Zenon DEF RotateStep

LEMMA PoolStep == IInv /\ PoolInv /\ [Next]_vars => PoolInv'
<1> SUFFICES ASSUME IInv, PoolInv, [Next]_vars PROVE PoolInv'
  BY Zenon
<1> USE DEF managerVars, dbVars, schedVars
<1>0. IInv' /\ pc \in [Threads -> Steps] /\ spoiled \in BOOLEAN
  BY StepKeeps, Zenon DEF IInv, TypeOK
<1>a. ASSUME UNCHANGED <<current, pool, roles, pc, new, spoiled>> PROVE PoolInv'
  BY <1>a, Zenon DEF PoolInv, LogsIn, Username
<1>b. ASSUME NEW t \in Threads, RotateBegin(t), UNCHANGED <<current, pool, roles, new, spoiled>>
      PROVE  PoolInv'
  <2>1. pc[t] = "idle" /\ pc'[t] = "current" /\ \A u \in Threads \ {t} : pc'[u] = pc[u]
    BY <1>0, <1>b, Zenon DEF RotateBegin, Goto
  <2> QED
    BY <1>b, <2>1, Zenon DEF PoolInv, LogsIn, Username, Mid, Early
<1>1. CASE Initialize
  <2>1. pool' = 0
    BY <1>1, Zenon DEF Initialize, PoolInv
  <2> QED
    BY <1>0, <2>1, NoPoolKeeps, Zenon
<1>2. CASE FirstRoles
  <2>1. roles'[Name] = current /\ UNCHANGED <<current, pool, pc, new, spoiled>>
    BY <1>2, OneName, Zenon DEF FirstRoles, IInv, TypeOK
  <2> QED
    BY <2>1, OneName, Zenon DEF PoolInv, LogsIn
<1>3. CASE OpenPool
  <2>1. /\ current # 0 /\ pool' = current /\ LogsIn(current)
        /\ UNCHANGED <<current, roles, pc, new, spoiled>>
    BY <1>3, Zenon DEF OpenPool, LogsIn
  <2>2. \A t \in Threads : pc[t] \in Mid => current # new[t]
    <3> TAKE t \in Threads
    <3> HAVE pc[t] \in Mid
    <3>1. current = old[t]
      BY Zenon DEF IInv, CallInv, Mid, AfterGet
    <3> QED
      BY <3>1, NewIsNotOld, Zenon DEF Mid, AfterGenerate, AfterGet
  <2> QED
    BY <2>1, <2>2, Zenon DEF PoolInv, LogsIn, Username
<1>4. ASSUME NEW t \in Threads, RotateCall(t) PROVE PoolInv'
  BY <1>b, <1>4, Zenon DEF RotateCall
<1>5. ASSUME NEW t \in Threads, RotateStep(t) PROVE PoolInv'
  BY <1>5, PoolRotate, Zenon
<1>6. CASE SchedulerRotates
  <2>1. Scheduler \in Threads
    BY Zenon DEF Threads
  <2>2. CASE RotateBegin(Scheduler)
    BY <1>b, <1>6, <2>1, <2>2, Zenon DEF SchedulerRotates
  <2>3. CASE UNCHANGED <<state, pc, sched>>
    BY <1>a, <1>6, <2>3, Zenon DEF SchedulerRotates
  <2> QED
    BY <1>6, <2>2, <2>3, Zenon DEF SchedulerRotates
<1>7. CASE StartScheduler \/ SchedulerEnds \/ TriggerRotation \/ StopScheduler \/ Cancel \/ TimePasses
  BY <1>a, <1>7, Zenon DEF StartScheduler, SchedulerEnds, TriggerRotation, StopScheduler, Cancel,
     TimePasses
<1>8. CASE Crash
  BY <1>0, <1>8, NoPoolKeeps, Zenon DEF Crash
<1>9. CASE UNCHANGED vars
  BY <1>a, <1>9, Zenon DEF vars
<1> QED
  BY <1>1, <1>2, <1>3, <1>4, <1>5, <1>6, <1>7, <1>8, <1>9, Zenon DEF Next

\* A pool that has the current credentials can open connections up to the step of a
\* rotation that alters the roles, unless a rotation broke off after that step or
\* the file was replaced because it could not be read.
THEOREM PoolLogsIn == Spec => []PoolLogsInBefore
<1>1. Init => PoolInv
  BY Zenon DEF Init, PoolInv, Mid
<1>2. PoolInv => PoolLogsInBefore
  BY Zenon DEF PoolInv, PoolLogsInBefore, Early
<1> QED
  BY InitInv, StepKeeps, PoolStep, <1>1, <1>2, PTL DEF Spec

-----------------------------------------------------------------------------
(***************************************************************************)
(* The inductive invariant of the daemon                                   *)
(***************************************************************************)

\* What exists of the daemon once its storage runs, and once the P2P node and the
\* cluster do.
StorageLive == {"pid", "certs", "store", "pg"}
NodeLive == StorageLive \cup {"host", "disc", "mode", "cluster"}

\* What may exist when the main goroutine is at a step, besides what a failed
\* step left behind.
MayLive == [
    pid |-> {}, identity |-> {"pid"}, certs |-> {"pid"}, storage |-> {"pid", "certs"},
    host |-> StorageLive, disc |-> StorageLive \cup {"host"},
    mdns |-> StorageLive \cup {"host", "disc"}, dht |-> StorageLive \cup {"host", "disc"},
    mode |-> StorageLive \cup {"host", "disc"}, cluster |-> NodeLive \ {"cluster"},
    ready |-> NodeLive, tcp |-> NodeLive, unix |-> NodeLive \cup {"tcp"},
    ssh |-> NodeLive \cup {"tcp", "unix"},
    running |-> NodeLive \cup {"tcp", "unix", "ssh"},
    sshStop |-> NodeLive \cup {"tcp", "unix", "ssh"},
    grpcStop |-> NodeLive \cup {"tcp", "unix"},
    grpcDrain |-> NodeLive \cup {"unix"}, grpcClose |-> NodeLive \cup {"unix"},
    clusterStop |-> NodeLive, modeStop |-> NodeLive \ {"cluster"},
    discStop |-> StorageLive \cup {"host", "disc"}, discWait |-> StorageLive \cup {"host", "disc"},
    bootStop |-> StorageLive \cup {"host", "disc"}, bootWait |-> StorageLive \cup {"host", "disc"},
    discClose |-> StorageLive \cup {"host", "disc"}, hostStop |-> StorageLive \cup {"host"},
    storeStop |-> StorageLive, pgStop |-> {"pid", "certs", "pg"},
    certsStop |-> {"pid", "certs"}, pidStop |-> {"pid"}, exit0 |-> {}, exit1 |-> {"pid"}]

LiveInOrder == live \subseteq MayLive[at] \cup orphan

\* What exists can be stopped: the daemon holds a pointer to it, or a failed
\* step left it behind.
Backed ==
    /\ live \cap {"certs", "store", "host", "disc", "mode", "ssh"} \subseteq held
    /\ live \cap {"pg", "cluster"} \subseteq held \cup orphan
    /\ "tcp" \in live => "grpc" \in held \/ at = "unix"
    /\ "unix" \in live => "grpc" \in held
    /\ "pg" \in held => "pg" \in MayLive[at]

\* Who is served, and by what.
Served ==
    /\ "ssh" \in calls => expired \/ ("ssh" \in held /\ at \in {"running", "sshStop"})
    /\ "cut" \in calls => late
    /\ "tcp" \in conns => "calls" \in orphan \/ "tcp" \in live
    /\ "tcp" \in calls => \/ "calls" \in orphan \/ "tcp" \in live
                          \/ at = "grpcDrain" /\ "grpc" \in held

\* The process ends with an error only when Start failed.
FailedExit == at = "exit1" => failed

\* The interval of a peer is the one of the configuration, or the default.
IntervalSet == \A p \in Peers : interval[p] = 0 => retry = 0

MainInv == DaemonTypeOK /\ LiveInOrder /\ Backed /\ Served /\ FailedExit
BootInv == BootTypeOK /\ IntervalSet /\ BackoffHolds
DaemonInv == MainInv /\ BootInv

\* The names of the steps of Stop.
StopStepsAre ==
    StopSteps = {"sshStop", "grpcStop", "grpcDrain", "grpcClose", "clusterStop", "modeStop",
                 "discStop", "discWait", "bootStop", "bootWait", "discClose", "hostStop",
                 "storeStop", "pgStop", "certsStop", "pidStop"}

\* The steps of Stop are the sixteen of Daemon.Stop and what it calls.
LEMMA StopStepsListed == StopStepsAre
  BY Zenon DEF StopStepsAre, StopSteps, Then

\* A step of Start succeeds and may go to next.
Grows(c, L, next) ==
    /\ at \in StartSteps /\ next \in StartSteps \cup {"running"}
    /\ L \subseteq (Components \ {"grpc"}) \cup {"tcp", "unix", "pid"}
    /\ MayLive[at] \cup L \subseteq MayLive[next]
    /\ L \ {"tcp", "unix", "pid"} \subseteq c /\ c \subseteq Components
    /\ "pg" \in c => "pg" \in L
    /\ "tcp" \in L => "grpc" \in c \/ next = "unix"
    /\ "unix" \in L \/ at = "unix" => "grpc" \in c

\* A step of Start succeeds and leaves behind what is in X.
StartedLeaving(c, L, X, next) ==
    /\ held' = held \cup c
    /\ live' = live \cup L \cup X /\ orphan' = orphan \cup X
    /\ Go(next) /\ UNCHANGED failed

\* Such a step keeps the invariant, if what it starts is within what may exist at
\* the next step and the daemon holds it.
LEMMA LeavingKeeps ==
  ASSUME NEW c, NEW L, NEW X, NEW next, MainInv, BootTypeOK', Grows(c, L, next),
         X \subseteq {"k8s"}, StartedLeaving(c, L, X, next),
         serveVars' = serveVars, health' \in {"off", "idle", "unhealthy"}
  PROVE  MainInv'
  <1>a. /\ held' = held \cup c /\ live' = live \cup L \cup X /\ at' = next
        /\ orphan' = orphan \cup X
    BY Zenon DEF StartedLeaving, Go
  <1>b. /\ cfg' = cfg /\ (failed' <=> failed) /\ (expired' <=> expired) /\ (late' <=> late)
        /\ conns' = conns /\ calls' = calls
    BY Zenon DEF StartedLeaving, Go, serveVars
  <1>s. at \notin {"running", "sshStop", "grpcDrain"} /\ next # "exit1"
    BY Zenon DEF Grows, StartSteps
  <1>1. DaemonTypeOK'
    <2>1. at' \in StartSteps \cup {"running"} \cup StopSteps \cup Exits
      BY <1>a, Zenon DEF Grows
    <2>2. /\ held' \subseteq Components
          /\ live' \subseteq (Components \ {"grpc"}) \cup {"tcp", "unix", "pid", "k8s"}
          /\ orphan' \subseteq {"pg", "k8s", "cluster", "calls", "pid"}
      BY <1>a, Zenon DEF Grows, MainInv, DaemonTypeOK
    <2>3. failed' \in BOOLEAN /\ expired' \in BOOLEAN /\ late' \in BOOLEAN
      BY Zenon DEF StartedLeaving, Go, MainInv, DaemonTypeOK
    <2> QED
      BY <1>a, <1>b, <2>1, <2>2, <2>3, ZenonT(60) DEF MainInv, DaemonTypeOK
  <1>2. LiveInOrder'
    BY <1>a, Zenon DEF Grows, MainInv, LiveInOrder
  <1>3. Backed'
    <2>1. live' \cap {"certs", "store", "host", "disc", "mode", "ssh"} \subseteq held'
      BY <1>a, Zenon DEF Grows, MainInv, Backed
    <2>2. live' \cap {"pg", "cluster"} \subseteq held' \cup orphan'
      BY <1>a, Zenon DEF Grows, MainInv, Backed
    <2>3. /\ "tcp" \in live' => "grpc" \in held' \/ at' = "unix"
          /\ "unix" \in live' => "grpc" \in held'
      BY <1>a, Zenon DEF Grows, MainInv, Backed
    <2>4. "pg" \in held' => "pg" \in MayLive[at']
      BY <1>a, Zenon DEF Grows, MainInv, Backed
    <2> QED
      BY <2>1, <2>2, <2>3, <2>4, Zenon DEF Backed, MayLive
  <1>4. Served'
    BY <1>a, <1>b, <1>s, Zenon DEF MainInv, Served
  <1>5. FailedExit'
    BY <1>a, <1>s, ZenonT(60) DEF FailedExit
  <1> QED
    BY <1>1, <1>2, <1>3, <1>4, <1>5, ZenonT(60) DEF MainInv

\* A step of Start that succeeds keeps the invariant.
LEMMA StartedKeeps ==
  ASSUME NEW c, NEW L, NEW next, MainInv, BootTypeOK', Grows(c, L, next), Started(c, L, next),
         serveVars' = serveVars, health' \in {"off", "idle", "unhealthy"}
  PROVE  MainInv'
  <1>1. StartedLeaving(c, L, {}, next)
    BY Zenon DEF Started, StartedLeaving
  <1> QED
    BY <1>1, LeavingKeeps, Zenon

\* A step of Start fails, having opened what is in O and left behind what is in
\* X, and the roll-back may begin at s.
Unwinds(O, X, s) ==
    /\ at \in StartSteps \ {"unix"} /\ s \in StopSteps \cup {"exit1"}
    /\ O \subseteq {"store"} /\ X \subseteq {"pg", "k8s", "cluster"}
    /\ MayLive[at] \cup O \subseteq MayLive[s]

RolledBack(O, X, s) ==
    /\ failed' = TRUE
    /\ Go(s)
    /\ held' = held \cup O /\ live' = live \cup O \cup X /\ orphan' = orphan \cup X
    /\ serveVars' = serveVars /\ health' = health

\* A step that fails is a roll-back that leaves nothing behind.
LEMMA FailsRollsBack ==
  ASSUME NEW s, Fails(s), serveVars' = serveVars, health' = health
  PROVE  RolledBack({}, {}, s)
  BY Zenon DEF Fails, RollBack, RolledBack

\* A step of Start that fails keeps the invariant, if the roll-back begins where
\* all that may exist is still released.
LEMMA RolledBackKeeps ==
  ASSUME NEW O, NEW X, NEW s, MainInv, BootTypeOK', Unwinds(O, X, s), RolledBack(O, X, s)
  PROVE  MainInv'
  <1>a. /\ held' = held \cup O /\ live' = live \cup O \cup X /\ at' = s
        /\ orphan' = orphan \cup X
    BY Zenon DEF RolledBack, Go
  <1>b. /\ cfg' = cfg /\ failed' = TRUE /\ (expired' <=> expired) /\ (late' <=> late)
        /\ conns' = conns /\ calls' = calls /\ health' = health
    BY Zenon DEF RolledBack, Go, serveVars
  <1>s. at \notin {"running", "sshStop", "grpcDrain", "unix"}
    BY Zenon DEF Unwinds, StartSteps
  <1>1. DaemonTypeOK'
    <2>1. at' \in StartSteps \cup {"running"} \cup StopSteps \cup Exits
      BY <1>a, Zenon DEF Unwinds, Exits
    <2>2. /\ held' \subseteq Components
          /\ live' \subseteq (Components \ {"grpc"}) \cup {"tcp", "unix", "pid", "k8s"}
          /\ orphan' \subseteq {"pg", "k8s", "cluster", "calls", "pid"}
      BY <1>a, ZenonT(60) DEF Unwinds, MainInv, DaemonTypeOK, Components
    <2>3. failed' \in BOOLEAN /\ expired' \in BOOLEAN /\ late' \in BOOLEAN
      BY Zenon DEF RolledBack, Go, MainInv, DaemonTypeOK
    <2> QED
      BY <1>a, <1>b, <2>1, <2>2, <2>3, ZenonT(60) DEF MainInv, DaemonTypeOK
  <1>2. LiveInOrder'
    BY <1>a, Zenon DEF Unwinds, MainInv, LiveInOrder
  <1>3. Backed'
    <2>1. live' \cap {"certs", "store", "host", "disc", "mode", "ssh"} \subseteq held'
      BY <1>a, Zenon DEF Unwinds, MainInv, Backed
    <2>2. live' \cap {"pg", "cluster"} \subseteq held' \cup orphan'
      BY <1>a, Zenon DEF Unwinds, MainInv, Backed
    <2>3. /\ "tcp" \in live' => "grpc" \in held' \/ at' = "unix"
          /\ "unix" \in live' => "grpc" \in held'
      BY <1>a, <1>s, Zenon DEF Unwinds, MainInv, Backed
    <2>4. "pg" \in held' => "pg" \in MayLive[at']
      BY <1>a, Zenon DEF Unwinds, MainInv, Backed
    <2> QED
      BY <2>1, <2>2, <2>3, <2>4, ZenonT(60) DEF Backed
  <1>4. Served'
    BY <1>a, <1>b, <1>s, ZenonT(60) DEF MainInv, Served
  <1>5. FailedExit'
    BY <1>b, Zenon DEF FailedExit
  <1> QED
    BY <1>1, <1>2, <1>3, <1>4, <1>5, ZenonT(60) DEF MainInv

\* What a stop step releases.
Drops == [sshStop |-> {"ssh"}, grpcStop |-> {"tcp"}, grpcDrain |-> {}, grpcClose |-> {"unix"},
          clusterStop |-> {"cluster"}, modeStop |-> {"mode"}, discStop |-> {}, discWait |-> {},
          bootStop |-> {}, bootWait |-> {}, discClose |-> {"disc"}, hostStop |-> {"host"},
          storeStop |-> {"store"}, pgStop |-> {"pg"}, certsStop |-> {"certs"},
          pidStop |-> {"pid"}]

\* After a stop step there may be what there was, without what the step releases.
LEMMA DropsInOrder ==
  ASSUME NEW s \in StopSteps
  PROVE  /\ MayLive[s] \ Drops[s] \subseteq MayLive[After(s)]
         /\ After(s) \in StopSteps \cup Exits
         /\ After(s) = "exit1" => failed
  <1>1. s = "sshStop" \/ s = "grpcStop" \/ s = "grpcDrain" \/ s = "grpcClose"
          \/ s = "clusterStop" \/ s = "modeStop" \/ s = "discStop" \/ s = "discWait"
          \/ s = "bootStop" \/ s = "bootWait" \/ s = "discClose" \/ s = "hostStop"
          \/ s = "storeStop" \/ s = "pgStop" \/ s = "certsStop" \/ s = "pidStop"
    BY StopStepsListed, Zenon DEF StopStepsAre
  <1>2. CASE s = "sshStop"
    <2>1. After(s) = "grpcStop"
      BY <1>2, Zenon DEF After, Then
    <2>2. MayLive["sshStop"] \ Drops["sshStop"] \subseteq MayLive["grpcStop"]
      BY Zenon DEF MayLive, Drops, NodeLive, StorageLive
    <2> QED
      BY <1>2, <2>1, <2>2, StopStepsListed, ZenonT(60) DEF StopStepsAre, Exits
  <1>3. CASE s = "grpcStop"
    <2>1. After(s) = "grpcDrain"
      BY <1>3, Zenon DEF After, Then
    <2>2. MayLive["grpcStop"] \ Drops["grpcStop"] \subseteq MayLive["grpcDrain"]
      BY Zenon DEF MayLive, Drops, NodeLive, StorageLive
    <2> QED
      BY <1>3, <2>1, <2>2, StopStepsListed, ZenonT(60) DEF StopStepsAre, Exits
  <1>4. CASE s = "grpcDrain"
    <2>1. After(s) = "grpcClose"
      BY <1>4, Zenon DEF After, Then
    <2>2. MayLive["grpcDrain"] \ Drops["grpcDrain"] \subseteq MayLive["grpcClose"]
      BY Zenon DEF MayLive, Drops, NodeLive, StorageLive
    <2> QED
      BY <1>4, <2>1, <2>2, StopStepsListed, Zenon DEF StopStepsAre, Exits
  <1>5. CASE s = "grpcClose"
    <2>1. After(s) = "clusterStop"
      BY <1>5, Zenon DEF After, Then
    <2>2. MayLive["grpcClose"] \ Drops["grpcClose"] \subseteq MayLive["clusterStop"]
      BY Zenon DEF MayLive, Drops, NodeLive, StorageLive
    <2> QED
      BY <1>5, <2>1, <2>2, StopStepsListed, Zenon DEF StopStepsAre, Exits
  <1>6. CASE s = "clusterStop"
    <2>1. After(s) = "modeStop"
      BY <1>6, Zenon DEF After, Then
    <2>2. MayLive["clusterStop"] \ Drops["clusterStop"] \subseteq MayLive["modeStop"]
      BY Zenon DEF MayLive, Drops, NodeLive, StorageLive
    <2> QED
      BY <1>6, <2>1, <2>2, StopStepsListed, ZenonT(60) DEF StopStepsAre, Exits
  <1>7. CASE s = "modeStop"
    <2>1. After(s) = "discStop"
      BY <1>7, Zenon DEF After, Then
    <2>2. MayLive["modeStop"] \ Drops["modeStop"] \subseteq MayLive["discStop"]
      BY ZenonT(60) DEF MayLive, Drops, NodeLive, StorageLive
    <2> QED
      BY <1>7, <2>1, <2>2, StopStepsListed, ZenonT(60) DEF StopStepsAre, Exits
  <1>8. CASE s = "discStop"
    <2>1. After(s) = "discWait"
      BY <1>8, Zenon DEF After, Then
    <2>2. MayLive["discStop"] \ Drops["discStop"] \subseteq MayLive["discWait"]
      BY Zenon DEF MayLive, Drops, NodeLive, StorageLive
    <2> QED
      BY <1>8, <2>1, <2>2, StopStepsListed, Zenon DEF StopStepsAre, Exits
  <1>9. CASE s = "discWait"
    <2>1. After(s) = "bootStop"
      BY <1>9, Zenon DEF After, Then
    <2>2. MayLive["discWait"] \ Drops["discWait"] \subseteq MayLive["bootStop"]
      BY Zenon DEF MayLive, Drops, NodeLive, StorageLive
    <2> QED
      BY <1>9, <2>1, <2>2, StopStepsListed, ZenonT(60) DEF StopStepsAre, Exits
  <1>10. CASE s = "bootStop"
    <2>1. After(s) = "bootWait"
      BY <1>10, ZenonT(60) DEF After, Then
    <2>2. MayLive["bootStop"] \ Drops["bootStop"] \subseteq MayLive["bootWait"]
      BY Zenon DEF MayLive, Drops, NodeLive, StorageLive
    <2> QED
      BY <1>10, <2>1, <2>2, StopStepsListed, ZenonT(60) DEF StopStepsAre, Exits
  <1>11. CASE s = "bootWait"
    <2>1. After(s) = "discClose"
      BY <1>11, Zenon DEF After, Then
    <2>2. MayLive["bootWait"] \ Drops["bootWait"] \subseteq MayLive["discClose"]
      BY Zenon DEF MayLive, Drops, NodeLive, StorageLive
    <2> QED
      BY <1>11, <2>1, <2>2, StopStepsListed, Zenon DEF StopStepsAre, Exits
  <1>12. CASE s = "discClose"
    <2>1. After(s) = "hostStop"
      BY <1>12, Zenon DEF After, Then
    <2>2. MayLive["discClose"] \ Drops["discClose"] \subseteq MayLive["hostStop"]
      BY Zenon DEF MayLive, Drops, NodeLive, StorageLive
    <2> QED
      BY <1>12, <2>1, <2>2, StopStepsListed, ZenonT(60) DEF StopStepsAre, Exits
  <1>13. CASE s = "hostStop"
    <2>1. After(s) = "storeStop"
      BY <1>13, Zenon DEF After, Then
    <2>2. MayLive["hostStop"] \ Drops["hostStop"] \subseteq MayLive["storeStop"]
      BY ZenonT(60) DEF MayLive, Drops, NodeLive, StorageLive
    <2> QED
      BY <1>13, <2>1, <2>2, StopStepsListed, ZenonT(60) DEF StopStepsAre, Exits
  <1>14. CASE s = "storeStop"
    <2>1. After(s) = "pgStop"
      BY <1>14, Zenon DEF After, Then
    <2>2. MayLive["storeStop"] \ Drops["storeStop"] \subseteq MayLive["pgStop"]
      BY Zenon DEF MayLive, Drops, NodeLive, StorageLive
    <2> QED
      BY <1>14, <2>1, <2>2, StopStepsListed, Zenon DEF StopStepsAre, Exits
  <1>15. CASE s = "pgStop"
    <2>1. After(s) = "certsStop"
      BY <1>15, Zenon DEF After, Then
    <2>2. MayLive["pgStop"] \ Drops["pgStop"] \subseteq MayLive["certsStop"]
      BY ZenonT(60) DEF MayLive, Drops, NodeLive, StorageLive
    <2> QED
      BY <1>15, <2>1, <2>2, StopStepsListed, Zenon DEF StopStepsAre, Exits
  <1>16. CASE s = "certsStop"
    <2>1. After(s) = IF failed THEN "exit1" ELSE "pidStop"
      BY <1>16, Zenon DEF After, Then
    <2>2. /\ MayLive["certsStop"] = {"pid", "certs"} /\ Drops["certsStop"] = {"certs"}
          /\ MayLive["exit1"] = {"pid"} /\ MayLive["pidStop"] = {"pid"}
      BY Zenon DEF MayLive, Drops
    <2> QED
      BY <1>16, <2>1, <2>2, StopStepsListed, Zenon DEF StopStepsAre, Exits
  <1>17. CASE s = "pidStop"
    <2>1. After(s) = "exit0"
      BY <1>17, Zenon DEF After, Then
    <2>2. MayLive["pidStop"] \ Drops["pidStop"] \subseteq MayLive["exit0"]
      BY Zenon DEF MayLive, Drops, NodeLive, StorageLive
    <2> QED
      BY <1>17, <2>1, <2>2, StopStepsListed, ZenonT(60) DEF StopStepsAre, Exits
  <1> QED
    BY <1>1, <1>2, <1>3, <1>4, <1>5, <1>6, <1>7, <1>8, <1>9, <1>10, <1>11, <1>12, <1>13, <1>14, <1>15, <1>16, <1>17, ZenonT(60)

\* A stop step that gives up the pointers in c and releases what is in L.
Releases(c, L) ==
    /\ at \in StopSteps
    /\ c \subseteq L \cup {"grpc"}
    /\ L \cap {"tcp", "ssh"} = {}
    /\ Drops[at] \cap live \subseteq L \cup orphan
    /\ "grpc" \in c => at = "grpcClose" /\ "unix" \in L
    /\ "pg" \in Drops[at] /\ "pg" \in held => "pg" \in c
    /\ at = "sshStop" => "ssh" \notin held
    /\ at = "grpcDrain" => "grpc" \notin held

\* A stop step keeps the invariant, if it releases what the next step relies on
\* having been released, and forgets no pointer to what it leaves.
LEMMA StoppedKeeps ==
  ASSUME NEW c, NEW L, MainInv, BootTypeOK', Releases(c, L), Stopped(c, L),
         serveVars' = serveVars, health' = health
  PROVE  MainInv'
  <1>a. held' = held \ c /\ live' = live \ L /\ at' = After(at) /\ orphan' = orphan
    BY Zenon DEF Stopped, Go
  <1>b. /\ cfg' = cfg /\ (failed' <=> failed) /\ (expired' <=> expired) /\ (late' <=> late)
        /\ conns' = conns /\ calls' = calls
    BY Zenon DEF Stopped, Go, serveVars
  <1>d. /\ MayLive[at] \ Drops[at] \subseteq MayLive[at']
        /\ at' \in StopSteps \cup Exits
        /\ at' = "exit1" => failed
    BY <1>a, DropsInOrder, Zenon DEF Releases
  <1>s. at \notin {"running", "unix"} /\ at' # "unix"
    BY <1>d, StopStepsListed, Zenon DEF Releases, StopStepsAre, Exits
  <1>1. DaemonTypeOK'
    <2>2. /\ held' \subseteq Components
          /\ live' \subseteq (Components \ {"grpc"}) \cup {"tcp", "unix", "pid", "k8s"}
      BY <1>a, Zenon DEF MainInv, DaemonTypeOK
    <2>3. failed' \in BOOLEAN /\ expired' \in BOOLEAN /\ late' \in BOOLEAN
      BY Zenon DEF Stopped, Go, MainInv, DaemonTypeOK
    <2> QED
      BY <1>a, <1>b, <1>d, <2>2, <2>3, ZenonT(60) DEF MainInv, DaemonTypeOK
  <1>2. LiveInOrder'
    BY <1>a, <1>d, Zenon DEF Releases, MainInv, LiveInOrder
  <1>3. Backed'
    <2>1. live' \cap {"certs", "store", "host", "disc", "mode", "ssh"} \subseteq held'
      BY <1>a, Zenon DEF Releases, MainInv, Backed
    <2>2. live' \cap {"pg", "cluster"} \subseteq held' \cup orphan'
      BY <1>a, Zenon DEF Releases, MainInv, Backed
    <2>3. "grpc" \in c => "tcp" \notin live
      <3>1. "tcp" \notin MayLive["grpcClose"]
        BY Zenon DEF MayLive, NodeLive, StorageLive
      <3> QED
        BY <3>1, Zenon DEF Releases, MainInv, LiveInOrder, DaemonTypeOK
    <2>4. "tcp" \in live' => "grpc" \in held'
      BY <1>a, <1>s, <2>3, Zenon DEF Releases, MainInv, Backed
    <2>5. "unix" \in live' => "grpc" \in held'
      BY <1>a, Zenon DEF Releases, MainInv, Backed
    <2>6. "pg" \in held' => "pg" \in MayLive[at']
      BY <1>a, <1>d, Zenon DEF Releases, MainInv, Backed
    <2> QED
      BY <2>1, <2>2, <2>4, <2>5, <2>6, ZenonT(60) DEF Backed
  <1>4. Served'
    <2>1. "ssh" \in calls => expired
      BY <1>s, Zenon DEF Releases, MainInv, Served
    <2>2. "cut" \in calls => late
      BY Zenon DEF MainInv, Served
    <2>3. /\ "tcp" \in conns => "calls" \in orphan \/ "tcp" \in live
          /\ "tcp" \in calls => "calls" \in orphan \/ "tcp" \in live
      BY Zenon DEF Releases, MainInv, Served
    <2>4. "tcp" \in live => "tcp" \in live'
      BY <1>a, ZenonT(60) DEF Releases
    <2> QED
      BY <1>a, <1>b, <2>1, <2>2, <2>3, <2>4, ZenonT(60) DEF Served
  <1>5. FailedExit'
    BY <1>b, <1>d, Zenon DEF FailedExit
  <1> QED
    BY <1>1, <1>2, <1>3, <1>4, <1>5, ZenonT(60) DEF MainInv

\* When the daemon holds no such component there is nothing of it to release.
LEMMA NothingToDrop ==
  ASSUME MainInv, at \in DOMAIN Subject, Subject[at] \notin held
  PROVE  at \in StopSteps /\ Drops[at] \cap live \subseteq orphan
  <1>1. at = "sshStop" \/ at = "grpcStop" \/ at = "grpcDrain" \/ at = "grpcClose"
          \/ at = "clusterStop" \/ at = "modeStop" \/ at = "discStop" \/ at = "discWait"
          \/ at = "bootStop" \/ at = "bootWait" \/ at = "discClose" \/ at = "hostStop"
          \/ at = "storeStop" \/ at = "pgStop" \/ at = "certsStop"
    BY Zenon DEF Subject
  <1>2. at \in StopSteps
    BY <1>1, StopStepsListed, Zenon DEF StopStepsAre
  <1>3. CASE at = "sshStop"
    <2>1. Subject["sshStop"] = "ssh" /\ Drops["sshStop"] = {"ssh"}
      BY Zenon DEF Subject, Drops
    <2> QED
      BY <1>2, <1>3, <2>1, Zenon DEF MainInv, Backed
  <1>4. CASE at = "grpcStop"
    <2>1. Subject["grpcStop"] = "grpc" /\ Drops["grpcStop"] = {"tcp"}
      BY Zenon DEF Subject, Drops
    <2> QED
      BY <1>2, <1>4, <2>1, ZenonT(60) DEF MainInv, Backed
  <1>5. CASE at = "grpcDrain"
    <2>1. Subject["grpcDrain"] = "grpc" /\ Drops["grpcDrain"] = {}
      BY Zenon DEF Subject, Drops
    <2> QED
      BY <1>2, <1>5, <2>1, Zenon DEF MainInv, Backed
  <1>6. CASE at = "grpcClose"
    <2>1. Subject["grpcClose"] = "grpc" /\ Drops["grpcClose"] = {"unix"}
      BY Zenon DEF Subject, Drops
    <2> QED
      BY <1>2, <1>6, <2>1, ZenonT(60) DEF MainInv, Backed
  <1>7. CASE at = "clusterStop"
    <2>1. Subject["clusterStop"] = "cluster" /\ Drops["clusterStop"] = {"cluster"}
      BY Zenon DEF Subject, Drops
    <2> QED
      BY <1>2, <1>7, <2>1, ZenonT(60) DEF MainInv, Backed
  <1>8. CASE at = "modeStop"
    <2>1. Subject["modeStop"] = "mode" /\ Drops["modeStop"] = {"mode"}
      BY Zenon DEF Subject, Drops
    <2> QED
      BY <1>2, <1>8, <2>1, Zenon DEF MainInv, Backed
  <1>9. CASE at = "discStop"
    <2>1. Subject["discStop"] = "disc" /\ Drops["discStop"] = {}
      BY Zenon DEF Subject, Drops
    <2> QED
      BY <1>2, <1>9, <2>1, Zenon DEF MainInv, Backed
  <1>10. CASE at = "discWait"
    <2>1. Subject["discWait"] = "disc" /\ Drops["discWait"] = {}
      BY Zenon DEF Subject, Drops
    <2> QED
      BY <1>2, <1>10, <2>1, Zenon DEF MainInv, Backed
  <1>11. CASE at = "bootStop"
    <2>1. Subject["bootStop"] = "disc" /\ Drops["bootStop"] = {}
      BY Zenon DEF Subject, Drops
    <2> QED
      BY <1>2, <1>11, <2>1, ZenonT(60) DEF MainInv, Backed
  <1>12. CASE at = "bootWait"
    <2>1. Subject["bootWait"] = "disc" /\ Drops["bootWait"] = {}
      BY Zenon DEF Subject, Drops
    <2> QED
      BY <1>2, <1>12, <2>1, Zenon DEF MainInv, Backed
  <1>13. CASE at = "discClose"
    <2>1. Subject["discClose"] = "disc" /\ Drops["discClose"] = {"disc"}
      BY Zenon DEF Subject, Drops
    <2> QED
      BY <1>2, <1>13, <2>1, Zenon DEF MainInv, Backed
  <1>14. CASE at = "hostStop"
    <2>1. Subject["hostStop"] = "host" /\ Drops["hostStop"] = {"host"}
      BY Zenon DEF Subject, Drops
    <2> QED
      BY <1>2, <1>14, <2>1, Zenon DEF MainInv, Backed
  <1>15. CASE at = "storeStop"
    <2>1. Subject["storeStop"] = "store" /\ Drops["storeStop"] = {"store"}
      BY Zenon DEF Subject, Drops
    <2> QED
      BY <1>2, <1>15, <2>1, ZenonT(60) DEF MainInv, Backed
  <1>16. CASE at = "pgStop"
    <2>1. Subject["pgStop"] = "pg" /\ Drops["pgStop"] = {"pg"}
      BY Zenon DEF Subject, Drops
    <2> QED
      BY <1>2, <1>16, <2>1, ZenonT(60) DEF MainInv, Backed
  <1>17. CASE at = "certsStop"
    <2>1. Subject["certsStop"] = "certs" /\ Drops["certsStop"] = {"certs"}
      BY Zenon DEF Subject, Drops
    <2> QED
      BY <1>2, <1>17, <2>1, ZenonT(60) DEF MainInv, Backed
  <1> QED
    BY <1>1, <1>3, <1>4, <1>5, <1>6, <1>7, <1>8, <1>9, <1>10, <1>11, <1>12, <1>13, <1>14, <1>15, <1>16, <1>17, ZenonT(60)

\* A stop step for which there is nothing to stop keeps the invariant.
LEMMA SkipKeeps ==
  ASSUME MainInv, BootTypeOK', Skip
  PROVE  MainInv'
  <1>1. at \in StopSteps /\ Drops[at] \cap live \subseteq orphan
    BY NothingToDrop, Zenon DEF Skip
  <1>2. /\ at = "sshStop" => "ssh" \notin held
        /\ at = "grpcDrain" => "grpc" \notin held
        /\ at = "pgStop" => "pg" \notin held
    <2>1. Subject["sshStop"] = "ssh" /\ Subject["grpcDrain"] = "grpc" /\ Subject["pgStop"] = "pg"
      BY Zenon DEF Subject
    <2> QED
      BY <2>1, Zenon DEF Skip
  <1>3. "pg" \in Drops[at] => at = "pgStop"
    <2>1. /\ "pg" \notin Drops["sshStop"] /\ "pg" \notin Drops["grpcStop"] /\ "pg" \notin Drops["grpcDrain"]
          /\ "pg" \notin Drops["grpcClose"] /\ "pg" \notin Drops["clusterStop"] /\ "pg" \notin Drops["modeStop"]
          /\ "pg" \notin Drops["discStop"] /\ "pg" \notin Drops["discWait"] /\ "pg" \notin Drops["bootStop"]
          /\ "pg" \notin Drops["bootWait"] /\ "pg" \notin Drops["discClose"] /\ "pg" \notin Drops["hostStop"]
          /\ "pg" \notin Drops["storeStop"] /\ "pg" \notin Drops["certsStop"] /\ "pg" \notin Drops["pidStop"]
      BY Zenon DEF Drops
    <2> QED
      BY <1>1, <2>1, StopStepsListed, Zenon DEF StopStepsAre
  <1>4. Releases({}, {})
    BY <1>1, <1>2, <1>3, Zenon DEF Releases
  <1>5. Stopped({}, {}) /\ serveVars' = serveVars /\ health' = health
    BY Zenon DEF Skip
  <1> QED
    BY <1>4, <1>5, StoppedKeeps, Zenon

\* writePIDFile keeps the invariant.
LEMMA PIDFileKeeps ==
  ASSUME MainInv, BootTypeOK', WritePIDFile
  PROVE  MainInv'
  <1>0. at = "pid" /\ serveVars' = serveVars /\ health' = health
    BY Zenon DEF WritePIDFile
  <1>1. CASE Started({}, {"pid"}, "identity")
    <2>a. MayLive["pid"] \cup {"pid"} \subseteq MayLive["identity"]
      BY ZenonT(60) DEF MayLive, NodeLive, StorageLive
    <2>1. Grows({}, {"pid"}, "identity")
      BY <1>0, <2>a, ZenonT(60) DEF Grows, StartSteps, Components
    <2> QED
      BY <1>0, <1>1, <2>1, StartedKeeps, ZenonT(60) DEF MainInv, DaemonTypeOK
  <1>2. CASE Started({}, {}, "identity")
    <2>a. MayLive["pid"] \cup {} \subseteq MayLive["identity"]
      BY ZenonT(60) DEF MayLive, NodeLive, StorageLive
    <2>1. Grows({}, {}, "identity")
      BY <1>0, <2>a, ZenonT(60) DEF Grows, StartSteps, Components
    <2> QED
      BY <1>0, <1>2, <2>1, StartedKeeps, Zenon DEF MainInv, DaemonTypeOK
  <1> QED
    BY <1>1, <1>2, ZenonT(60) DEF WritePIDFile

\* loadIdentity keeps the invariant.
LEMMA IdentityKeeps ==
  ASSUME MainInv, BootTypeOK', LoadIdentity
  PROVE  MainInv'
  <1>0. at = "identity" /\ serveVars' = serveVars /\ health' = health
    BY Zenon DEF LoadIdentity
  <1>1. CASE Started({}, {}, "certs")
    <2>a. MayLive["identity"] \cup {} \subseteq MayLive["certs"]
      BY ZenonT(60) DEF MayLive, NodeLive, StorageLive
    <2>1. Grows({}, {}, "certs")
      BY <1>0, <2>a, ZenonT(60) DEF Grows, StartSteps, Components
    <2> QED
      BY <1>0, <1>1, <2>1, StartedKeeps, ZenonT(60) DEF MainInv, DaemonTypeOK
  <1>2. CASE Started({}, {}, "storage")
    <2>a. MayLive["identity"] \cup {} \subseteq MayLive["storage"]
      BY ZenonT(60) DEF MayLive, NodeLive, StorageLive
    <2>1. Grows({}, {}, "storage")
      BY <1>0, <2>a, ZenonT(60) DEF Grows, StartSteps, Components
    <2> QED
      BY <1>0, <1>2, <2>1, StartedKeeps, ZenonT(60) DEF MainInv, DaemonTypeOK
  <1>3. CASE Fails("exit1")
    <2>a. MayLive["identity"] \cup {} \subseteq MayLive["exit1"]
      BY ZenonT(60) DEF MayLive, NodeLive, StorageLive
    <2>1. Unwinds({}, {}, "exit1")
      BY <1>0, <2>a, StopStepsListed, ZenonT(60) DEF Unwinds, StartSteps, StopStepsAre
    <2> QED
      BY <1>0, <1>3, <2>1, FailsRollsBack, RolledBackKeeps, ZenonT(60)
  <1> QED
    BY <1>1, <1>2, <1>3, Zenon DEF LoadIdentity

\* initCertificates keeps the invariant.
LEMMA CertificatesKeep ==
  ASSUME MainInv, BootTypeOK', InitCertificates
  PROVE  MainInv'
  <1>0. at = "certs" /\ serveVars' = serveVars /\ health' = health
    BY Zenon DEF InitCertificates
  <1>1. CASE Started({"certs"}, {"certs"}, "storage")
    <2>a. MayLive["certs"] \cup {"certs"} \subseteq MayLive["storage"]
      BY ZenonT(60) DEF MayLive, NodeLive, StorageLive
    <2>1. Grows({"certs"}, {"certs"}, "storage")
      BY <1>0, <2>a, ZenonT(60) DEF Grows, StartSteps, Components
    <2> QED
      BY <1>0, <1>1, <2>1, StartedKeeps, ZenonT(60) DEF MainInv, DaemonTypeOK
  <1>2. CASE Fails("exit1")
    <2>a. MayLive["certs"] \cup {} \subseteq MayLive["exit1"]
      BY ZenonT(60) DEF MayLive, NodeLive, StorageLive
    <2>1. Unwinds({}, {}, "exit1")
      BY <1>0, <2>a, StopStepsListed, ZenonT(60) DEF Unwinds, StartSteps, StopStepsAre
    <2> QED
      BY <1>0, <1>2, <2>1, FailsRollsBack, RolledBackKeeps, ZenonT(60)
  <1> QED
    BY <1>1, <1>2, Zenon DEF InitCertificates

\* NewHost keeps the invariant.
LEMMA HostKeeps ==
  ASSUME MainInv, BootTypeOK', NewHost
  PROVE  MainInv'
  <1>0. at = "host" /\ serveVars' = serveVars /\ health' = health
    BY Zenon DEF NewHost
  <1>1. CASE Started({"host"}, {"host"}, "disc")
    <2>a. MayLive["host"] \cup {"host"} \subseteq MayLive["disc"]
      BY ZenonT(60) DEF MayLive, NodeLive, StorageLive
    <2>1. Grows({"host"}, {"host"}, "disc")
      BY <1>0, <2>a, ZenonT(60) DEF Grows, StartSteps, Components
    <2> QED
      BY <1>0, <1>1, <2>1, StartedKeeps, ZenonT(60) DEF MainInv, DaemonTypeOK
  <1>2. CASE Fails("storeStop")
    <2>a. MayLive["host"] \cup {} \subseteq MayLive["storeStop"]
      BY ZenonT(60) DEF MayLive, NodeLive, StorageLive
    <2>1. Unwinds({}, {}, "storeStop")
      BY <1>0, <2>a, StopStepsListed, ZenonT(60) DEF Unwinds, StartSteps, StopStepsAre
    <2> QED
      BY <1>0, <1>2, <2>1, FailsRollsBack, RolledBackKeeps, ZenonT(60)
  <1> QED
    BY <1>1, <1>2, ZenonT(60) DEF NewHost

\* NewDiscovery keeps the invariant.
LEMMA DiscoveryKeeps ==
  ASSUME MainInv, BootTypeOK', NewDiscovery
  PROVE  MainInv'
  <1>0. at = "disc" /\ serveVars' = serveVars /\ health' = health
    BY Zenon DEF NewDiscovery
  <1>1. CASE Started({"disc"}, {"disc"}, "mdns")
    <2>a. MayLive["disc"] \cup {"disc"} \subseteq MayLive["mdns"]
      BY ZenonT(60) DEF MayLive, NodeLive, StorageLive
    <2>1. Grows({"disc"}, {"disc"}, "mdns")
      BY <1>0, <2>a, ZenonT(60) DEF Grows, StartSteps, Components
    <2> QED
      BY <1>0, <1>1, <2>1, StartedKeeps, ZenonT(60) DEF MainInv, DaemonTypeOK
  <1>2. CASE Fails("hostStop")
    <2>a. MayLive["disc"] \cup {} \subseteq MayLive["hostStop"]
      BY ZenonT(60) DEF MayLive, NodeLive, StorageLive
    <2>1. Unwinds({}, {}, "hostStop")
      BY <1>0, <2>a, StopStepsListed, ZenonT(60) DEF Unwinds, StartSteps, StopStepsAre
    <2> QED
      BY <1>0, <1>2, <2>1, FailsRollsBack, RolledBackKeeps, ZenonT(60)
  <1> QED
    BY <1>1, <1>2, ZenonT(60) DEF NewDiscovery

\* Discovery.Start keeps the invariant up to the DHT,
LEMMA DiscoveryStartKeeps ==
  ASSUME MainInv, BootTypeOK', DiscoveryStart
  PROVE  MainInv'
  <1>0. at = "mdns" /\ serveVars' = serveVars /\ health' = health
    BY Zenon DEF DiscoveryStart
  <1>1. CASE Started({}, {}, "dht")
    <2>a. MayLive["mdns"] \cup {} \subseteq MayLive["dht"]
      BY ZenonT(60) DEF MayLive, NodeLive, StorageLive
    <2>1. Grows({}, {}, "dht")
      BY <1>0, <2>a, ZenonT(60) DEF Grows, StartSteps, Components
    <2> QED
      BY <1>0, <1>1, <2>1, StartedKeeps, ZenonT(60) DEF MainInv, DaemonTypeOK
  <1>2. CASE Fails("discStop")
    <2>a. MayLive["mdns"] \cup {} \subseteq MayLive["discStop"]
      BY ZenonT(60) DEF MayLive, NodeLive, StorageLive
    <2>1. Unwinds({}, {}, "discStop")
      BY <1>0, <2>a, StopStepsListed, ZenonT(60) DEF Unwinds, StartSteps, StopStepsAre
    <2> QED
      BY <1>0, <1>2, <2>1, FailsRollsBack, RolledBackKeeps, ZenonT(60)
  <1> QED
    BY <1>1, <1>2, Zenon DEF DiscoveryStart

\* and to its end.
LEMMA DHTKeeps ==
  ASSUME MainInv, BootTypeOK', DiscoveryDHT
  PROVE  MainInv'
  <1>0. at = "dht" /\ serveVars' = serveVars /\ health' = health
    BY Zenon DEF DiscoveryDHT
  <1>1. CASE Started({}, {}, "mode")
    <2>a. MayLive["dht"] \cup {} \subseteq MayLive["mode"]
      BY ZenonT(60) DEF MayLive, NodeLive, StorageLive
    <2>1. Grows({}, {}, "mode")
      BY <1>0, <2>a, ZenonT(60) DEF Grows, StartSteps, Components
    <2> QED
      BY <1>0, <1>1, <2>1, StartedKeeps, ZenonT(60) DEF MainInv, DaemonTypeOK
  <1>2. CASE Fails("discStop")
    <2>a. MayLive["dht"] \cup {} \subseteq MayLive["discStop"]
      BY ZenonT(60) DEF MayLive, NodeLive, StorageLive
    <2>1. Unwinds({}, {}, "discStop")
      BY <1>0, <2>a, StopStepsListed, ZenonT(60) DEF Unwinds, StartSteps, StopStepsAre
    <2> QED
      BY <1>0, <1>2, <2>1, FailsRollsBack, RolledBackKeeps, ZenonT(60)
  <1> QED
    BY <1>1, <1>2, Zenon DEF DiscoveryDHT

\* The start of the mode manager keeps the invariant.
LEMMA ModeKeeps ==
  ASSUME MainInv, BootTypeOK', StartMode
  PROVE  MainInv'
  <1>0. at = "mode" /\ serveVars' = serveVars /\ health' = health
    BY Zenon DEF StartMode
  <1>1. CASE Started({"mode"}, {"mode"}, "cluster")
    <2>a. MayLive["mode"] \cup {"mode"} \subseteq MayLive["cluster"]
      BY ZenonT(60) DEF MayLive, NodeLive, StorageLive
    <2>1. Grows({"mode"}, {"mode"}, "cluster")
      BY <1>0, <2>a, ZenonT(60) DEF Grows, StartSteps, Components
    <2> QED
      BY <1>0, <1>1, <2>1, StartedKeeps, ZenonT(60) DEF MainInv, DaemonTypeOK
  <1>2. CASE Fails("discStop")
    <2>a. MayLive["mode"] \cup {} \subseteq MayLive["discStop"]
      BY ZenonT(60) DEF MayLive, NodeLive, StorageLive
    <2>1. Unwinds({}, {}, "discStop")
      BY <1>0, <2>a, StopStepsListed, ZenonT(60) DEF Unwinds, StartSteps, StopStepsAre
    <2> QED
      BY <1>0, <1>2, <2>1, FailsRollsBack, RolledBackKeeps, ZenonT(60)
  <1> QED
    BY <1>1, <1>2, Zenon DEF StartMode

\* The start of the TCP listener keeps the invariant.
LEMMA TCPKeeps ==
  ASSUME MainInv, BootTypeOK', StartTCPListener
  PROVE  MainInv'
  <1>0. at = "tcp" /\ serveVars' = serveVars /\ health' = health
    BY Zenon DEF StartTCPListener
  <1>1. CASE Started({}, {"tcp"}, "unix")
    <2>a. MayLive["tcp"] \cup {"tcp"} \subseteq MayLive["unix"]
      BY ZenonT(60) DEF MayLive, NodeLive, StorageLive
    <2>1. Grows({}, {"tcp"}, "unix")
      BY <1>0, <2>a, ZenonT(60) DEF Grows, StartSteps, Components
    <2> QED
      BY <1>0, <1>1, <2>1, StartedKeeps, ZenonT(60) DEF MainInv, DaemonTypeOK
  <1>2. CASE Started({"grpc"}, {"tcp"}, "ssh")
    <2>a. MayLive["tcp"] \cup {"tcp"} \subseteq MayLive["ssh"]
      BY ZenonT(60) DEF MayLive, NodeLive, StorageLive
    <2>1. Grows({"grpc"}, {"tcp"}, "ssh")
      BY <1>0, <2>a, ZenonT(60) DEF Grows, StartSteps, Components
    <2> QED
      BY <1>0, <1>2, <2>1, StartedKeeps, ZenonT(60) DEF MainInv, DaemonTypeOK
  <1>3. CASE Fails("clusterStop")
    <2>a. MayLive["tcp"] \cup {} \subseteq MayLive["clusterStop"]
      BY ZenonT(60) DEF MayLive, NodeLive, StorageLive
    <2>1. Unwinds({}, {}, "clusterStop")
      BY <1>0, <2>a, StopStepsListed, ZenonT(60) DEF Unwinds, StartSteps, StopStepsAre
    <2> QED
      BY <1>0, <1>3, <2>1, FailsRollsBack, RolledBackKeeps, ZenonT(60)
  <1> QED
    BY <1>1, <1>2, <1>3, Zenon DEF StartTCPListener

\* startSSHServer keeps the invariant.
LEMMA SSHKeeps ==
  ASSUME MainInv, BootTypeOK', StartSSH
  PROVE  MainInv'
  <1>0. at = "ssh" /\ serveVars' = serveVars /\ health' = health
    BY Zenon DEF StartSSH
  <1>1. CASE Started({"ssh"}, {"ssh"}, "running")
    <2>a. MayLive["ssh"] \cup {"ssh"} \subseteq MayLive["running"]
      BY ZenonT(60) DEF MayLive, NodeLive, StorageLive
    <2>1. Grows({"ssh"}, {"ssh"}, "running")
      BY <1>0, <2>a, ZenonT(60) DEF Grows, StartSteps, Components
    <2> QED
      BY <1>0, <1>1, <2>1, StartedKeeps, ZenonT(60) DEF MainInv, DaemonTypeOK
  <1>2. CASE Started({}, {}, "running")
    <2>a. MayLive["ssh"] \cup {} \subseteq MayLive["running"]
      BY ZenonT(60) DEF MayLive, NodeLive, StorageLive
    <2>1. Grows({}, {}, "running")
      BY <1>0, <2>a, ZenonT(60) DEF Grows, StartSteps, Components
    <2> QED
      BY <1>0, <1>2, <2>1, StartedKeeps, ZenonT(60) DEF MainInv, DaemonTypeOK
  <1>3. CASE Fails("grpcStop")
    <2>a. MayLive["ssh"] \cup {} \subseteq MayLive["grpcStop"]
      BY ZenonT(60) DEF MayLive, NodeLive, StorageLive
    <2>1. Unwinds({}, {}, "grpcStop")
      BY <1>0, <2>a, StopStepsListed, ZenonT(60) DEF Unwinds, StartSteps, StopStepsAre
    <2> QED
      BY <1>0, <1>3, <2>1, FailsRollsBack, RolledBackKeeps, ZenonT(60)
  <1> QED
    BY <1>1, <1>2, <1>3, Zenon DEF StartSSH

\* startStorage keeps the invariant: the container of a managed PostgreSQL that
\* does not become ready is left behind.
LEMMA StorageKeeps ==
  ASSUME MainInv, BootTypeOK', StartStorage
  PROVE  MainInv'
  <1>0. at = "storage" /\ serveVars' = serveVars
    BY Zenon DEF StartStorage
  <1>h. health' \in {"off", "idle", "unhealthy"}
    BY Zenon DEF StartStorage, MainInv, DaemonTypeOK
  <1>1. ASSUME NEW d \in {"pg", "store"}, NEW next \in {"host", "cluster"}, NEW X \in SUBSET {"k8s"},
               StartedLeaving({d}, {d}, X, next)
        PROVE  MainInv'
    <2>a. /\ MayLive["storage"] = {"pid", "certs"} /\ MayLive["host"] = StorageLive
          /\ MayLive["cluster"] = NodeLive \ {"cluster"}
      BY Zenon DEF MayLive
    <2>b. MayLive[at] \cup {d} \subseteq MayLive[next]
      BY <1>0, <2>a, Zenon DEF NodeLive, StorageLive
    <2>1. Grows({d}, {d}, next)
      BY <1>0, <2>b, Zenon DEF Grows, StartSteps, Components
    <2> QED
      BY <1>0, <1>1, <1>h, <2>1, LeavingKeeps, ZenonT(60)
  <1>2. ASSUME NEW X \in SUBSET {"pg", "k8s"}, RolledBack({}, X, "certsStop")
        PROVE  MainInv'
    <2>a. MayLive["storage"] \cup {} \subseteq MayLive["certsStop"]
      BY ZenonT(60) DEF MayLive, NodeLive, StorageLive
    <2>1. Unwinds({}, X, "certsStop")
      BY <1>0, <2>a, StopStepsListed, ZenonT(60) DEF Unwinds, StartSteps, StopStepsAre
    <2> QED
      BY <1>2, <2>1, RolledBackKeeps, Zenon
  <1>3. CASE Fails("certsStop") /\ health' = health
    BY <1>0, <1>2, <1>3, FailsRollsBack, Zenon
  <1>4. ASSUME NEW X \in SUBSET {"pg", "k8s"}, RollBack("certsStop"), health' = health,
               live' = live \cup X /\ orphan' = orphan \cup X
        PROVE  MainInv'
    <2>1. RolledBack({}, X, "certsStop")
      BY <1>0, <1>4, Zenon DEF RollBack, RolledBack
    <2> QED
      BY <1>2, <2>1, Zenon
  <1>5. DEFINE next == IF "p2p" \in cfg THEN "host" ELSE "cluster"
  <1>6. next \in {"host", "cluster"}
    BY Zenon
  <1>7. \/ Started({"pg"}, {"pg"}, next) \/ Started({"store"}, {"store"}, next)
        \/ /\ held' = held \cup {"pg"}
           /\ live' = live \cup {"pg", "k8s"} /\ orphan' = orphan \cup {"k8s"}
           /\ Go(next) /\ UNCHANGED failed
        \/ Fails("certsStop") /\ health' = health
        \/ /\ RollBack("certsStop") /\ health' = health
           /\ \E X \in SUBSET {"pg", "k8s"} : live' = live \cup X /\ orphan' = orphan \cup X
    <2>1. CASE "managed" \in cfg
      BY <2>1, Zenon DEF StartStorage
    <2>2. CASE "managed" \notin cfg
      BY <2>2, Zenon DEF StartStorage
    <2> QED
      BY <2>1, <2>2, Zenon
  <1>8. \/ StartedLeaving({"pg"}, {"pg"}, {}, next) \/ StartedLeaving({"store"}, {"store"}, {}, next)
        \/ StartedLeaving({"pg"}, {"pg"}, {"k8s"}, next)
        \/ Fails("certsStop") /\ health' = health
        \/ /\ RollBack("certsStop") /\ health' = health
           /\ \E X \in SUBSET {"pg", "k8s"} : live' = live \cup X /\ orphan' = orphan \cup X
    <2>1. live \cup {"pg", "k8s"} = live \cup {"pg"} \cup {"k8s"}
      BY Zenon
    <2> QED
      BY <1>7, <2>1, Zenon DEF Started, StartedLeaving
  <1> HIDE DEF next
  <1>9. {} \in SUBSET {"k8s"} /\ {"k8s"} \in SUBSET {"k8s"}
    BY Zenon
  <1>10. CASE StartedLeaving({"pg"}, {"pg"}, {}, next)
    BY <1>1, <1>6, <1>9, <1>10, Zenon
  <1>11. CASE StartedLeaving({"store"}, {"store"}, {}, next)
    BY <1>1, <1>6, <1>9, <1>11, Zenon
  <1>12. CASE StartedLeaving({"pg"}, {"pg"}, {"k8s"}, next)
    BY <1>1, <1>6, <1>9, <1>12, Zenon
  <1> QED
    BY <1>3, <1>4, <1>8, <1>10, <1>11, <1>12, Zenon

\* startCluster keeps the invariant: a cluster whose bootstrap or join failed is
\* left behind.
LEMMA ClusterKeeps ==
  ASSUME MainInv, BootTypeOK', StartCluster
  PROVE  MainInv'
  <1>0. at = "cluster" /\ serveVars' = serveVars /\ health' = health
    BY Zenon DEF StartCluster
  <1>1. ASSUME NEW d \in {{"cluster"}, {}}, Started(d, d, "ready")
        PROVE  MainInv'
    <2>a. MayLive["cluster"] \cup d \subseteq MayLive["ready"]
      BY ZenonT(60) DEF MayLive, NodeLive, StorageLive
    <2>1. Grows(d, d, "ready")
      BY <1>0, <2>a, ZenonT(60) DEF Grows, StartSteps, Components
    <2> QED
      BY <1>0, <1>1, <2>1, StartedKeeps, ZenonT(60) DEF MainInv, DaemonTypeOK
  <1>2. ASSUME NEW X \in {{}, {"cluster"}}, RolledBack({}, X, "modeStop")
        PROVE  MainInv'
    <2>a. MayLive["cluster"] \cup {} \subseteq MayLive["modeStop"]
      BY ZenonT(60) DEF MayLive, NodeLive, StorageLive
    <2>1. Unwinds({}, X, "modeStop")
      BY <1>0, <2>a, StopStepsListed, ZenonT(60) DEF Unwinds, StartSteps, StopStepsAre
    <2> QED
      BY <1>2, <2>1, RolledBackKeeps, Zenon
  <1>3. CASE Fails("modeStop")
    BY <1>0, <1>2, <1>3, FailsRollsBack, ZenonT(60)
  <1>4. CASE /\ RollBack("modeStop")
             /\ live' = live \cup {"cluster"} /\ orphan' = orphan \cup {"cluster"}
    <2>1. RolledBack({}, {"cluster"}, "modeStop")
      BY <1>0, <1>4, Zenon DEF RollBack, RolledBack
    <2> QED
      BY <1>2, <2>1, Zenon
  <1> QED
    BY <1>1, <1>3, <1>4, Zenon DEF StartCluster

\* waitForStorageReady keeps the invariant, also when it opened the store and
\* the ping fails.
LEMMA ReadyKeeps ==
  ASSUME MainInv, BootTypeOK', WaitForStorageReady
  PROVE  MainInv'
  <1>0. at = "ready" /\ serveVars' = serveVars /\ health' = health
    BY Zenon DEF WaitForStorageReady
  <1>1. ASSUME NEW O \in {{"store"}, {}}, NEW next \in {"tcp", "ssh"}, Started(O, O, next)
        PROVE  MainInv'
    <2>a. /\ MayLive["ready"] = NodeLive /\ MayLive["tcp"] = NodeLive
          /\ MayLive["ssh"] = NodeLive \cup {"tcp", "unix"}
      BY Zenon DEF MayLive
    <2>b. MayLive[at] \cup O \subseteq MayLive[next]
      BY <1>0, <2>a, Zenon DEF NodeLive, StorageLive
    <2>1. Grows(O, O, next)
      BY <1>0, <2>b, Zenon DEF Grows, StartSteps, Components
    <2> QED
      BY <1>0, <1>1, <2>1, StartedKeeps, ZenonT(60) DEF MainInv, DaemonTypeOK
  <1>2. ASSUME NEW O \in {{"store"}, {}}, RolledBack(O, {}, "clusterStop")
        PROVE  MainInv'
    <2>a. MayLive["ready"] \cup O \subseteq MayLive["clusterStop"]
      BY ZenonT(60) DEF MayLive, NodeLive, StorageLive
    <2>1. Unwinds(O, {}, "clusterStop")
      BY <1>0, <2>a, StopStepsListed, ZenonT(60) DEF Unwinds, StartSteps, StopStepsAre
    <2> QED
      BY <1>2, <2>1, RolledBackKeeps, Zenon
  <1>3. CASE Fails("clusterStop")
    BY <1>0, <1>2, <1>3, FailsRollsBack, ZenonT(60)
  <1>5. DEFINE next == IF "grpc" \in cfg THEN "tcp" ELSE "ssh"
               opened == IF "pg" \in held THEN {"store"} ELSE {}
  <1>6. next \in {"tcp", "ssh"} /\ opened \in {{"store"}, {}}
    BY Zenon
  <1>7. \/ Started(opened, opened, next)
        \/ Fails("clusterStop")
        \/ /\ failed' = TRUE /\ Go("clusterStop")
           /\ held' = held \cup opened /\ live' = live \cup opened
           /\ orphan' = orphan
    BY Zenon DEF WaitForStorageReady
  <1> HIDE DEF next, opened
  <1>4. CASE /\ failed' = TRUE /\ Go("clusterStop")
             /\ held' = held \cup opened /\ live' = live \cup opened
             /\ orphan' = orphan
    <2>1. RolledBack(opened, {}, "clusterStop")
      BY <1>0, <1>4, Zenon DEF RolledBack
    <2> QED
      BY <1>2, <1>6, <2>1, Zenon
  <1> QED
    BY <1>1, <1>3, <1>4, <1>6, <1>7, ZenonT(60)

\* The start of the Unix socket keeps the invariant: when it fails the TCP
\* listener is closed, and its calls are left behind.
LEMMA PipeKeeps ==
  ASSUME MainInv, BootTypeOK', StartPipeListener
  PROVE  MainInv'
  <1>0. at = "unix" /\ conns' = conns /\ calls' = calls /\ health' = health
    BY Zenon DEF StartPipeListener, serveVars
  <1>1. CASE Started({"grpc"}, {"unix"}, "ssh")
    <2>a. MayLive["unix"] \cup {"unix"} \subseteq MayLive["ssh"]
      BY ZenonT(60) DEF MayLive, NodeLive, StorageLive
    <2>1. Grows({"grpc"}, {"unix"}, "ssh")
      BY <1>0, <2>a, ZenonT(60) DEF Grows, StartSteps, Components
    <2> QED
      BY <1>0, <1>1, <2>1, StartedKeeps, ZenonT(60) DEF MainInv, DaemonTypeOK, serveVars
  <1>2. CASE /\ RollBack("clusterStop")
             /\ live' = live \ {"tcp"} /\ orphan' = orphan \cup {"calls"}
    <2>a. /\ at' = "clusterStop" /\ held' = held /\ cfg' = cfg
          /\ failed' = TRUE /\ (expired' <=> expired) /\ (late' <=> late)
      BY <1>2, Zenon DEF RollBack, Go
    <2>b. MayLive["unix"] = NodeLive \cup {"tcp"} /\ MayLive["clusterStop"] = NodeLive
      BY Zenon DEF MayLive
    <2>1. DaemonTypeOK'
      <3>1. at' \in StopSteps
        BY <2>a, StopStepsListed, ZenonT(60) DEF StopStepsAre
      <3>2. failed' \in BOOLEAN /\ expired' \in BOOLEAN /\ late' \in BOOLEAN
        BY <1>2, Zenon DEF RollBack, Go, MainInv, DaemonTypeOK
      <3> QED
        BY <1>0, <1>2, <2>a, <3>1, <3>2, ZenonT(60) DEF MainInv, DaemonTypeOK
    <2>2. LiveInOrder'
      BY <1>0, <1>2, <2>a, <2>b, ZenonT(60) DEF MainInv, LiveInOrder
    <2>3. Backed'
      <3>1. "pg" \in MayLive[at']
        BY <2>a, <2>b, Zenon DEF NodeLive, StorageLive
      <3> QED
        BY <1>2, <2>a, <3>1, ZenonT(60) DEF MainInv, Backed
    <2>4. Served'
      BY <1>0, <1>2, <2>a, Zenon DEF MainInv, Served
    <2>5. FailedExit'
      BY <2>a, Zenon DEF FailedExit
    <2> QED
      BY <2>1, <2>2, <2>3, <2>4, <2>5, ZenonT(60) DEF MainInv
  <1> QED
    BY <1>1, <1>2, ZenonT(60) DEF StartPipeListener

\* A signal keeps the invariant: Stop may find what runs.
LEMMA DaemonSignalKeeps ==
  ASSUME MainInv, BootTypeOK', Signal
  PROVE  MainInv'
  <1>a. /\ at = "running" /\ at' = "sshStop" /\ held' = held /\ live' = live /\ orphan' = orphan
        /\ cfg' = cfg /\ conns' = conns /\ calls' = calls /\ health' = health
    BY Zenon DEF Signal, Go, serveVars
  <1>b. (failed' <=> failed) /\ (expired' <=> expired) /\ (late' <=> late)
    BY Zenon DEF Signal, Go
  <1>c. MayLive[at'] = MayLive[at]
    BY <1>a, Zenon DEF MayLive
  <1>1. DaemonTypeOK'
    <2>1. at' \in StopSteps
      BY <1>a, StopStepsListed, Zenon DEF StopStepsAre
    <2>2. failed' \in BOOLEAN /\ expired' \in BOOLEAN /\ late' \in BOOLEAN
      BY Zenon DEF Signal, Go, MainInv, DaemonTypeOK
    <2> QED
      BY <1>a, <2>1, <2>2, Zenon DEF MainInv, DaemonTypeOK
  <1>2. LiveInOrder' /\ Backed'
    BY <1>a, <1>c, Zenon DEF MainInv, LiveInOrder, Backed
  <1>3. Served'
    BY <1>a, <1>b, Zenon DEF MainInv, Served
  <1>4. FailedExit'
    BY <1>a, Zenon DEF FailedExit
  <1> QED
    BY <1>1, <1>2, <1>3, <1>4, ZenonT(60) DEF MainInv

\* The end of Server.Stop keeps the invariant, with an error and without.
LEMMA CloseKeeps ==
  ASSUME MainInv, BootTypeOK', CloseListeners
  PROVE  MainInv'
  <1>0. at = "grpcClose" /\ serveVars' = serveVars /\ health' = health
    BY Zenon DEF CloseListeners, Doing
  <1>1. CASE Stopped({"grpc"}, {"unix"})
    <2>1. Releases({"grpc"}, {"unix"})
      BY <1>0, StopStepsListed, Zenon DEF Releases, StopStepsAre, Drops
    <2> QED
      BY <1>0, <1>1, <2>1, StoppedKeeps, Zenon
  <1>2. CASE Stopped({}, {"unix"})
    <2>1. Releases({}, {"unix"})
      BY <1>0, StopStepsListed, Zenon DEF Releases, StopStepsAre, Drops
    <2> QED
      BY <1>0, <1>2, <2>1, StoppedKeeps, ZenonT(60)
  <1> QED
    BY <1>1, <1>2, Zenon DEF CloseListeners

\* stopCluster keeps the invariant, with an error and without.
LEMMA StopClusterKeeps ==
  ASSUME MainInv, BootTypeOK', StopCluster
  PROVE  MainInv'
  <1>0. at = "clusterStop" /\ serveVars' = serveVars /\ health' = health
    BY Zenon DEF StopCluster, Doing
  <1>1. CASE Stopped({"cluster"}, {"cluster"})
    <2>1. Releases({"cluster"}, {"cluster"})
      BY <1>0, StopStepsListed, Zenon DEF Releases, StopStepsAre, Drops
    <2> QED
      BY <1>0, <1>1, <2>1, StoppedKeeps, ZenonT(60)
  <1>2. CASE Stopped({}, {"cluster"})
    <2>1. Releases({}, {"cluster"})
      BY <1>0, StopStepsListed, Zenon DEF Releases, StopStepsAre, Drops
    <2> QED
      BY <1>0, <1>2, <2>1, StoppedKeeps, Zenon
  <1> QED
    BY <1>1, <1>2, Zenon DEF StopCluster

\* ModeManager.Stop keeps the invariant.
LEMMA StopModeKeeps ==
  ASSUME MainInv, BootTypeOK', StopMode
  PROVE  MainInv'
  <1>0. at = "modeStop" /\ serveVars' = serveVars /\ health' = health
    BY Zenon DEF StopMode, Doing
  <1>1. CASE Stopped({"mode"}, {"mode"})
    <2>1. Releases({"mode"}, {"mode"})
      BY <1>0, StopStepsListed, Zenon DEF Releases, StopStepsAre, Drops
    <2> QED
      BY <1>0, <1>1, <2>1, StoppedKeeps, ZenonT(60)
  <1> QED
    BY <1>1, Zenon DEF StopMode

\* The steps of Discovery.Stop keep the invariant: cancel,
LEMMA DiscoveryCancelKeeps ==
  ASSUME MainInv, BootTypeOK', DiscoveryCancel
  PROVE  MainInv'
  <1>0. at = "discStop" /\ serveVars' = serveVars /\ health' = health
    BY Zenon DEF DiscoveryCancel, Doing
  <1>1. CASE Stopped({}, {})
    <2>1. Releases({}, {})
      BY <1>0, StopStepsListed, Zenon DEF Releases, StopStepsAre, Drops
    <2> QED
      BY <1>0, <1>1, <2>1, StoppedKeeps, Zenon
  <1> QED
    BY <1>1, Zenon DEF DiscoveryCancel

\* wait for the goroutines of Start,
LEMMA DiscoveryWaitKeeps ==
  ASSUME MainInv, BootTypeOK', DiscoveryWait
  PROVE  MainInv'
  <1>0. at = "discWait" /\ serveVars' = serveVars /\ health' = health
    BY Zenon DEF DiscoveryWait, Doing
  <1>1. CASE Stopped({}, {})
    <2>1. Releases({}, {})
      BY <1>0, StopStepsListed, Zenon DEF Releases, StopStepsAre, Drops
    <2> QED
      BY <1>0, <1>1, <2>1, StoppedKeeps, ZenonT(60)
  <1> QED
    BY <1>1, Zenon DEF DiscoveryWait

\* cancel the bootstrapper,
LEMMA BootstrapperCancelKeeps ==
  ASSUME MainInv, BootTypeOK', BootstrapperCancel
  PROVE  MainInv'
  <1>0. at = "bootStop" /\ serveVars' = serveVars /\ health' = health
    BY Zenon DEF BootstrapperCancel, Doing
  <1>1. CASE Stopped({}, {})
    <2>1. Releases({}, {})
      BY <1>0, StopStepsListed, Zenon DEF Releases, StopStepsAre, Drops
    <2> QED
      BY <1>0, <1>1, <2>1, StoppedKeeps, ZenonT(60)
  <1> QED
    BY <1>1, Zenon DEF BootstrapperCancel

\* wait for its goroutines,
LEMMA BootstrapperWaitKeeps ==
  ASSUME MainInv, BootTypeOK', BootstrapperWait
  PROVE  MainInv'
  <1>0. at = "bootWait" /\ serveVars' = serveVars /\ health' = health
    BY Zenon DEF BootstrapperWait, Doing
  <1>1. CASE Stopped({}, {})
    <2>1. Releases({}, {})
      BY <1>0, StopStepsListed, Zenon DEF Releases, StopStepsAre, Drops
    <2> QED
      BY <1>0, <1>1, <2>1, StoppedKeeps, ZenonT(60)
  <1> QED
    BY <1>1, Zenon DEF BootstrapperWait

\* and close what is open.
LEMMA DiscoveryCloseKeeps ==
  ASSUME MainInv, BootTypeOK', DiscoveryClose
  PROVE  MainInv'
  <1>0. at = "discClose" /\ serveVars' = serveVars /\ health' = health
    BY Zenon DEF DiscoveryClose, Doing
  <1>1. CASE Stopped({"disc"}, {"disc"})
    <2>1. Releases({"disc"}, {"disc"})
      BY <1>0, StopStepsListed, Zenon DEF Releases, StopStepsAre, Drops
    <2> QED
      BY <1>0, <1>1, <2>1, StoppedKeeps, ZenonT(60)
  <1> QED
    BY <1>1, Zenon DEF DiscoveryClose

\* The stop of the host keeps the invariant.
LEMMA StopHostKeeps ==
  ASSUME MainInv, BootTypeOK', StopHost
  PROVE  MainInv'
  <1>0. at = "hostStop" /\ serveVars' = serveVars /\ health' = health
    BY Zenon DEF StopHost, Doing
  <1>1. CASE Stopped({"host"}, {"host"})
    <2>1. Releases({"host"}, {"host"})
      BY <1>0, StopStepsListed, ZenonT(60) DEF Releases, StopStepsAre, Drops
    <2> QED
      BY <1>0, <1>1, <2>1, StoppedKeeps, Zenon
  <1> QED
    BY <1>1, Zenon DEF StopHost

\* The close of the store keeps the invariant.
LEMMA StopStoreKeeps ==
  ASSUME MainInv, BootTypeOK', StopStore
  PROVE  MainInv'
  <1>0. at = "storeStop" /\ serveVars' = serveVars /\ health' = health
    BY Zenon DEF StopStore, Doing
  <1>1. CASE Stopped({"store"}, {"store"})
    <2>1. Releases({"store"}, {"store"})
      BY <1>0, StopStepsListed, ZenonT(60) DEF Releases, StopStepsAre, Drops
    <2> QED
      BY <1>0, <1>1, <2>1, StoppedKeeps, ZenonT(60)
  <1> QED
    BY <1>1, Zenon DEF StopStore

\* stopCertificates keeps the invariant.
LEMMA StopCertificatesKeeps ==
  ASSUME MainInv, BootTypeOK', StopCertificates
  PROVE  MainInv'
  <1>0. at = "certsStop" /\ serveVars' = serveVars /\ health' = health
    BY Zenon DEF StopCertificates, Doing
  <1>1. CASE Stopped({"certs"}, {"certs"})
    <2>1. Releases({"certs"}, {"certs"})
      BY <1>0, StopStepsListed, Zenon DEF Releases, StopStepsAre, Drops
    <2> QED
      BY <1>0, <1>1, <2>1, StoppedKeeps, ZenonT(60)
  <1> QED
    BY <1>1, Zenon DEF StopCertificates

\* Manager.Stop keeps the invariant: a container it cannot stop is left behind.
LEMMA StopPostgresKeeps ==
  ASSUME MainInv, BootTypeOK', StopPostgres
  PROVE  MainInv'
  <1>0. at = "pgStop" /\ serveVars' = serveVars /\ health' = health
    BY Zenon DEF StopPostgres, Doing
  <1>1. CASE Stopped({"pg"}, {"pg"})
    <2>1. Releases({"pg"}, {"pg"})
      BY <1>0, StopStepsListed, Zenon DEF Releases, StopStepsAre, Drops
    <2> QED
      BY <1>0, <1>1, <2>1, StoppedKeeps, ZenonT(60)
  <1>2. CASE /\ held' = held \ {"pg"} /\ Go(After(at)) /\ live' = live
             /\ orphan' = orphan \cup {"pg"} /\ failed' = failed
    <2>a. /\ at' = After(at) /\ cfg' = cfg /\ conns' = conns /\ calls' = calls
          /\ (failed' <=> failed) /\ (expired' <=> expired) /\ (late' <=> late)
      BY <1>0, <1>2, Zenon DEF Go, serveVars
    <2>b. at \in StopSteps /\ Drops[at] = {"pg"}
      BY <1>0, StopStepsListed, Zenon DEF StopStepsAre, Drops
    <2>d. /\ MayLive[at] \ {"pg"} \subseteq MayLive[at']
          /\ at' \in StopSteps \cup Exits
          /\ at' = "exit1" => failed
      BY <2>a, <2>b, DropsInOrder, Zenon
    <2>1. DaemonTypeOK'
      <3>1. failed' \in BOOLEAN /\ expired' \in BOOLEAN /\ late' \in BOOLEAN
        BY <1>2, Zenon DEF Go, MainInv, DaemonTypeOK
      <3> QED
        BY <1>0, <1>2, <2>a, <2>d, <3>1, ZenonT(60) DEF MainInv, DaemonTypeOK
    <2>2. LiveInOrder'
      BY <1>2, <2>d, Zenon DEF MainInv, LiveInOrder
    <2>3. Backed'
      BY <1>0, <1>2, <2>d, ZenonT(60) DEF MainInv, Backed
    <2>4. Served'
      BY <1>0, <1>2, <2>a, ZenonT(60) DEF MainInv, Served
    <2>5. FailedExit'
      BY <2>a, <2>d, ZenonT(60) DEF FailedExit
    <2> QED
      BY <2>1, <2>2, <2>3, <2>4, <2>5, ZenonT(60) DEF MainInv
  <1> QED
    BY <1>1, <1>2, Zenon DEF StopPostgres

\* removePIDFile keeps the invariant: a file it cannot remove is left behind.
LEMMA RemovePIDFileKeeps ==
  ASSUME MainInv, BootTypeOK', RemovePIDFile
  PROVE  MainInv'
  <1>0. at = "pidStop" /\ serveVars' = serveVars /\ health' = health
    BY Zenon DEF RemovePIDFile, Doing
  <1>1. CASE Stopped({}, {"pid"})
    <2>1. Releases({}, {"pid"})
      BY <1>0, StopStepsListed, Zenon DEF Releases, StopStepsAre, Drops
    <2> QED
      BY <1>0, <1>1, <2>1, StoppedKeeps, ZenonT(60)
  <1>2. CASE /\ held' = held /\ Go(After(at)) /\ live' = live
             /\ orphan' = orphan \cup {"pid"} /\ failed' = failed
    <2>a. /\ at' = After(at) /\ cfg' = cfg /\ conns' = conns /\ calls' = calls
          /\ (failed' <=> failed) /\ (expired' <=> expired) /\ (late' <=> late)
      BY <1>0, <1>2, Zenon DEF Go, serveVars
    <2>b. at \in StopSteps /\ Drops[at] = {"pid"}
      BY <1>0, StopStepsListed, Zenon DEF StopStepsAre, Drops
    <2>d. /\ MayLive[at] \ {"pid"} \subseteq MayLive[at']
          /\ at' \in StopSteps \cup Exits
          /\ at' = "exit1" => failed
      BY <2>a, <2>b, DropsInOrder, ZenonT(60)
    <2>1. DaemonTypeOK'
      <3>1. failed' \in BOOLEAN /\ expired' \in BOOLEAN /\ late' \in BOOLEAN
        BY <1>2, Zenon DEF Go, MainInv, DaemonTypeOK
      <3> QED
        BY <1>0, <1>2, <2>a, <2>d, <3>1, ZenonT(60) DEF MainInv, DaemonTypeOK
    <2>2. LiveInOrder'
      BY <1>2, <2>d, Zenon DEF MainInv, LiveInOrder
    <2>3. Backed'
      BY <1>0, <1>2, <2>d, ZenonT(60) DEF MainInv, Backed
    <2>4. Served'
      BY <1>0, <1>2, <2>a, ZenonT(60) DEF MainInv, Served
    <2>5. FailedExit'
      BY <2>a, <2>d, Zenon DEF FailedExit
    <2> QED
      BY <2>1, <2>2, <2>3, <2>4, <2>5, ZenonT(60) DEF MainInv
  <1> QED
    BY <1>1, <1>2, Zenon DEF RemovePIDFile

\* Shutdown of the SSH server keeps the invariant: it waits for the sessions, or
\* the context of Stop is over.
LEMMA StopSSHKeeps ==
  ASSUME MainInv, BootTypeOK', StopSSH
  PROVE  MainInv'
  <1>a. /\ at = "sshStop" /\ at' = After(at) /\ live' = live \ {"ssh"} /\ orphan' = orphan
        /\ cfg' = cfg /\ conns' = conns /\ calls' = calls /\ health' = health
        /\ held \ {"ssh"} \subseteq held' /\ held' \subseteq held
    BY Zenon DEF StopSSH, Doing, serveVars
  <1>b. (failed' <=> failed) /\ (expired' <=> expired) /\ (late => late')
    BY DEF StopSSH
  <1>c. "ssh" \in calls => expired
    BY Zenon DEF StopSSH
  <1>d. /\ MayLive[at] \ {"ssh"} \subseteq MayLive[at'] /\ at' = "grpcStop"
    <2>1. at \in StopSteps /\ Drops[at] = {"ssh"} /\ After(at) = "grpcStop"
      BY <1>a, StopStepsListed, ZenonT(60) DEF StopStepsAre, Drops, After, Then
    <2> QED
      BY <1>a, <2>1, DropsInOrder, ZenonT(60)
  <1>1. DaemonTypeOK'
    <2>1. failed' \in BOOLEAN /\ expired' \in BOOLEAN /\ late' \in BOOLEAN
      BY Zenon DEF StopSSH, MainInv, DaemonTypeOK
    <2>2. at' \in StopSteps
      BY <1>d, StopStepsListed, ZenonT(60) DEF StopStepsAre
    <2> QED
      BY <1>a, <2>1, <2>2, ZenonT(60) DEF MainInv, DaemonTypeOK
  <1>2. LiveInOrder'
    BY <1>a, <1>d, Zenon DEF MainInv, LiveInOrder
  <1>3. Backed'
    BY <1>a, <1>d, Zenon DEF MainInv, Backed
  <1>4. Served'
    BY <1>a, <1>b, <1>c, <1>d, ZenonT(60) DEF MainInv, Served
  <1>5. FailedExit'
    BY <1>d, Zenon DEF FailedExit
  <1> QED
    BY <1>1, <1>2, <1>3, <1>4, <1>5, ZenonT(60) DEF MainInv

\* GracefulStop keeps the invariant: no new connection, and a call that is being
\* served is one that the next step waits for.
LEMMA GracefulKeeps ==
  ASSUME MainInv, BootTypeOK', GracefulStop
  PROVE  MainInv'
  <1>a. /\ at = "grpcStop" /\ at' = After(at) /\ live' = live \ {"tcp"} /\ orphan' = orphan
        /\ cfg' = cfg /\ conns' = conns \ {"tcp"} /\ calls' = calls /\ health' = health
        /\ held' = held /\ "grpc" \in held
    BY Zenon DEF GracefulStop, Stopped, Go, Doing, Subject
  <1>b. (failed' <=> failed) /\ (expired' <=> expired) /\ (late' <=> late)
    BY Zenon DEF GracefulStop, Stopped, Go
  <1>d. /\ MayLive[at] \ {"tcp"} \subseteq MayLive[at'] /\ at' = "grpcDrain"
    <2>1. at \in StopSteps /\ Drops[at] = {"tcp"} /\ After(at) = "grpcDrain"
      BY <1>a, StopStepsListed, Zenon DEF StopStepsAre, Drops, After, Then
    <2> QED
      BY <1>a, <2>1, DropsInOrder, ZenonT(60)
  <1>1. DaemonTypeOK'
    <2>1. failed' \in BOOLEAN /\ expired' \in BOOLEAN /\ late' \in BOOLEAN
      BY Zenon DEF GracefulStop, Stopped, Go, MainInv, DaemonTypeOK
    <2>2. at' \in StopSteps
      BY <1>d, StopStepsListed, Zenon DEF StopStepsAre
    <2> QED
      BY <1>a, <2>1, <2>2, ZenonT(60) DEF MainInv, DaemonTypeOK
  <1>2. LiveInOrder'
    BY <1>a, <1>d, Zenon DEF MainInv, LiveInOrder
  <1>3. Backed'
    BY <1>a, <1>d, Zenon DEF MainInv, Backed
  <1>4. Served'
    BY <1>a, <1>b, <1>d, ZenonT(60) DEF MainInv, Served
  <1>5. FailedExit'
    BY <1>d, Zenon DEF FailedExit
  <1> QED
    BY <1>1, <1>2, <1>3, <1>4, <1>5, ZenonT(60) DEF MainInv

\* The wait for the calls keeps the invariant: when it ends no call is served,
\* or those that were are cut off and the wait was given up.
LEMMA DrainKeeps ==
  ASSUME MainInv, BootTypeOK', Drain
  PROVE  MainInv'
  <1>a. /\ at = "grpcDrain" /\ at' = After(at) /\ live' = live /\ orphan' = orphan
        /\ cfg' = cfg /\ conns' = conns /\ health' = health /\ held' = held
    BY Zenon DEF Drain, Doing
  <1>b. (failed' <=> failed) /\ (expired' <=> expired) /\ (late => late')
    BY DEF Drain
  <1>c. /\ "tcp" \notin calls' /\ ("cut" \in calls' => "cut" \in calls \/ late')
        /\ calls' \subseteq calls \cup {"cut"}
    BY Zenon DEF Drain
  <1>d. /\ MayLive[at] \subseteq MayLive[at'] /\ at' = "grpcClose"
    <2>1. at \in StopSteps /\ Drops[at] = {} /\ After(at) = "grpcClose"
      BY <1>a, StopStepsListed, ZenonT(60) DEF StopStepsAre, Drops, After, Then
    <2> QED
      BY <1>a, <2>1, DropsInOrder, ZenonT(60)
  <1>1. DaemonTypeOK'
    <2>1. failed' \in BOOLEAN /\ expired' \in BOOLEAN /\ late' \in BOOLEAN
      BY Zenon DEF Drain, MainInv, DaemonTypeOK
    <2>2. at' \in StopSteps
      BY <1>d, StopStepsListed, Zenon DEF StopStepsAre
    <2> QED
      BY <1>a, <1>c, <2>1, <2>2, ZenonT(60) DEF MainInv, DaemonTypeOK
  <1>2. LiveInOrder'
    BY <1>a, <1>d, Zenon DEF MainInv, LiveInOrder
  <1>3. Backed'
    BY <1>a, <1>d, ZenonT(60) DEF MainInv, Backed
  <1>4. Served'
    BY <1>a, <1>b, <1>c, <1>d, ZenonT(60) DEF MainInv, Served
  <1>5. FailedExit'
    BY <1>d, Zenon DEF FailedExit
  <1> QED
    BY <1>1, <1>2, <1>3, <1>4, <1>5, ZenonT(60) DEF MainInv

\* The 30 seconds of main are over: sessions may now outlive the SSH server.
LEMMA ExpireKeeps ==
  ASSUME MainInv, BootTypeOK', Expire
  PROVE  MainInv'
  <1>a. /\ at' = at /\ live' = live /\ orphan' = orphan /\ held' = held /\ expired' = TRUE
        /\ cfg' = cfg /\ conns' = conns /\ calls' = calls /\ health' = health
        /\ failed' = failed /\ late' = late
    BY Zenon DEF Expire, serveVars
  <1>1. DaemonTypeOK'
    BY <1>a, Zenon DEF MainInv, DaemonTypeOK
  <1>2. LiveInOrder' /\ Backed' /\ FailedExit'
    BY <1>a, Zenon DEF MainInv, LiveInOrder, Backed, FailedExit
  <1>3. Served'
    BY <1>a, Zenon DEF MainInv, Served
  <1> QED
    BY <1>1, <1>2, <1>3, ZenonT(60) DEF MainInv

\* A step of the clients leaves what the main goroutine does alone.
LEMMA ClientKeeps ==
  ASSUME MainInv, BootTypeOK', daemonVars' = daemonVars, health' = health,
         conns' \subseteq {"tcp", "unix"}, calls' \subseteq {"tcp", "unix", "ssh", "cut"}, Served'
  PROVE  MainInv'
  <1>a. /\ at' = at /\ live' = live /\ orphan' = orphan /\ held' = held /\ expired' = expired
        /\ cfg' = cfg /\ failed' = failed /\ late' = late
    BY Zenon DEF daemonVars
  <1>1. DaemonTypeOK'
    BY <1>a, Zenon DEF MainInv, DaemonTypeOK
  <1>2. LiveInOrder' /\ Backed' /\ FailedExit'
    BY <1>a, Zenon DEF MainInv, LiveInOrder, Backed, FailedExit
  <1> QED
    BY <1>1, <1>2, ZenonT(60) DEF MainInv

\* A new connection keeps the invariant: there is a listener for it.
LEMMA ConnectKeeps ==
  ASSUME MainInv, BootTypeOK', NEW k \in {"tcp", "unix"}, Connect(k)
  PROVE  MainInv'
  <1>a. /\ daemonVars' = daemonVars /\ health' = health /\ calls' = calls
        /\ conns' = conns \cup {k} /\ k \in live
    BY Zenon DEF Connect
  <1>1. conns' \subseteq {"tcp", "unix"} /\ calls' \subseteq {"tcp", "unix", "ssh", "cut"}
    BY <1>a, ZenonT(60) DEF MainInv, DaemonTypeOK
  <1>2. Served'
    BY <1>a DEF MainInv, Served, daemonVars
  <1> QED
    BY <1>a, <1>1, <1>2, ClientKeeps, ZenonT(60)

\* A new call keeps the invariant: it has a connection, or the SSH server runs.
LEMMA CallBeginsKeeps ==
  ASSUME MainInv, BootTypeOK', NEW k \in {"tcp", "unix", "ssh"}, CallBegins(k)
  PROVE  MainInv'
  <1>a. /\ daemonVars' = daemonVars /\ health' = health /\ calls' = calls \cup {k}
        /\ conns' = conns /\ k \in conns \cup (live \cap {"ssh"})
    BY Zenon DEF CallBegins
  <1>1. conns' \subseteq {"tcp", "unix"} /\ calls' \subseteq {"tcp", "unix", "ssh", "cut"}
    BY <1>a, Zenon DEF MainInv, DaemonTypeOK
  <1>2. "ssh" \in live => "ssh" \in held /\ at \in {"running", "sshStop"}
    <2>1. "ssh" \in live => "ssh" \in MayLive[at]
      BY Zenon DEF MainInv, LiveInOrder, DaemonTypeOK
    <2>2. at \in StartSteps \cup {"running"} \cup StopSteps \cup Exits
      BY Zenon DEF MainInv, DaemonTypeOK
    <2>3. "ssh" \in MayLive[at] => at \in {"running", "sshStop"}
      <3>1. CASE at \in StartSteps
        <4>1. /\ "ssh" \notin MayLive["pid"] /\ "ssh" \notin MayLive["identity"] /\ "ssh" \notin MayLive["certs"]
              /\ "ssh" \notin MayLive["storage"] /\ "ssh" \notin MayLive["host"] /\ "ssh" \notin MayLive["disc"]
              /\ "ssh" \notin MayLive["mdns"] /\ "ssh" \notin MayLive["dht"] /\ "ssh" \notin MayLive["mode"]
              /\ "ssh" \notin MayLive["cluster"] /\ "ssh" \notin MayLive["ready"] /\ "ssh" \notin MayLive["tcp"]
              /\ "ssh" \notin MayLive["unix"] /\ "ssh" \notin MayLive["ssh"]
          BY Zenon DEF MayLive, NodeLive, StorageLive
        <4> QED
          BY <3>1, <4>1, ZenonT(60) DEF StartSteps
      <3>2. CASE at \in StopSteps
        <4>1. /\ "ssh" \notin MayLive["grpcStop"] /\ "ssh" \notin MayLive["grpcDrain"] /\ "ssh" \notin MayLive["grpcClose"]
              /\ "ssh" \notin MayLive["clusterStop"] /\ "ssh" \notin MayLive["modeStop"] /\ "ssh" \notin MayLive["discStop"]
              /\ "ssh" \notin MayLive["discWait"] /\ "ssh" \notin MayLive["bootStop"] /\ "ssh" \notin MayLive["bootWait"]
              /\ "ssh" \notin MayLive["discClose"] /\ "ssh" \notin MayLive["hostStop"] /\ "ssh" \notin MayLive["storeStop"]
              /\ "ssh" \notin MayLive["pgStop"] /\ "ssh" \notin MayLive["certsStop"] /\ "ssh" \notin MayLive["pidStop"]
          BY Zenon DEF MayLive, NodeLive, StorageLive
        <4> QED
          BY <3>2, <4>1, StopStepsListed, ZenonT(60) DEF StopStepsAre
      <3>3. CASE at \in Exits
        <4>1. "ssh" \notin MayLive["exit0"] /\ "ssh" \notin MayLive["exit1"]
          BY Zenon DEF MayLive
        <4> QED
          BY <3>3, <4>1, Zenon DEF Exits
      <3> QED
        BY <2>2, <3>1, <3>2, <3>3, ZenonT(60)
    <2> QED
      BY <2>1, <2>3, ZenonT(60) DEF MainInv, Backed
  <1>3. k = "ssh" => "ssh" \in live
    BY <1>a, ZenonT(60) DEF MainInv, DaemonTypeOK
  <1>4. Served'
    BY <1>a, <1>2, <1>3, SMTT(60) DEF MainInv, Served, daemonVars
  <1> QED
    BY <1>a, <1>1, <1>4, ClientKeeps, ZenonT(60)

\* The end of a call keeps the invariant.
LEMMA CallEndsKeeps ==
  ASSUME MainInv, BootTypeOK', NEW k \in {"tcp", "unix", "ssh", "cut"}, CallEnds(k)
  PROVE  MainInv'
  <1>a. /\ daemonVars' = daemonVars /\ health' = health /\ calls' = calls \ {k}
        /\ conns' = conns
    BY Zenon DEF CallEnds
  <1>1. conns' \subseteq {"tcp", "unix"} /\ calls' \subseteq {"tcp", "unix", "ssh", "cut"}
    BY <1>a, ZenonT(60) DEF MainInv, DaemonTypeOK
  <1>2. Served'
    BY <1>a DEF MainInv, Served, daemonVars
  <1> QED
    BY <1>a, <1>1, <1>2, ClientKeeps, ZenonT(60)

\* The steps of the health check keep the invariant: a container that it restarts
\* when the daemon no longer holds the manager is left behind.
LEMMA HealthKeeps ==
  ASSUME MainInv, BootTypeOK', HealthCheckFails \/ HandleHealthFailure
  PROVE  MainInv'
  <1>a. /\ at' = at /\ held' = held /\ (expired' <=> expired) /\ cfg' = cfg /\ (failed' <=> failed)
        /\ (late' <=> late) /\ conns' = conns /\ calls' = calls
        /\ health' \in {"off", "idle", "unhealthy"}
    BY DEF HealthCheckFails, HandleHealthFailure, daemonVars, serveVars
  <1>b. /\ live \subseteq live' /\ live' \subseteq live \cup {"pg"}
        /\ orphan \subseteq orphan' /\ orphan' \subseteq orphan \cup {"pg"}
        /\ "pg" \in live' => "pg" \in live \/ "pg" \in held \/ "pg" \in orphan'
    BY Zenon DEF HealthCheckFails, HandleHealthFailure, daemonVars
  <1>1. DaemonTypeOK'
    <2>1. failed' \in BOOLEAN /\ expired' \in BOOLEAN /\ late' \in BOOLEAN
      BY Zenon DEF HealthCheckFails, HandleHealthFailure, daemonVars, MainInv, DaemonTypeOK
    <2>2. live' \subseteq (Components \ {"grpc"}) \cup {"tcp", "unix", "pid", "k8s"}
      BY <1>b, Zenon DEF MainInv, DaemonTypeOK, Components
    <2> QED
      BY <1>a, <1>b, <2>1, <2>2, ZenonT(60) DEF MainInv, DaemonTypeOK
  <1>2. LiveInOrder'
    BY <1>a, <1>b, Zenon DEF MainInv, LiveInOrder, Backed
  <1>3. Backed'
    BY <1>a, <1>b, ZenonT(60) DEF MainInv, Backed
  <1>4. Served'
    BY <1>a, <1>b, ZenonT(60) DEF MainInv, Served
  <1>5. FailedExit'
    BY <1>a, Zenon DEF MainInv, FailedExit
  <1> QED
    BY <1>1, <1>2, <1>3, <1>4, <1>5, ZenonT(60) DEF MainInv

-----------------------------------------------------------------------------
(***************************************************************************)
(* The bootstrapper                                                        *)
(***************************************************************************)

\* A set of numbers that is not empty has a least one.
LEMMA LeastNumber == ASSUME NEW T, T \subseteq Nat, T # {} PROVE \E x \in T : \A y \in T : ~(y < x)
<1>1. PICK R : R = OpToRel(<, Nat)
  BY Zenon
<1>2. \E x \in T : \A y \in T : ~ (<<y, x>> \in R)
  BY <1>1, NatLessThanWellFounded, WFMin, ZenonT(60)
<1>3. \A x, y \in Nat : <<y, x>> \in R <=> y < x
  BY <1>1, Zenon DEF OpToRel
<1> QED
  BY <1>2, <1>3, Zenon

\* f has the powers of two up to n.
Doubles(n, f) ==
    /\ f \in [0 .. n -> Nat \ {0}]
    /\ f[0] = 1
    /\ \A k \in 1 .. n : f[k] = 2 * f[k - 1]

\* There is such a function, so the recursion of Pow2 defines one.
LEMMA DoublesExists == ASSUME NEW n \in Nat PROVE \E f : Doubles(n, f)
<1> DEFINE T == {m \in Nat : ~\E f : Doubles(m, f)}
<1> SUFFICES ASSUME n \in T PROVE FALSE
  BY Zenon
<1>2. PICK m \in T : \A j \in T : ~(j < m)
  BY LeastNumber, Zenon
<1>3. m \in Nat /\ ~\E f : Doubles(m, f)
  BY <1>2, Zenon
<1>4. m # 0
  <2>1. PICK f : f = [k \in 0 .. 0 |-> 1]
    BY Zenon
  <2>2. Doubles(0, f)
    BY <2>1 DEF Doubles
  <2> QED
    BY <1>3, <2>2, Zenon
<1>5. m - 1 \in Nat /\ m - 1 < m
  BY <1>3, <1>4
<1>6. PICK f : Doubles(m - 1, f)
  BY <1>2, <1>5, ZenonT(60)
<1>7. PICK g : g = [k \in 0 .. m |-> IF k = m THEN 2 * f[m - 1] ELSE f[k]]
  BY ZenonT(60)
<1>8. f[m - 1] \in Nat \ {0} /\ 2 * f[m - 1] \in Nat \ {0}
  BY <1>5, <1>6 DEF Doubles
<1>9. \A k \in 0 .. m : k # m => k \in 0 .. (m - 1)
  BY <1>3
<1>10. g \in [0 .. m -> Nat \ {0}]
  BY <1>6, <1>7, <1>8, <1>9, ZenonT(60) DEF Doubles
<1>11. g[0] = 1
  <2>1. 0 \in 0 .. m
    BY <1>3
  <2> QED
    BY <1>4, <1>6, <1>7, <2>1, ZenonT(60) DEF Doubles
<1>12. ASSUME NEW k \in 1 .. m PROVE g[k] = 2 * g[k - 1]
  <2>1. k \in 0 .. m /\ k - 1 \in 0 .. m /\ k - 1 # m /\ (k # m => k \in 1 .. (m - 1))
    BY <1>3
  <2>2. g[k - 1] = f[k - 1]
    BY <1>7, <2>1, Zenon
  <2>3. CASE k = m
    BY <1>7, <2>1, <2>2, <2>3, ZenonT(60)
  <2>4. CASE k # m
    BY <1>6, <1>7, <2>1, <2>2, <2>4, ZenonT(60) DEF Doubles
  <2> QED
    BY <2>3, <2>4, ZenonT(60)
<1> QED
  BY <1>3, <1>10, <1>11, <1>12, ZenonT(60) DEF Doubles

\* The factor of connectWithBackoff is a positive number.
LEMMA Pow2Positive == \A k \in 0 .. MaxAttempts : Pow2[k] \in Nat \ {0}
<1>0. MaxAttempts \in Nat
  BY BootstrapAssumption, Zenon
<1>1. PICK f : Doubles(MaxAttempts, f)
  BY <1>0, DoublesExists, ZenonT(60)
<1>2. \A k \in 0 .. MaxAttempts : k # 0 => k \in 1 .. MaxAttempts
  BY <1>0
<1>3. \A k \in 0 .. MaxAttempts : f[k] = IF k = 0 THEN 1 ELSE 2 * f[k - 1]
  BY <1>1, <1>2, Zenon DEF Doubles
<1>4. f = [k \in 0 .. MaxAttempts |-> IF k = 0 THEN 1 ELSE 2 * f[k - 1]]
  BY <1>1, <1>3, Zenon DEF Doubles
<1>5. Pow2 = [k \in 0 .. MaxAttempts |-> IF k = 0 THEN 1 ELSE 2 * Pow2[k - 1]]
  BY <1>4, Zenon DEF Pow2
<1>6. \A k \in 0 .. MaxAttempts : Pow2[k] = IF k = 0 THEN 1 ELSE 2 * Pow2[k - 1]
  BY <1>5, Zenon
<1> DEFINE T == {k \in 0 .. MaxAttempts : Pow2[k] \notin Nat \ {0}}
<1> SUFFICES ASSUME T # {} PROVE FALSE
  BY Zenon
<1>7. T \subseteq Nat
  BY <1>0
<1>8. PICK k \in T : \A j \in T : ~(j < k)
  BY <1>7, LeastNumber, Zenon
<1>9. k \in 0 .. MaxAttempts /\ Pow2[k] \notin Nat \ {0}
  BY <1>8, ZenonT(60)
<1>10. k # 0
  BY <1>6, <1>9, SMTT(60)
<1>11. k - 1 \in 0 .. MaxAttempts /\ k - 1 < k
  BY <1>0, <1>9, <1>10, SMTT(60)
<1>12. Pow2[k - 1] \in Nat \ {0}
  BY <1>8, <1>11, ZenonT(60)
<1>13. Pow2[k] = 2 * Pow2[k - 1]
  BY <1>6, <1>9, <1>10, ZenonT(60)
<1> QED
  BY <1>9, <1>12, <1>13, SMTT(60)

\* The product of an interval that is set and a factor is positive.
LEMMA ProductPositive ==
  ASSUME BootTypeOK, NEW p \in Peers, NEW n \in 1 .. MaxAttempts, interval[p] # 0
  PROVE  Product(p, n) \in Nat \ {0}
<1>1. interval[p] \in Nat \ {0}
  BY Zenon DEF BootTypeOK
<1>2. Pow2[n - 1] \in Nat \ {0}
  <2>1. n - 1 \in 0 .. MaxAttempts
    BY BootstrapAssumption
  <2> QED
    BY <2>1, Pow2Positive, ZenonT(60)
<1>3. \A x, y \in Nat \ {0} : x * y \in Nat \ {0}
  OBVIOUS
<1> QED
  BY <1>1, <1>2, <1>3, ZenonT(60) DEF Product

\* What BackoffHolds says of one peer.
Waits(p) ==
    loop[p] = "wait" =>
        /\ backoff[p] <= MaxInterval
        /\ \/ backoff[p] > 0
           \/ retry = 0 /\ interval[p] = 0
           \/ Product(p, attempt[p]) > MaxDuration

\* A step of the goroutine of p leaves the others alone.
OnlyAt(p) ==
    /\ \A q \in Peers \ {p} : /\ loop'[q] = loop[q] /\ attempt'[q] = attempt[q]
                              /\ interval'[q] = interval[q] /\ backoff'[q] = backoff[q]
    /\ retry' = retry

\* It is enough to look at the peer of the goroutine that takes a step.
LEMMA OnePeerMoves ==
  ASSUME BootInv, BootTypeOK', NEW p \in Peers, OnlyAt(p),
         interval'[p] = 0 => retry = 0, Waits(p)'
  PROVE  BootInv'
<1>1. IntervalSet'
  BY Zenon DEF OnlyAt, BootInv, IntervalSet
<1>2. ASSUME NEW q \in Peers PROVE Waits(q)'
  <2>1. CASE q = p
    BY <2>1, Zenon
  <2>2. CASE q # p
    <3>1. Waits(q)
      BY Zenon DEF BootInv, BackoffHolds, Waits
    <3> QED
      BY <2>2, <3>1, ZenonT(60) DEF OnlyAt, Waits, Product
  <2> QED
    BY <2>1, <2>2, ZenonT(60)
<1>3. BackoffHolds'
  BY <1>2, ZenonT(60) DEF BackoffHolds, Waits
<1> QED
  BY <1>1, <1>3, ZenonT(60) DEF BootInv

\* A failed attempt is followed by a wait, however many there were before.
LEMMA ConnectFailsKeeps == ASSUME BootInv, NEW p \in Peers, ConnectFails(p) PROVE BootInv'
<1> DEFINE n == IF attempt[p] < MaxAttempts THEN attempt[p] + 1 ELSE MaxAttempts
<1>0. n \in 1 .. MaxAttempts /\ n \in 0 .. MaxAttempts
  BY BootstrapAssumption DEF BootInv, BootTypeOK
<1>1. PICK d \in Durations(Product(p, n)) : backoff' = [backoff EXCEPT ![p] = Capped(d)]
  BY Zenon DEF ConnectFails
<1>2. /\ loop' = [loop EXCEPT ![p] = "wait"] /\ attempt' = [attempt EXCEPT ![p] = n]
      /\ retry' = retry /\ interval' = interval /\ connected' = connected /\ waiter' = waiter
      /\ bctx' = bctx /\ up' = up
  BY Zenon DEF ConnectFails
<1> HIDE DEF n
<1>3. Product(p, n) \in Int
  <2>1. CASE interval[p] # 0
    BY <1>0, <2>1, ProductPositive, SMTT(60) DEF BootInv
  <2>2. CASE interval[p] = 0
    <3>1. n - 1 \in 0 .. MaxAttempts
      BY <1>0, BootstrapAssumption, SMTT(60)
    <3>2. Pow2[n - 1] \in Nat
      BY <3>1, Pow2Positive, ZenonT(60)
    <3> QED
      BY <2>2, <3>2, SMTT(60) DEF Product
  <2> QED
    BY <2>1, <2>2, ZenonT(60)
<1>4. d \in Int /\ (Product(p, n) <= MaxDuration => d = Product(p, n))
  BY <1>3, BootstrapAssumption, SMTT(60) DEF Durations
<1>5. /\ Capped(d) \in Int /\ Capped(d) <= MaxInterval
      /\ d > 0 => Capped(d) > 0
  BY <1>4, BootstrapAssumption DEF Capped
<1>6. BootTypeOK'
  <2>1. /\ loop' \in [Peers -> {"off", "dial", "wait", "monitor", "ended"}]
        /\ attempt' \in [Peers -> 0 .. MaxAttempts] /\ backoff' \in [Peers -> Int]
    BY <1>0, <1>1, <1>2, <1>5, Zenon DEF BootInv, BootTypeOK
  <2>2. UNCHANGED <<peers, retry, interval, connected, waiter, bctx, up>>
    BY Zenon DEF ConnectFails
  <2> QED
    BY <2>1, <2>2, Zenon DEF BootInv, BootTypeOK
<1>7. OnlyAt(p)
  BY <1>1, <1>2, ZenonT(60) DEF OnlyAt, BootInv, BootTypeOK
<1>8. backoff'[p] = Capped(d) /\ attempt'[p] = n /\ interval'[p] = interval[p]
  BY <1>1, <1>2, ZenonT(60) DEF BootInv, BootTypeOK
<1>9. Waits(p)'
  <2>1. CASE interval[p] = 0
    BY <1>2, <1>5, <1>8, <2>1, ZenonT(60) DEF Waits, BootInv, IntervalSet
  <2>2. CASE Product(p, n) > MaxDuration
    BY <1>2, <1>5, <1>8, <2>2, ZenonT(60) DEF Waits, Product
  <2>3. CASE interval[p] # 0 /\ Product(p, n) <= MaxDuration
    <3>1. d > 0
      BY <1>0, <1>4, <2>3, ProductPositive, SMTT(60) DEF BootInv
    <3> QED
      BY <1>5, <1>8, <3>1, ZenonT(60) DEF Waits
  <2> QED
    BY <1>3, <2>1, <2>2, <2>3, BootstrapAssumption, SMTT(60)
<1> QED
  BY <1>2, <1>6, <1>7, <1>8, <1>9, OnePeerMoves, ZenonT(60) DEF BootInv, IntervalSet

\* The other steps of connectWithBackoff and monitorConnection end where there is
\* no wait.
LEMMA LoopKeeps ==
  ASSUME BootInv, NEW p \in Peers,
         ConnectOK(p) \/ BackoffOver(p) \/ ConnectionLost(p) \/ LoopEnds(p)
  PROVE  BootInv'
<1>1. BootTypeOK'
  <2>1. CASE ConnectOK(p)
    BY <2>1, ZenonT(60) DEF ConnectOK, BootInv, BootTypeOK
  <2>2. CASE BackoffOver(p)
    BY <2>2 DEF BackoffOver, BootInv, BootTypeOK
  <2>r. retry \in Nat
    BY BootstrapAssumption, ZenonT(60) DEF BootInv, BootTypeOK
  <2>m. 0 \in 0 .. MaxAttempts
    BY BootstrapAssumption
  <2>3. CASE ConnectionLost(p)
    BY <2>3, <2>r, <2>m, ZenonT(60) DEF ConnectionLost, BootInv, BootTypeOK
  <2>4. CASE LoopEnds(p)
    BY <2>4, <2>r, <2>m, SMTT(60) DEF LoopEnds, BootInv, BootTypeOK
  <2> QED
    BY <2>1, <2>2, <2>3, <2>4, ZenonT(60)
<1>2. OnlyAt(p)
  BY ZenonT(60) DEF OnlyAt, ConnectOK, BackoffOver, ConnectionLost, LoopEnds, BootInv, BootTypeOK
<1>3. loop'[p] # "wait" /\ interval'[p] \in {interval[p], retry}
  BY Zenon DEF ConnectOK, BackoffOver, ConnectionLost, LoopEnds, BootInv, BootTypeOK
<1>4. interval'[p] = 0 => retry = 0
  BY <1>3, Zenon DEF BootInv, IntervalSet
<1>5. Waits(p)'
  BY <1>3, Zenon DEF Waits
<1> QED
  BY <1>1, <1>2, <1>4, <1>5, OnePeerMoves, ZenonT(60)

\* A step that leaves the variables of connectWithBackoff alone keeps what is said
\* of them.
LEMMA QuietKeeps ==
  ASSUME BootInv, BootTypeOK', UNCHANGED <<retry, loop, attempt, interval, backoff>>
  PROVE  BootInv'
<1>1. IntervalSet'
  BY Zenon DEF BootInv, IntervalSet
<1>2. BackoffHolds'
  BY Zenon DEF BootInv, BackoffHolds, Product
<1> QED
  BY <1>1, <1>2, ZenonT(60) DEF BootInv

\* Every step of the bootstrapper and of the network keeps the invariant.
LEMMA BootNextKeeps == ASSUME BootInv, BootNext PROVE BootInv'
<1>1. ASSUME NEW p \in Peers, LoopStep(p) PROVE BootInv'
  BY <1>1, ConnectFailsKeeps, LoopKeeps, ZenonT(60) DEF LoopStep
<1>2. ASSUME NEW p \in Peers, PeerFlips(p) PROVE BootInv'
  <2>1. BootTypeOK'
    BY <1>2, ZenonT(60) DEF PeerFlips, BootInv, BootTypeOK
  <2> QED
    BY <1>2, <2>1, QuietKeeps, ZenonT(60) DEF PeerFlips
<1>3. CASE WaitForMinPeers
  <2>1. BootTypeOK'
    BY <1>3, ZenonT(60) DEF WaitForMinPeers, BootInv, BootTypeOK
  <2> QED
    BY <1>3, <2>1, QuietKeeps, ZenonT(60) DEF WaitForMinPeers
<1> QED
  BY <1>1, <1>2, <1>3, ZenonT(60) DEF BootNext

\* Bootstrapper.Start and Stop keep the invariant.
LEMMA BootCallsKeep == ASSUME BootInv, BootStart \/ BootCancel PROVE BootInv'
<1>1. CASE BootStart
  <2>1. BootTypeOK'
    BY <1>1, ZenonT(60) DEF BootStart, BootInv, BootTypeOK
  <2>2. IntervalSet'
    BY <1>1, Zenon DEF BootStart, BootInv, IntervalSet
  <2>3. BackoffHolds'
    BY <1>1, Zenon DEF BootStart, BackoffHolds
  <2> QED
    BY <2>1, <2>2, <2>3, ZenonT(60) DEF BootInv
<1>2. CASE BootCancel
  <2>1. BootTypeOK'
    BY <1>2, Zenon DEF BootCancel, BootInv, BootTypeOK
  <2> QED
    BY <1>2, <2>1, QuietKeeps, ZenonT(60) DEF BootCancel
<1> QED
  BY <1>1, <1>2, ZenonT(60)

\* A step of the others leaves the bootstrapper alone.
LEMMA BootStays == ASSUME BootInv, bootVars' = bootVars PROVE BootInv'
<1>1. BootTypeOK'
  BY Zenon DEF BootInv, BootTypeOK, bootVars
<1> QED
  BY <1>1, QuietKeeps, ZenonT(60) DEF bootVars

-----------------------------------------------------------------------------

\* Every step of Start keeps the invariant.
LEMMA StartStepKeeps == ASSUME DaemonInv, StartStep PROVE DaemonInv'
<1>0. MainInv /\ BootInv /\ (BootInv' => BootTypeOK')
  BY Zenon DEF DaemonInv, BootInv
<1>1. CASE WritePIDFile
  <2>1. BootInv'
    BY <1>0, <1>1, BootStays, ZenonT(60) DEF WritePIDFile
  <2> QED
    BY <1>0, <1>1, <2>1, PIDFileKeeps, ZenonT(60) DEF DaemonInv
<1>2. CASE LoadIdentity
  <2>1. BootInv'
    BY <1>0, <1>2, BootStays, ZenonT(60) DEF LoadIdentity
  <2> QED
    BY <1>0, <1>2, <2>1, IdentityKeeps, ZenonT(60) DEF DaemonInv
<1>3. CASE InitCertificates
  <2>1. BootInv'
    BY <1>0, <1>3, BootStays, ZenonT(60) DEF InitCertificates
  <2> QED
    BY <1>0, <1>3, <2>1, CertificatesKeep, ZenonT(60) DEF DaemonInv
<1>4. CASE StartStorage
  <2>1. BootInv'
    BY <1>0, <1>4, BootStays, ZenonT(60) DEF StartStorage
  <2> QED
    BY <1>0, <1>4, <2>1, StorageKeeps, ZenonT(60) DEF DaemonInv
<1>5. CASE NewHost
  <2>1. BootInv'
    BY <1>0, <1>5, BootStays, ZenonT(60) DEF NewHost
  <2> QED
    BY <1>0, <1>5, <2>1, HostKeeps, ZenonT(60) DEF DaemonInv
<1>6. CASE NewDiscovery
  <2>1. BootInv'
    BY <1>0, <1>6, BootStays, ZenonT(60) DEF NewDiscovery
  <2> QED
    BY <1>0, <1>6, <2>1, DiscoveryKeeps, ZenonT(60) DEF DaemonInv
<1>7. CASE DiscoveryDHT
  <2>1. BootInv'
    BY <1>0, <1>7, BootStays, ZenonT(60) DEF DiscoveryDHT
  <2> QED
    BY <1>0, <1>7, <2>1, DHTKeeps, ZenonT(60) DEF DaemonInv
<1>8. CASE StartMode
  <2>1. BootInv'
    BY <1>0, <1>8, BootStays, ZenonT(60) DEF StartMode
  <2> QED
    BY <1>0, <1>8, <2>1, ModeKeeps, ZenonT(60) DEF DaemonInv
<1>9. CASE StartCluster
  <2>1. BootInv'
    BY <1>0, <1>9, BootStays, ZenonT(60) DEF StartCluster
  <2> QED
    BY <1>0, <1>9, <2>1, ClusterKeeps, ZenonT(60) DEF DaemonInv
<1>10. CASE WaitForStorageReady
  <2>1. BootInv'
    BY <1>0, <1>10, BootStays, ZenonT(60) DEF WaitForStorageReady
  <2> QED
    BY <1>0, <1>10, <2>1, ReadyKeeps, ZenonT(60) DEF DaemonInv
<1>11. CASE StartTCPListener
  <2>1. BootInv'
    BY <1>0, <1>11, BootStays, ZenonT(60) DEF StartTCPListener
  <2> QED
    BY <1>0, <1>11, <2>1, TCPKeeps, ZenonT(60) DEF DaemonInv
<1>12. CASE StartPipeListener
  <2>1. BootInv'
    BY <1>0, <1>12, BootStays, ZenonT(60) DEF StartPipeListener
  <2> QED
    BY <1>0, <1>12, <2>1, PipeKeeps, ZenonT(60) DEF DaemonInv
<1>13. CASE StartSSH
  <2>1. BootInv'
    BY <1>0, <1>13, BootStays, ZenonT(60) DEF StartSSH
  <2> QED
    BY <1>0, <1>13, <2>1, SSHKeeps, ZenonT(60) DEF DaemonInv
<1>14. CASE DiscoveryStart
  <2>1. BootInv'
    BY <1>0, <1>14, BootStays, BootCallsKeep, ZenonT(60) DEF DiscoveryStart
  <2> QED
    BY <1>0, <1>14, <2>1, DiscoveryStartKeeps, ZenonT(60) DEF DaemonInv
<1> QED
  BY <1>1, <1>2, <1>3, <1>4, <1>5, <1>6, <1>7, <1>8, <1>9, <1>10, <1>11, <1>12,
     <1>13, <1>14, ZenonT(60) DEF StartStep

\* Every step of Stop and of a roll-back keeps the invariant.
LEMMA StopStepKeeps == ASSUME DaemonInv, StopStep PROVE DaemonInv'
<1>0. MainInv /\ BootInv /\ (BootInv' => BootTypeOK')
  BY Zenon DEF DaemonInv, BootInv
<1>1. CASE Skip
  <2>1. BootInv'
    BY <1>0, <1>1, BootStays, ZenonT(60) DEF Skip
  <2> QED
    BY <1>0, <1>1, <2>1, SkipKeeps, ZenonT(60) DEF DaemonInv
<1>2. CASE StopSSH
  <2>1. BootInv'
    BY <1>0, <1>2, BootStays, ZenonT(60) DEF StopSSH
  <2> QED
    BY <1>0, <1>2, <2>1, StopSSHKeeps, ZenonT(60) DEF DaemonInv
<1>3. CASE GracefulStop
  <2>1. BootInv'
    BY <1>0, <1>3, BootStays, ZenonT(60) DEF GracefulStop
  <2> QED
    BY <1>0, <1>3, <2>1, GracefulKeeps, ZenonT(60) DEF DaemonInv
<1>4. CASE Drain
  <2>1. BootInv'
    BY <1>0, <1>4, BootStays, ZenonT(60) DEF Drain
  <2> QED
    BY <1>0, <1>4, <2>1, DrainKeeps, ZenonT(60) DEF DaemonInv
<1>5. CASE CloseListeners
  <2>1. BootInv'
    BY <1>0, <1>5, BootStays, ZenonT(60) DEF CloseListeners
  <2> QED
    BY <1>0, <1>5, <2>1, CloseKeeps, ZenonT(60) DEF DaemonInv
<1>6. CASE StopCluster
  <2>1. BootInv'
    BY <1>0, <1>6, BootStays, ZenonT(60) DEF StopCluster
  <2> QED
    BY <1>0, <1>6, <2>1, StopClusterKeeps, ZenonT(60) DEF DaemonInv
<1>7. CASE StopMode
  <2>1. BootInv'
    BY <1>0, <1>7, BootStays, ZenonT(60) DEF StopMode
  <2> QED
    BY <1>0, <1>7, <2>1, StopModeKeeps, ZenonT(60) DEF DaemonInv
<1>8. CASE DiscoveryCancel
  <2>1. BootInv'
    BY <1>0, <1>8, BootStays, ZenonT(60) DEF DiscoveryCancel
  <2> QED
    BY <1>0, <1>8, <2>1, DiscoveryCancelKeeps, ZenonT(60) DEF DaemonInv
<1>9. CASE DiscoveryWait
  <2>1. BootInv'
    BY <1>0, <1>9, BootStays, ZenonT(60) DEF DiscoveryWait
  <2> QED
    BY <1>0, <1>9, <2>1, DiscoveryWaitKeeps, ZenonT(60) DEF DaemonInv
<1>10. CASE BootstrapperWait
  <2>1. BootInv'
    BY <1>0, <1>10, BootStays, ZenonT(60) DEF BootstrapperWait
  <2> QED
    BY <1>0, <1>10, <2>1, BootstrapperWaitKeeps, ZenonT(60) DEF DaemonInv
<1>11. CASE DiscoveryClose
  <2>1. BootInv'
    BY <1>0, <1>11, BootStays, ZenonT(60) DEF DiscoveryClose
  <2> QED
    BY <1>0, <1>11, <2>1, DiscoveryCloseKeeps, ZenonT(60) DEF DaemonInv
<1>12. CASE StopHost
  <2>1. BootInv'
    BY <1>0, <1>12, BootStays, ZenonT(60) DEF StopHost
  <2> QED
    BY <1>0, <1>12, <2>1, StopHostKeeps, ZenonT(60) DEF DaemonInv
<1>13. CASE StopStore
  <2>1. BootInv'
    BY <1>0, <1>13, BootStays, ZenonT(60) DEF StopStore
  <2> QED
    BY <1>0, <1>13, <2>1, StopStoreKeeps, ZenonT(60) DEF DaemonInv
<1>14. CASE StopPostgres
  <2>1. BootInv'
    BY <1>0, <1>14, BootStays, ZenonT(60) DEF StopPostgres
  <2> QED
    BY <1>0, <1>14, <2>1, StopPostgresKeeps, ZenonT(60) DEF DaemonInv
<1>15. CASE StopCertificates
  <2>1. BootInv'
    BY <1>0, <1>15, BootStays, ZenonT(60) DEF StopCertificates
  <2> QED
    BY <1>0, <1>15, <2>1, StopCertificatesKeeps, ZenonT(60) DEF DaemonInv
<1>16. CASE RemovePIDFile
  <2>1. BootInv'
    BY <1>0, <1>16, BootStays, ZenonT(60) DEF RemovePIDFile
  <2> QED
    BY <1>0, <1>16, <2>1, RemovePIDFileKeeps, ZenonT(60) DEF DaemonInv
<1>17. CASE BootstrapperCancel
  <2>1. BootInv'
    BY <1>0, <1>17, BootStays, BootCallsKeep, ZenonT(60) DEF BootstrapperCancel
  <2> QED
    BY <1>0, <1>17, <2>1, BootstrapperCancelKeeps, ZenonT(60) DEF DaemonInv
<1> QED
  BY <1>1, <1>2, <1>3, <1>4, <1>5, <1>6, <1>7, <1>8, <1>9, <1>10, <1>11, <1>12,
     <1>13, <1>14, <1>15, <1>16, <1>17, ZenonT(60) DEF StopStep

\* Every step of the daemon, its clients, its goroutines and the network keeps
\* the invariant.
LEMMA DaemonStepKeeps == DaemonInv /\ [DaemonNext]_lifeVars => DaemonInv'
<1> SUFFICES ASSUME DaemonInv, [DaemonNext]_lifeVars PROVE DaemonInv'
  BY Zenon
<1>0. MainInv /\ BootInv /\ (BootInv' => BootTypeOK')
  BY Zenon DEF DaemonInv, BootInv
<1>1. CASE StartStep
  BY <1>1, StartStepKeeps, ZenonT(60)
<1>2. CASE StopStep
  BY <1>2, StopStepKeeps, ZenonT(60)
<1>3. CASE Signal
  <2>1. BootInv'
    BY <1>0, <1>3, BootStays, Zenon DEF Signal
  <2> QED
    BY <1>0, <1>3, <2>1, DaemonSignalKeeps, ZenonT(60) DEF DaemonInv
<1>4. CASE Expire
  <2>1. BootInv'
    BY <1>0, <1>4, BootStays, Zenon DEF Expire
  <2> QED
    BY <1>0, <1>4, <2>1, ExpireKeeps, ZenonT(60) DEF DaemonInv
<1>5. ASSUME NEW k \in {"tcp", "unix"}, Connect(k) PROVE DaemonInv'
  <2>1. BootInv'
    BY <1>0, <1>5, BootStays, Zenon DEF Connect
  <2> QED
    BY <1>0, <1>5, <2>1, ConnectKeeps, ZenonT(60) DEF DaemonInv
<1>6. ASSUME NEW k \in {"tcp", "unix", "ssh"}, CallBegins(k) PROVE DaemonInv'
  <2>1. BootInv'
    BY <1>0, <1>6, BootStays, ZenonT(60) DEF CallBegins
  <2> QED
    BY <1>0, <1>6, <2>1, CallBeginsKeeps, ZenonT(60) DEF DaemonInv
<1>7. ASSUME NEW k \in {"tcp", "unix", "ssh", "cut"}, CallEnds(k) PROVE DaemonInv'
  <2>1. BootInv'
    BY <1>0, <1>7, BootStays, ZenonT(60) DEF CallEnds
  <2> QED
    BY <1>0, <1>7, <2>1, CallEndsKeeps, ZenonT(60) DEF DaemonInv
<1>8. CASE HealthCheckFails \/ HandleHealthFailure
  <2>1. BootInv'
    BY <1>0, <1>8, BootStays, ZenonT(60) DEF HealthCheckFails, HandleHealthFailure
  <2> QED
    BY <1>0, <1>8, <2>1, HealthKeeps, ZenonT(60) DEF DaemonInv
<1>9. ASSUME BootInv', daemonVars' = daemonVars, serveVars' = serveVars, health' = health
      PROVE  DaemonInv'
  <2>1. conns' = conns /\ calls' = calls
    BY <1>9, Zenon DEF serveVars
  <2>2. conns' \subseteq {"tcp", "unix"} /\ calls' \subseteq {"tcp", "unix", "ssh", "cut"}
    BY <1>0, <2>1, ZenonT(60) DEF MainInv, DaemonTypeOK
  <2>3. Served'
    BY <1>0, <1>9, <2>1 DEF MainInv, Served, daemonVars
  <2> QED
    BY <1>0, <1>9, <2>2, <2>3, ClientKeeps, ZenonT(60) DEF DaemonInv
<1>10. CASE BootNext /\ UNCHANGED <<daemonVars, serveVars, health>>
  BY <1>0, <1>9, <1>10, BootNextKeeps, ZenonT(60)
<1>11. CASE UNCHANGED lifeVars
  BY <1>0, <1>9, <1>11, BootStays, ZenonT(60) DEF lifeVars
<1> QED
  BY <1>1, <1>2, <1>3, <1>4, <1>5, <1>6, <1>7, <1>8, <1>10, <1>11, ZenonT(60) DEF DaemonNext

\* The invariant holds of a new daemon.
LEMMA DaemonInitInv == DaemonInit => DaemonInv
<1> SUFFICES ASSUME DaemonInit PROVE DaemonInv
  BY Zenon
<1>1. BootInv
  <2>1. interval \in [Peers -> Nat \ {0}]
    BY BootstrapAssumption, ZenonT(60) DEF DaemonInit, BootInit
  <2>2. 0 \in 0 .. MaxAttempts
    BY BootstrapAssumption
  <2>3. interval \in [Peers -> Nat]
    BY BootstrapAssumption, ZenonT(60) DEF DaemonInit, BootInit
  <2>4. /\ loop \in [Peers -> {"off", "dial", "wait", "monitor", "ended"}]
        /\ attempt \in [Peers -> 0 .. MaxAttempts] /\ backoff \in [Peers -> Int]
    BY <2>2 DEF DaemonInit, BootInit
  <2>5. /\ peers \subseteq Peers /\ retry \in RetryIntervals /\ connected \subseteq Peers /\ up \subseteq Peers
        /\ waiter \in {"off", "waiting", "done"} /\ bctx \in BOOLEAN
    BY Zenon DEF DaemonInit, BootInit
  <2>6. BootTypeOK
    BY <2>3, <2>4, <2>5, ZenonT(60) DEF BootTypeOK
  <2>7. IntervalSet
    BY <2>1, Zenon DEF IntervalSet
  <2>8. BackoffHolds
    BY Zenon DEF DaemonInit, BootInit, BackoffHolds
  <2> QED
    BY <2>6, <2>7, <2>8, ZenonT(60) DEF BootInv
<1>2. DaemonTypeOK
  BY <1>1, Zenon DEF DaemonInit, DaemonTypeOK, BootInv, StartSteps
<1>3. LiveInOrder /\ Backed /\ Served /\ FailedExit
  BY Zenon DEF DaemonInit, LiveInOrder, Backed, Served, FailedExit
<1> QED
  BY <1>1, <1>2, <1>3, ZenonT(60) DEF DaemonInv, MainInv

\* The invariant holds of every behaviour of the daemon.
LEMMA DaemonInvariant == DaemonSpec => []DaemonInv
<1> QED
  BY DaemonInitInv, DaemonStepKeeps, PTL DEF DaemonSpec

\* The variables of the daemon, its servers and its bootstrapper have the values
\* their declarations say, for any peers and any set of configurations.
THEOREM DaemonTypeCorrect == DaemonSpec => []DaemonTypeOK
<1>1. DaemonInv => DaemonTypeOK
  BY Zenon DEF DaemonInv, MainInv
<1> QED
  BY <1>1, DaemonInvariant, PTL

\* Between two attempts of connectWithBackoff to reach a peer there is a wait of
\* at most MaxInterval, except in the two cases that BackoffHolds names.
THEOREM BackoffKept == DaemonSpec => []BackoffHolds
<1>1. DaemonInv => BackoffHolds
  BY Zenon DEF DaemonInv, BootInv
<1> QED
  BY <1>1, DaemonInvariant, PTL

\* Stop and every roll-back of Start close the store after what uses it.
THEOREM StoreOutlives == DaemonSpec => []StoreOutlivesUsers
<1>1. DaemonInv => StoreOutlivesUsers
  <2> SUFFICES ASSUME DaemonInv, at \in {"pgStop", "certsStop", "pidStop"} \cup Exits
               PROVE  /\ live \cap {"ssh", "tcp", "unix", "mode", "disc", "host"} = {}
                      /\ "cluster" \in live => "cluster" \in orphan
                      /\ "ssh" \in calls => expired
                      /\ "cut" \in calls => late
                      /\ "tcp" \in calls => "calls" \in orphan
    BY Zenon DEF StoreOutlivesUsers
  <2>1. MayLive[at] \subseteq {"pid", "certs", "pg"}
    <3>1. /\ MayLive["pgStop"] = {"pid", "certs", "pg"} /\ MayLive["certsStop"] = {"pid", "certs"}
          /\ MayLive["pidStop"] = {"pid"} /\ MayLive["exit0"] = {} /\ MayLive["exit1"] = {"pid"}
      BY Zenon DEF MayLive
    <3> QED
      BY <3>1, Zenon DEF Exits
  <2>2. live \subseteq {"pid", "certs", "pg"} \cup orphan /\ orphan \subseteq {"pg", "k8s", "cluster", "calls", "pid"}
    BY <2>1, ZenonT(60) DEF DaemonInv, MainInv, LiveInOrder, DaemonTypeOK
  <2>3. at \notin {"running", "sshStop", "grpcDrain"}
    BY Zenon DEF Exits
  <2>4. live \cap {"ssh", "tcp", "unix", "mode", "disc", "host"} = {}
    BY <2>2, Zenon
  <2>5. "cluster" \in live => "cluster" \in orphan
    BY <2>2, Zenon
  <2>6. /\ "ssh" \in calls => expired
        /\ "cut" \in calls => late
        /\ "tcp" \in calls => "calls" \in orphan
    BY <2>3, <2>4, ZenonT(60) DEF DaemonInv, MainInv, Served
  <2> QED
    BY <2>4, <2>5, <2>6, ZenonT(60)
<1> QED
  BY <1>1, DaemonInvariant, PTL

\* When the process ends, after Stop or after the roll-back of a Start that failed
\* at any step, nothing is left but what Released names.
THEOREM AllReleased == DaemonSpec => []Released
<1>1. DaemonInv => Released
  <2>1. MayLive["exit0"] = {} /\ MayLive["exit1"] = {"pid"}
    BY Zenon DEF MayLive
  <2> QED
    BY <2>1, Zenon DEF DaemonInv, MainInv, LiveInOrder, FailedExit, Released, Exits
<1> QED
  BY <1>1, DaemonInvariant, PTL

\* At every step of Start, Stop and a roll-back, what exists is what that step
\* expects, or was left behind by an error, and the daemon has the pointer with
\* which it is stopped: the stop steps, which do nothing without one, miss nothing.
THEOREM NothingForgotten == DaemonSpec => [](LiveInOrder /\ Backed)
<1>1. DaemonInv => LiveInOrder /\ Backed
  BY Zenon DEF DaemonInv, MainInv
<1> QED
  BY <1>1, DaemonInvariant, PTL
=============================================================================
