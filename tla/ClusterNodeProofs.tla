------------------------- MODULE ClusterNodeProofs --------------------------
(***************************************************************************)
(* Proofs about ClusterNode: the cache has nothing that the tables have    *)
(* not, compaction loses no command, a node founds one cluster, and a      *)
(* snapshot has every command up to its index.                             *)
(***************************************************************************)
EXTENDS ClusterNode, FiniteSetTheorems, TLAPS

\* Some snapshot that is listed goes as far as i.
Covered(i) == \E s \in row : at[s] >= i

\* Every clean-up belongs to a snapshot.
CleaningInv == cleaning <= snaps

\* Only a node without members is bootstrapped, and it has one then.
BootInv == boots \in {0, 1} /\ (boots = 1 => member)

\* What LogCovered needs: a TakeSnapshot that is about to compact the log up to
\* its index has a snapshot that goes as far, its own or one that was kept instead.
CoverInv ==
    hollow \/ /\ row \subseteq file
              /\ \A i \in 1 .. last : i \in log \/ Covered(i)
              /\ \A t \in Takers : pc[t] = "compact" => Covered(seen[t])

IInv == TypeOK /\ CleaningInv /\ BootInv /\ CacheBacked /\ CoverInv

-----------------------------------------------------------------------------
(* Facts about the operators *)

LEMMA Numbers ==
    /\ MaxIndex \in Nat /\ MaxSnapshots \in Nat /\ TrailingLogs \in Nat
    /\ RetainCount \in Nat \ {0} /\ Word \in Nat \ {0}
  BY ClusterAssumption, ZenonT(60)

\* The ranges of the counters and of what they index.
LEMMA Ranges ==
    ASSUME TypeOK
    PROVE  /\ last \in Nat /\ last <= MaxIndex /\ \A i \in log : i \in 1 .. last
           /\ sent \in 0 .. last /\ arrived \in 0 .. last /\ applied \in 0 .. last
           /\ snaps \in Nat /\ snaps <= MaxSnapshots /\ cleaning \in Nat
           /\ \A s \in row : s \in 1 .. snaps
<1>1. \A s \in row : s \in 1 .. snaps
  BY Zenon DEF TypeOK
<1>2. \A i \in log : i \in 1 .. last
  BY Zenon DEF TypeOK
<1>3. last \in Index /\ snaps \in 0 .. MaxSnapshots /\ cleaning \in 0 .. MaxSnapshots
  BY Zenon DEF TypeOK
<1>4. sent \in 0 .. last /\ arrived \in 0 .. last /\ applied \in 0 .. last
  BY Zenon DEF TypeOK
<1> QED
  BY <1>1, <1>2, <1>3, <1>4, Numbers DEF Index

LEMMA RowIndex == ASSUME TypeOK, NEW s \in row PROVE s \in Ids /\ s # snaps + 1 /\ at[s] \in Nat
<1>1. s \in Ids /\ s # snaps + 1
  BY Ranges, Numbers DEF Ids
<1>2. at[s] \in Index
  BY <1>1, Zenon DEF TypeOK
<1> QED
  BY <1>1, <1>2, Numbers DEF Index

LEMMA EmptyType == Absent \in Value /\ Empty \in Contents
<1>1. 0 \in Index
  BY ClusterAssumption DEF Index
<1>2. Absent \in Value
  BY <1>1, Zenon DEF Absent, Value
<1> QED
  BY <1>2, Zenon DEF Empty, Contents

LEMMA ValueParts ==
    ASSUME NEW d \in Index, NEW s \in Index
    PROVE  [def |-> d, state |-> s] \in Value
  BY Zenon DEF Value

LEMMA EffectType ==
    ASSUME TypeOK, NEW c \in Contents, NEW i \in Indexes
    PROVE  /\ command[i].key \in Keys
           /\ Effect(c, i) \in Contents
           /\ \A k \in Keys : k # command[i].key => Effect(c, i)[k] = c[k]
<1> DEFINE key == command[i].key
           v == CASE command[i].op = "set" -> [def |-> i, state |-> i]
                  [] command[i].op = "delete" -> Absent
                  [] command[i].op = "assign" ->
                       IF c[key] = Absent THEN Absent ELSE [def |-> c[key].def, state |-> i]
<1>1. key \in Keys /\ command[i].op \in {"set", "delete", "assign"}
  <2>1. command[i] \in Commands
    BY Zenon DEF TypeOK
  <2>2. Jobs \subseteq Keys
    BY ClusterAssumption, Zenon
  <2> QED
    BY <2>1, <2>2, Zenon DEF Commands
<1>3. v \in Value
  <2>1. i \in Index
    BY Numbers DEF Index, Indexes
  <2>2. c[key] \in Value
    BY <1>1, Zenon DEF Contents
  <2>3. c[key].def \in Index
    BY <2>2, Zenon DEF Value
  <2>4. [def |-> i, state |-> i] \in Value /\ [def |-> c[key].def, state |-> i] \in Value
    BY <2>1, <2>3, ValueParts, Zenon
  <2> QED
    BY <1>1, <2>4, EmptyType, ZenonT(60)
<1>4. Effect(c, i) = [c EXCEPT ![key] = v]
  BY Zenon DEF Effect
<1> HIDE DEF key, v
<1>5. Effect(c, i) \in Contents /\ Effect(c, i)[key] = v
  BY <1>1, <1>3, <1>4, ZenonT(60) DEF Contents
<1>6. \A k \in Keys : k # key => Effect(c, i)[k] = c[k]
  BY <1>4, Zenon DEF Contents
<1> QED
  BY <1>1, <1>5, <1>6, ZenonT(60) DEF key

\* Storing a value of the right type leaves a row of the right type, and the part
\* of it that an update writes.
LEMMA UpsertType ==
    ASSUME TypeOK, NEW k \in Keys, NEW v \in Value
    PROVE  /\ Upsert(k, v) \in Value /\ Upsert(k, v).state = v.state
           /\ k \in Jobs \/ Upsert(k, v) = v
<1>1. table[k] \in Value
  BY Zenon DEF TypeOK, Contents
<1>2. table[k].def \in Index /\ v.state \in Index
  BY <1>1, Zenon DEF Value
<1>3. [def |-> table[k].def, state |-> v.state] \in Value
  BY <1>2, ValueParts, Zenon
<1>4. [def |-> table[k].def, state |-> v.state].state = v.state
  BY Zenon
<1> QED
  BY <1>3, <1>4, Zenon DEF Upsert

LEMMA StoredType ==
    ASSUME TypeOK, NEW i \in Indexes
    PROVE  /\ Stored(i) \in Contents
           /\ \A k \in Keys : k # command[i].key => Stored(i)[k] = table[k]
           /\ Stores(i) => Stored(i)[command[i].key]
                             = Upsert(command[i].key, Effect(cache, i)[command[i].key])
<1>1. /\ command[i].key \in Keys /\ Effect(cache, i) \in Contents
      /\ table \in Contents
  BY EffectType, ZenonT(60) DEF TypeOK
<1>2. PICK k \in Keys : k = command[i].key
  BY <1>1, Zenon
<1>3. PICK v \in Value : v = Effect(cache, i)[k]
  BY <1>1, <1>2, Zenon DEF Contents
<1>4. PICK u \in Value : u = Upsert(k, v)
  BY <1>2, <1>3, UpsertType, Zenon
<1>5. Stored(i) = IF Stores(i) THEN [table EXCEPT ![k] = u] ELSE table
  BY <1>2, <1>3, <1>4, Zenon DEF Stored
<1>6. [table EXCEPT ![k] = u] \in Contents /\ [table EXCEPT ![k] = u][k] = u
  BY <1>1, ZenonT(60) DEF Contents
<1>7. \A x \in Keys : x # k => [table EXCEPT ![k] = u][x] = table[x]
  BY <1>1, Zenon DEF Contents
<1> QED
  BY <1>1, <1>2, <1>3, <1>4, <1>5, <1>6, <1>7, ZenonT(60)

\* What DeleteRange deletes is not beyond the index, although the difference
\* wraps around.
LEMMA DeletedBelow == ASSUME TypeOK, NEW n \in Index PROVE \A i \in Deleted(n) : i \in log /\ i <= n
<1> DEFINE max == (n + Word - TrailingLogs) % Word
<1>1. n \in Nat /\ 2 * n < Word /\ TrailingLogs \in Nat /\ 2 * TrailingLogs < Word /\ Word \in Nat
  BY ClusterAssumption DEF Index
<1>2. 2 * max >= Word \/ max <= n
  <2>1. CASE n < TrailingLogs
    <3>1. n + Word - TrailingLogs \in 0 .. Word - 1
      BY <1>1, <2>1
    <3>2. max = n + Word - TrailingLogs
      BY <1>1, <3>1
    <3> QED
      BY <1>1, <2>1, <3>2
  <2>2. CASE n >= TrailingLogs
    <3>1. n - TrailingLogs \in 0 .. Word - 1
      BY <1>1, <2>2
    <3>2. max = n - TrailingLogs
      BY <1>1, <3>1
    <3> QED
      BY <1>1, <2>2, <3>2
  <2> QED
    BY <1>1, <2>1, <2>2
<1>3. max \in Nat
  BY <1>1
<1> HIDE DEF max
<1>4. Deleted(n) = IF 2 * max >= Word THEN {} ELSE {i \in log : i <= max}
  BY Zenon DEF Deleted, max
<1> SUFFICES ASSUME NEW i \in Deleted(n) PROVE i \in log /\ i <= n
  BY Zenon
<1>5. i \in log /\ i <= max /\ max <= n
  BY <1>2, <1>4, Zenon
<1>6. i \in Nat
  BY <1>5, Ranges
<1> QED
  BY <1>1, <1>3, <1>5, <1>6

LEMMA TypeInit == Init => TypeOK /\ CleaningInv
<1> SUFFICES ASSUME Init PROVE TypeOK /\ CleaningInv
  BY Zenon
<1> USE ClusterAssumption DEF Init
<1>1. command \in [Indexes -> Commands]
  <2>1. PICK k \in Keys : TRUE
    BY Zenon
  <2>2. [op |-> "set", key |-> k] \in Commands
    BY Zenon DEF Commands
  <2>3. (CHOOSE c \in Commands : TRUE) \in Commands
    BY <2>2, Zenon
  <2> QED
    BY <2>3, ZenonT(60)
<1>2. 0 \in Index /\ 0 \in 0 .. MaxSnapshots /\ 0 \in 0 .. last
  BY DEF Index
<1>3. content \in [Ids -> Contents] /\ data \in [Takers -> Contents] /\ at \in [Ids -> Index]
      /\ seen \in [Takers -> Index] /\ table \in Contents /\ cache \in Contents
  BY <1>2, EmptyType, ZenonT(60)
<1>4. {member, up, torn, hollow} \subseteq BOOLEAN /\ split \subseteq Keys
  BY Zenon
<1>5. cleaning = 0 /\ snaps = 0
  BY Zenon
<1> HIDE DEF Init
<1>6. CleaningInv
  BY <1>5, SMT DEF CleaningInv
<1> QED
  BY <1>1, <1>2, <1>3, <1>4, <1>6, ZenonT(60) DEF TypeOK, Init

-----------------------------------------------------------------------------
(* Types *)

\* The process starts or dies.
LEMMA TypeStart == ASSUME TypeOK, CleaningInv, Start \/ Crash PROVE TypeOK' /\ CleaningInv'
<1> USE ClusterAssumption DEF logVars, snapVars, nodeVars, fsmVars, takerVars
<1>1. CASE Start
  <2>1. {member', up', torn', hollow'} \subseteq BOOLEAN /\ boots' \in Nat
    <3>1. torn' \in BOOLEAN /\ hollow' = hollow
      BY <1>1, ZenonT(60) DEF Start
    <3>2. member \in BOOLEAN /\ hollow \in BOOLEAN /\ up \in BOOLEAN /\ boots \in Nat
      BY ZenonT(60) DEF TypeOK
    <3>3. up' \in BOOLEAN /\ member' \in BOOLEAN
      BY <1>1, <3>2, ZenonT(60) DEF Start
    <3>4. boots' = boots \/ boots' = boots + 1
      BY <1>1, ZenonT(60) DEF Start
    <3> QED
      BY <3>1, <3>2, <3>3, <3>4
  <2> QED
    BY <1>1, <2>1, ZenonT(60) DEF TypeOK, CleaningInv, Start
<1>2. CASE Crash
  <2>1. {member', up', torn', hollow'} \subseteq BOOLEAN /\ split' \subseteq Keys
    BY <1>2, ZenonT(60) DEF TypeOK, Crash
  <2>2. cache' \in Contents /\ data' \in [Takers -> Contents]
    BY <1>2, EmptyType, ZenonT(60) DEF Crash
  <2>3. last \in Nat /\ 0 \in Index /\ snaps \in Nat
    BY DEF TypeOK, Index
  <2>4. {sent', arrived', applied'} \subseteq 0 .. last'
    BY <1>2, <2>3 DEF Crash
  <2>5. seen' \in [Takers -> Index] /\ {tick', lastSnapshotIndex'} \subseteq Index
    BY <1>2, <2>3, ZenonT(60) DEF Crash
  <2>6. cleaning' \in 0 .. MaxSnapshots /\ CleaningInv'
    BY <1>2, <2>3 DEF CleaningInv, Crash
  <2> QED
    BY <1>2, <2>1, <2>2, <2>4, <2>5, <2>6, ZenonT(60) DEF TypeOK, Crash
<1> QED
  BY <1>1, <1>2, ZenonT(60)

\* The engine and the apply loop.
LEMMA TypeApply == ASSUME TypeOK, CleaningInv, Append \/ Deliver \/ Advance PROVE TypeOK' /\ CleaningInv'
<1> USE ClusterAssumption DEF logVars, snapVars, nodeVars, fsmVars, takerVars
<1>1. CASE Append
  <2> USE <1>1 DEF Append
  <2>1. last' \in Index /\ last + 1 \in Indexes /\ last \in Nat
    BY Ranges, Numbers DEF Index, Indexes
  <2>2. command' \in [Indexes -> Commands]
    BY <2>1, ZenonT(60) DEF TypeOK
  <2>3. log' \subseteq 1 .. last'
    BY <2>1 DEF TypeOK
  <2>4. {sent', arrived', applied'} \subseteq 0 .. last'
    BY <2>1 DEF TypeOK
  <2> QED
    BY <2>1, <2>2, <2>3, <2>4, ZenonT(60) DEF TypeOK, CleaningInv
<1>2. CASE Deliver
  <2>1. PICK i \in Undelivered : sent' = i /\ ApplyCommand(i)
    BY <1>2, ZenonT(60) DEF Deliver
  <2>2. i \in Indexes /\ i \in 0 .. last /\ 0 \in 0 .. last /\ i \in Index
    BY <2>1, Ranges, Numbers DEF Undelivered, Index, Indexes
  <2>3. command[i].key \in Keys /\ Effect(cache, i) \in Contents
    BY <2>2, EffectType, ZenonT(60) DEF TypeOK
  <2>4. Stored(i) \in Contents
    BY <2>2, StoredType, Zenon
  <2>5. cache' \in Contents /\ table' \in Contents
    BY <2>1, <2>3, <2>4, ZenonT(60) DEF ApplyCommand, TypeOK
  <2>6. {sent', arrived'} \subseteq 0 .. last
    BY <2>1, <2>2, ZenonT(60) DEF ApplyCommand
  <2>7. torn' \in BOOLEAN /\ split' \subseteq Keys
    BY <2>1, <2>3, ZenonT(60) DEF ApplyCommand, TypeOK
  <2> QED
    BY <1>2, <2>5, <2>6, <2>7, ZenonT(60) DEF Deliver, TypeOK, CleaningInv
<1>3. CASE Advance
  <2>1. {applied', arrived'} \subseteq 0 .. last
    BY <1>3 DEF Advance, TypeOK, Index
  <2> QED
    BY <1>3, <2>1, ZenonT(60) DEF Advance, TypeOK, CleaningInv
<1> QED
  BY <1>1, <1>2, <1>3, Zenon

\* Looking at the index, and copying the state machine.
LEMMA TypeTake ==
    ASSUME TypeOK, CleaningInv, NEW t \in Takers, Tick \/ TakeSnapshot(t) \/ TakeData(t)
    PROVE  TypeOK' /\ CleaningInv'
<1> USE ClusterAssumption DEF logVars, snapVars, nodeVars, fsmVars, takerVars
<1>1. applied \in Index
  BY DEF TypeOK, Index
<1>2. CASE Tick
  BY <1>1, <1>2, ZenonT(60) DEF Tick, TypeOK, CleaningInv
<1>3. CASE TakeSnapshot(t)
  BY <1>1, <1>3, ZenonT(60) DEF TakeSnapshot, TypeOK, CleaningInv
<1>4. CASE TakeData(t)
  BY <1>4, ZenonT(60) DEF TakeData, TypeOK, CleaningInv
<1> QED
  BY <1>2, <1>3, <1>4, Zenon

\* Creating a snapshot and compacting the log.
LEMMA TypeCreate ==
    ASSUME TypeOK, CleaningInv, NEW t \in Takers, CreateSnapshot(t) \/ Compact(t)
    PROVE  TypeOK' /\ CleaningInv'
<1> USE ClusterAssumption DEF logVars, snapVars, nodeVars, fsmVars, takerVars
<1>0. 0 \in Index
  BY DEF Index
<1>1. CASE CreateSnapshot(t)
  <2>1. data' \in [Takers -> Contents] /\ whole' \subseteq Takers
    BY <1>1, EmptyType, ZenonT(60) DEF CreateSnapshot, TypeOK
  <2>2. /\ pc' \in [Takers -> {"idle", "tick", "data", "create", "compact"}]
        /\ seen' \in [Takers -> Index] /\ tick' \in Index /\ hollow' \in BOOLEAN
    BY <1>0, <1>1, ZenonT(90) DEF CreateSnapshot, Return, TypeOK
  <2>3. /\ snaps' \in 0 .. MaxSnapshots /\ cleaning' \in 0 .. MaxSnapshots /\ CleaningInv'
        /\ snaps <= snaps'
    <3>1. \/ snaps < MaxSnapshots /\ snaps' = snaps + 1 /\ cleaning' = cleaning + 1
          \/ snaps' = snaps /\ cleaning' = cleaning
      BY <1>1, Zenon DEF CreateSnapshot
    <3> HIDE ClusterAssumption
    <3> QED
      BY <3>1, Ranges, Numbers DEF CleaningInv
  <2>4. row' \cup file' \cup sound' \subseteq 1 .. snaps'
    <3>1. row \cup file \cup sound \subseteq 1 .. snaps
      BY Zenon DEF TypeOK
    <3>2. \/ UNCHANGED <<snaps, row, file, sound>>
          \/ /\ snaps' = snaps + 1 /\ row' = row \cup {snaps + 1} /\ file' = file \cup {snaps + 1}
             /\ sound' \in {sound, sound \cup {snaps + 1}}
      BY <1>1, Zenon DEF CreateSnapshot
    <3>3. snaps \in Nat
      BY Ranges, Zenon
    <3> HIDE ClusterAssumption
    <3> QED
      BY <3>1, <3>2, <3>3
  <2>5. at' \in [Ids -> Index] /\ content' \in [Ids -> Contents]
    BY <1>1, ZenonT(60) DEF CreateSnapshot, TypeOK
  <2> QED
    BY <1>1, <2>1, <2>2, <2>3, <2>4, <2>5, ZenonT(60) DEF CreateSnapshot, TypeOK
<1>2. CASE Compact(t)
  <2>1. log' \subseteq 1 .. last
    BY <1>2, ZenonT(60) DEF Compact, TypeOK
  <2>2. /\ pc' \in [Takers -> {"idle", "tick", "data", "create", "compact"}]
        /\ seen' \in [Takers -> Index] /\ {tick', lastSnapshotIndex'} \subseteq Index
    BY <1>0, <1>2, ZenonT(60) DEF Compact, Return, TypeOK
  <2> QED
    BY <1>2, <2>1, <2>2, ZenonT(60) DEF Compact, TypeOK, CleaningInv
<1> QED
  BY <1>1, <1>2, ZenonT(60)

\* Clean-up and restore.
LEMMA TypeRestore == ASSUME TypeOK, CleaningInv, Cleanup \/ Restore PROVE TypeOK' /\ CleaningInv'
<1> USE ClusterAssumption DEF logVars, snapVars, nodeVars, fsmVars, takerVars
<1>1. CASE Cleanup
  <2>1. cleaning' \in 0 .. MaxSnapshots /\ CleaningInv'
    <3>1. cleaning > 0 /\ cleaning' = cleaning - 1 /\ snaps' = snaps
      BY <1>1, Zenon DEF Cleanup
    <3> HIDE ClusterAssumption
    <3> QED
      BY <3>1, Ranges, Numbers DEF CleaningInv
  <2>2. row' \cup file' \cup sound' \subseteq 1 .. snaps'
    BY <1>1, ZenonT(60) DEF Cleanup, TypeOK
  <2>3. content' \in [Ids -> Contents]
    BY <1>1, EmptyType, ZenonT(60) DEF Cleanup, TypeOK
  <2>4. hollow' \in BOOLEAN
    BY <1>1, ZenonT(60) DEF Cleanup, TypeOK
  <2> QED
    BY <1>1, <2>1, <2>2, <2>3, <2>4, ZenonT(60) DEF Cleanup, TypeOK
<1>2. CASE Restore
  <2>1. PICK s \in row \cap file :
           /\ cache' = content[s]
           /\ \E done \in SUBSET {k \in Keys : content[s][k] # Absent} :
                /\ table' = [k \in Keys |-> IF k \in done THEN Upsert(k, content[s][k]) ELSE table[k]]
                /\ split' = {k \in Keys \ done : content[s][k] # Absent}
    BY <1>2, Zenon DEF Restore
  <2>2. content[s] \in Contents
    <3>1. s \in Ids
      BY <2>1, RowIndex, Zenon
    <3> QED
      BY <3>1, Zenon DEF TypeOK
  <2>3. \A k \in Keys : Upsert(k, content[s][k]) \in Value
    BY <2>2, UpsertType, Zenon DEF Contents
  <2>5. cache' \in Contents /\ table' \in Contents
    <3>1. \A k \in Keys : table[k] \in Value
      BY Zenon DEF TypeOK, Contents
    <3>2. PICK done : table' = [k \in Keys |-> IF k \in done THEN Upsert(k, content[s][k]) ELSE table[k]]
      BY <2>1, Zenon
    <3>3. table' \in [Keys -> Value]
      BY <2>3, <3>1, <3>2, ZenonT(60)
    <3> QED
      BY <2>1, <2>2, <3>3, Zenon DEF Contents
  <2>4. torn' \in BOOLEAN /\ split' \subseteq Keys
    BY <1>2, <2>1, ZenonT(60) DEF Restore, TypeOK
  <2> QED
    BY <1>2, <2>4, <2>5, ZenonT(60) DEF Restore, TypeOK, CleaningInv
<1> QED
  BY <1>1, <1>2, ZenonT(60)

LEMMA TypeKeeps == TypeOK /\ CleaningInv /\ [Next]_vars => TypeOK' /\ CleaningInv'
<1> SUFFICES ASSUME TypeOK, CleaningInv, [Next]_vars PROVE TypeOK' /\ CleaningInv'
  BY Zenon
<1>1. CASE UNCHANGED vars
  BY <1>1, ZenonT(60) DEF vars, logVars, snapVars, nodeVars, fsmVars, takerVars, TypeOK, CleaningInv
<1>2. CASE Tick
  BY <1>2, TypeTake, ClusterAssumption, ZenonT(60)
<1> QED
  BY <1>1, <1>2, TypeStart, TypeApply, TypeTake, TypeCreate, TypeRestore, ZenonT(60) DEF Next


-----------------------------------------------------------------------------
(* Bootstrap, and the cache *)

LEMMA BootKeeps == BootInv /\ [Next]_vars => BootInv'
<1> SUFFICES ASSUME BootInv, [Next]_vars PROVE BootInv'
  BY Zenon
<1>1. CASE Start
  BY <1>1 DEF BootInv, Start, HasMembers
<1>2. CASE Crash
  BY <1>2, ZenonT(60) DEF BootInv, Crash
<1>3. CASE UNCHANGED nodeVars
  BY <1>3, Zenon DEF BootInv, nodeVars
<1> QED
  BY <1>1, <1>2, <1>3, ZenonT(90) DEF Next, vars, Append, Deliver, Advance, Tick, TakeSnapshot, TakeData,
                          CreateSnapshot, Compact, Cleanup, Restore

\* FSM.Apply: an update is stored before it is cached; an assignment that is
\* cached and not stored splits the two.
LEMMA ApplyBacked ==
    ASSUME TypeOK, CacheBacked, NEW i \in Indexes, ApplyCommand(i) PROVE CacheBacked'
<1> DEFINE key == command[i].key
<1>1. /\ key \in Keys /\ Effect(cache, i) \in Contents
      /\ \A k \in Keys : k # key => Effect(cache, i)[k] = cache[k]
  BY EffectType, ZenonT(60) DEF TypeOK
<1> SUFFICES ASSUME NEW k \in Keys, k \notin split'
             PROVE  cache'[k] = Absent \/ /\ table'[k].state = cache'[k].state
                                          /\ k \in Jobs \/ table'[k] = cache'[k]
  BY Zenon DEF CacheBacked
<1>2. CASE cache' = Effect(cache, i) /\ table' = Stored(i) /\ split' = split \ {key}
  <2>1. CASE k = key
    <3>1. CASE Stores(i)
      <4>1. PICK v \in Value : v = Effect(cache, i)[k]
        BY <1>1, <2>1, Zenon DEF Contents
      <4>2. table'[k] = Upsert(k, v) /\ cache'[k] = v
        BY <1>2, <2>1, <3>1, <4>1, StoredType, Zenon
      <4> QED
        BY <4>1, <4>2, UpsertType, Zenon
    <3>2. CASE ~Stores(i)
      BY <1>2, <2>1, <3>2, Zenon DEF Stores
    <3> QED
      BY <3>1, <3>2, Zenon
  <2>2. CASE k # key
    <3>1. k \notin split /\ cache'[k] = cache[k] /\ table'[k] = table[k]
      BY <1>1, <1>2, <2>2, StoredType, Zenon
    <3> QED
      BY <3>1, Zenon DEF CacheBacked
  <2> QED
    BY <2>1, <2>2, Zenon
<1>3. CASE /\ cache' = IF command[i].op = "assign" THEN Effect(cache, i) ELSE cache
           /\ split' = IF command[i].op = "assign" THEN split \cup {key} ELSE split
           /\ UNCHANGED table
  <2>1. k \notin split /\ cache'[k] = cache[k] /\ table'[k] = table[k]
    BY <1>1, <1>3, Zenon
  <2> QED
    BY <2>1, Zenon DEF CacheBacked
<1> QED
  BY <1>2, <1>3, ZenonT(60) DEF ApplyCommand

LEMMA CacheKeeps == TypeOK /\ CacheBacked /\ [Next]_vars => CacheBacked'
<1> SUFFICES ASSUME TypeOK, CacheBacked, [Next]_vars PROVE CacheBacked'
  BY Zenon
<1>1. CASE Crash
  BY <1>1, ZenonT(60) DEF Crash, CacheBacked, Empty
<1>2. CASE Deliver
  <2>1. PICK i \in Undelivered : ApplyCommand(i)
    BY <1>2, ZenonT(60) DEF Deliver
  <2>2. i \in Indexes
    BY <2>1, Ranges, Numbers DEF Undelivered, Indexes
  <2> QED
    BY <2>1, <2>2, ApplyBacked, ZenonT(60)
<1>3. CASE Restore
  <2>1. PICK s \in row \cap file :
           /\ cache' = content[s]
           /\ \E done \in SUBSET {k \in Keys : content[s][k] # Absent} :
                /\ table' = [k \in Keys |-> IF k \in done THEN Upsert(k, content[s][k]) ELSE table[k]]
                /\ split' = {k \in Keys \ done : content[s][k] # Absent}
    BY <1>3, Zenon DEF Restore
  <2>2. s \in Ids
    BY <2>1, RowIndex, Zenon
  <2>3. content[s] \in [Keys -> Value]
    BY <2>2, Zenon DEF TypeOK, Contents
  <2>4. ASSUME NEW k \in Keys, k \notin split', cache'[k] # Absent
        PROVE  table'[k].state = cache'[k].state /\ (k \in Jobs \/ table'[k] = cache'[k])
    <3>1. PICK v \in Value : v = content[s][k]
      BY <2>3, Zenon
    <3>2. table'[k] = Upsert(k, v) /\ cache'[k] = v
      BY <2>1, <2>4, <3>1, Zenon
    <3> QED
      BY <3>1, <3>2, UpsertType, Zenon
  <2> QED
    BY <2>4, Zenon DEF CacheBacked
<1>4. CASE UNCHANGED <<cache, table, split>>
  BY <1>4, ZenonT(60) DEF CacheBacked
<1> QED
  BY <1>1, <1>2, <1>3, <1>4, ZenonT(90) DEF Next, vars, logVars, fsmVars, Start, Append, Advance, Tick,
     TakeSnapshot, TakeData, CreateSnapshot, Compact, Cleanup

-----------------------------------------------------------------------------
(* The log and the snapshots *)

\* cleanupSnapshots keeps a snapshot that goes as far as any it removes.
LEMMA CleanupCovers ==
    ASSUME TypeOK, row \subseteq file, Cleanup, ~hollow'
    PROVE  row' \subseteq file' /\ \A i \in Index : Covered(i) => Covered(i)'
<1>1. PICK keep \in SUBSET row :
         /\ Retained(keep)
         /\ \E gone \in SUBSET ((row \ keep) \cap file) :
              /\ file' = file \ gone
              /\ row' = row \ gone
  BY Zenon DEF Cleanup
<1>2. PICK gone \in SUBSET ((row \ keep) \cap file) : file' = file \ gone /\ row' = row \ gone
  BY <1>1, ZenonT(60)
<1>3. at' = at
  BY Zenon DEF Cleanup
<1>4. ASSUME row # {} PROVE keep # {}
  <2>1. IsFiniteSet(row)
    <3>1. IsFiniteSet(1 .. snaps)
      BY ClusterAssumption, FS_Interval DEF TypeOK
    <3>2. row \in SUBSET (1 .. snaps)
      BY ZenonT(60) DEF TypeOK
    <3> QED
      BY <3>1, <3>2, FS_Subset, ZenonT(60)
  <2>2. Cardinality(row) \in Nat /\ Cardinality(row) # 0
    BY <1>4, <2>1, FS_CardinalityType, FS_EmptySet, ZenonT(60)
  <2>3. Cardinality(keep) # 0
    BY <1>1, <2>2, ClusterAssumption, ZenonT(60) DEF Retained
  <2> QED
    BY <2>3, FS_EmptySet, ZenonT(60)
<1>5. ASSUME NEW i \in Index, Covered(i) PROVE Covered(i)'
  <2>1. PICK s \in row : at[s] >= i
    BY <1>5, ZenonT(60) DEF Covered
  <2>2. CASE s \notin gone
    BY <1>2, <1>3, <2>1, <2>2, ZenonT(60) DEF Covered
  <2>3. CASE s \in gone
    <3>1. PICK a \in keep : TRUE
      BY <1>4, <2>1, ZenonT(60)
    <3>2. a \in row' /\ at[a] >= at[s]
      BY <1>1, <1>2, <2>1, <2>3, <3>1, ZenonT(60) DEF Retained
    <3>3. at[a] \in Nat /\ at[s] \in Nat /\ i \in Nat
      BY <1>1, <2>1, <3>1, RowIndex, Numbers DEF Index
    <3> QED
      BY <1>3, <2>1, <3>2, <3>3 DEF Covered
  <2> QED
    BY <2>2, <2>3, Zenon
<1> QED
  BY <1>2, <1>5, ZenonT(60)

LEMMA CoverKeeps == TypeOK /\ CoverInv /\ [Next]_vars => CoverInv'
<1> SUFFICES ASSUME TypeOK, CoverInv, [Next]_vars, ~hollow' PROVE CoverInv'
  BY Zenon DEF CoverInv
<1>0. CASE UNCHANGED <<row, file, at, last, log, pc, seen, hollow>>
  BY <1>0, ZenonT(60) DEF CoverInv, Covered
<1>1. CASE Crash
  BY <1>1, ZenonT(60) DEF Crash, CoverInv, Covered, logVars, snapVars
<1>2. CASE Append
  <2>1. last \in Nat
    BY DEF TypeOK, Index
  <2>2. \A i \in 1 .. last' : i \in 1 .. last \/ i = last + 1
    BY <1>2, <2>1 DEF Append
  <2> QED
    BY <1>2, <2>2, Zenon DEF Append, CoverInv, Covered, snapVars, takerVars
<1>3. CASE Tick
  BY <1>3, ClusterAssumption, ZenonT(60) DEF Tick, CoverInv, Covered, TypeOK, logVars, snapVars
<1>4. ASSUME NEW t \in Takers, TakeSnapshot(t) \/ TakeData(t) PROVE CoverInv'
  BY <1>4, ZenonT(60) DEF TakeSnapshot, TakeData, CoverInv, Covered, TypeOK, logVars, snapVars
<1>5. ASSUME NEW t \in Takers, CreateSnapshot(t) PROVE CoverInv'
  <2>1. CASE snaps < MaxSnapshots /\ row' = row \cup {snaps + 1} /\ file' = file \cup {snaps + 1}
             /\ at' = [at EXCEPT ![snaps + 1] = seen[t]] /\ pc' = [pc EXCEPT ![t] = "compact"]
             /\ UNCHANGED <<seen, hollow>>
    <3>1. \A s \in row : s \in Ids /\ s # snaps + 1
      BY RowIndex, ZenonT(60)
    <3>2. snaps + 1 \in Ids
      BY <2>1, Ranges, Numbers DEF Ids
    <3>3. \A s \in row : at'[s] = at[s]
      BY <2>1, <3>1, <3>2, ZenonT(60) DEF TypeOK
    <3>4. at'[snaps + 1] = seen[t] /\ seen[t] >= seen[t]
      BY <2>1, <3>2, ClusterAssumption DEF TypeOK, Index
    <3>5. \A i : Covered(i) => Covered(i)'
      BY <2>1, <3>3, ZenonT(60) DEF Covered
    <3>6. Covered(seen[t])'
      BY <2>1, <3>4, Zenon DEF Covered
    <3>7. UNCHANGED <<log, last>>
      BY <1>5, Zenon DEF CreateSnapshot, logVars
    <3> QED
      BY <2>1, <3>5, <3>6, <3>7, ZenonT(60) DEF CoverInv, TypeOK
  <2>2. CASE Return(t) /\ UNCHANGED <<snapVars, cleaning, hollow>>
    BY <1>5, <2>2, ZenonT(60) DEF CreateSnapshot, Return, CoverInv, Covered, TypeOK, logVars, snapVars
  <2> QED
    BY <1>5, <2>1, <2>2, ZenonT(60) DEF CreateSnapshot
<1>6. ASSUME NEW t \in Takers, Compact(t) PROVE CoverInv'
  <2>1. seen[t] \in Index /\ Covered(seen[t])
    BY <1>6, ZenonT(60) DEF Compact, CoverInv, TypeOK
  <2>2. \A i \in log \ log' : i <= seen[t]
    BY <1>6, <2>1, DeletedBelow, ZenonT(60) DEF Compact
  <2>3. \A i \in log \ log' : Covered(i)
    <3> TAKE i \in log \ log'
    <3>1. PICK s \in row : at[s] >= seen[t]
      BY <2>1, Zenon DEF Covered
    <3>2. at[s] \in Nat /\ seen[t] \in Nat /\ i \in Nat
      BY <2>1, <3>1, RowIndex, Ranges, Numbers DEF Index
    <3> QED
      BY <2>2, <3>1, <3>2 DEF Covered
  <2>4. \A i : Covered(i)' <=> Covered(i)
    BY <1>6, ZenonT(60) DEF Compact, Covered, snapVars
  <2>5. \A u \in Takers : pc'[u] = "compact" => pc[u] = "compact" /\ seen'[u] = seen[u]
    BY <1>6, ZenonT(60) DEF Compact, Return, TypeOK
  <2>6. UNCHANGED <<last, row, file, hollow>>
    BY <1>6, Zenon DEF Compact, snapVars
  <2> QED
    BY <2>3, <2>4, <2>5, <2>6, ZenonT(60) DEF CoverInv
<1>7. CASE Cleanup
  <2>1. UNCHANGED <<log, last, pc, seen>> /\ ~hollow
    BY <1>7, ZenonT(60) DEF Cleanup, logVars, takerVars
  <2>2. row' \subseteq file' /\ \A i \in Index : Covered(i) => Covered(i)'
    BY <1>7, <2>1, CleanupCovers, ZenonT(60) DEF CoverInv
  <2>3. \A i \in 1 .. last : i \in Index
    BY ClusterAssumption DEF TypeOK, Index
  <2>4. \A t \in Takers : seen[t] \in Index
    BY ZenonT(60) DEF TypeOK
  <2> QED
    BY <2>1, <2>2, <2>3, <2>4, ZenonT(60) DEF CoverInv
<1>8. CASE Start \/ Deliver \/ Advance \/ Restore \/ UNCHANGED vars
  BY <1>0, <1>8, ZenonT(60) DEF vars, Start, Deliver, Advance, Restore, logVars, snapVars, takerVars
<1> QED
  BY <1>1, <1>2, <1>3, <1>4, <1>5, <1>6, <1>7, <1>8, ZenonT(60) DEF Next, CoverInv

-----------------------------------------------------------------------------
(* The theorems *)

LEMMA InitInv == Init => IInv
<1> SUFFICES ASSUME Init PROVE IInv
  BY Zenon
<1>1. TypeOK /\ CleaningInv
  BY TypeInit, ZenonT(60)
<1>2. BootInv /\ CacheBacked /\ CoverInv
  <2>0. boots = 0
    BY Zenon DEF Init
  <2>1. BootInv
    BY <2>0 DEF BootInv
  <2>2. CacheBacked
    BY Zenon DEF Init, CacheBacked, Empty
  <2>3. last = 0 /\ row = {} /\ pc = [t \in Takers |-> "idle"]
    BY Zenon DEF Init
  <2>4. CoverInv
    BY <2>3 DEF CoverInv
  <2> QED
    BY <2>1, <2>2, <2>4, ZenonT(60)
<1> QED
  BY <1>1, <1>2, ZenonT(60) DEF IInv

LEMMA StepKeeps == IInv /\ [Next]_vars => IInv'
  BY TypeKeeps, BootKeeps, CacheKeeps, CoverKeeps, ZenonT(60) DEF IInv

\* The variables keep their types, for any bound on commands and snapshots.
THEOREM TypeCorrect == Spec => []TypeOK
<1>1. IInv => TypeOK
  BY Zenon DEF IInv
<1> QED
  BY InitInv, StepKeeps, <1>1, PTL DEF Spec

\* What FSM.Apply and Restore leave in the maps is in the tables, the definition of
\* a job excepted, for every key but one whose last write failed after the map had
\* been changed.
THEOREM CacheIsBacked == Spec => []CacheBacked
<1>1. IInv => CacheBacked
  BY Zenon DEF IInv
<1> QED
  BY InitInv, StepKeeps, <1>1, PTL DEF Spec

\* Bootstrap makes the node a leader at most once, over all restarts.
THEOREM OneBootstrap == Spec => []BootstrapsOnce
<1>1. IInv => BootstrapsOnce
  BY DEF IInv, BootInv, BootstrapsOnce
<1> QED
  BY InitInv, StepKeeps, <1>1, PTL DEF Spec

-----------------------------------------------------------------------------
(* What a snapshot has *)

\* c is what the commands up to n, or some more, make.
Reaches(n, c) == \E i \in n .. last : c = Replay[i]

\* An index is read, and the applied one moved, after the command was applied.
Counts == applied <= sent /\ arrived <= sent /\ \A t \in Takers : seen[t] <= sent

Down == ~up => cache = Empty /\ sent = 0 /\ \A t \in Takers : pc[t] = "idle"

\* A state machine that has missed nothing has what was delivered, and the log has
\* the rest: what is compacted away was applied.
Intact == up /\ ~torn => cache = Replay[sent] /\ \A i \in 1 .. last : i > sent => i \in log

\* The copies of such a state machine have what their index says.
Copies == \A t \in whole : pc[t] = "create" /\ Reaches(seen[t], data[t])

SnapInv == Counts /\ Down /\ Intact /\ Copies /\ SnapshotCovers

-----------------------------------------------------------------------------
(* Replay.  The recursion is taken apart by way of a least counterexample. *)

LEMMA Least == ASSUME NEW T, T \subseteq Nat, T # {} PROVE \E x \in T : \A y \in T : ~(y < x)
<1>1. PICK R : R = OpToRel(<, Nat)
  BY Zenon
<1>2. \E x \in T : \A y \in T : ~ (<<y, x>> \in R)
  BY <1>1, NatLessThanWellFounded, WFMin, Zenon
<1>3. \A x, y \in Nat : <<y, x>> \in R <=> y < x
  BY <1>1 DEF OpToRel
<1> QED
  BY <1>2, <1>3, Zenon

\* Two functions that begin alike and go on alike are alike.
GoAlike(n, f, g) ==
    n \in Nat /\ f[0] = g[0] /\ \A i \in 1 .. n : f[i - 1] = g[i - 1] => f[i] = g[i]

LEMMA Alike ==
    ASSUME NEW n, NEW f, NEW g, GoAlike(n, f, g)
    PROVE  \A i \in 0 .. n : f[i] = g[i]
<1> DEFINE T == {i \in 0 .. n : f[i] # g[i]}
<1> SUFFICES ASSUME T # {} PROVE FALSE
  BY Zenon
<1>0. n \in Nat
  BY Zenon DEF GoAlike
<1>1. T \subseteq Nat
  BY <1>0
<1>2. PICK i \in T : \A j \in T : ~(j < i)
  BY <1>1, Least, Zenon
<1>3. i \in 0 .. n /\ f[i] # g[i]
  BY <1>2, Zenon
<1>4. i # 0
  BY <1>3, Zenon DEF GoAlike
<1>5. i \in 1 .. n /\ i - 1 \in 0 .. n /\ i - 1 < i
  BY <1>0, <1>3, <1>4
<1>6. f[i - 1] = g[i - 1]
  BY <1>2, <1>5, Zenon
<1> QED
  BY <1>3, <1>5, <1>6, Zenon DEF GoAlike

\* f has what the first n commands make of an empty state machine.
Runs(n, f) ==
    /\ f \in [0 .. n -> Contents]
    /\ f[0] = Empty
    /\ \A i \in 1 .. n : f[i] = Effect(f[i - 1], i)

LEMMA RunExists == ASSUME TypeOK, NEW n \in Index PROVE \E f : Runs(n, f)
<1> DEFINE T == {m \in Index : ~\E f : Runs(m, f)}
<1> SUFFICES ASSUME n \in T PROVE FALSE
  BY Zenon
<1>1. T \subseteq Nat /\ T # {}
  BY Numbers DEF Index
<1>2. PICK m \in T : \A j \in T : ~(j < m)
  BY <1>1, Least, Zenon
<1>3. m \in Index /\ ~\E f : Runs(m, f)
  BY <1>2, Zenon
<1>4. m # 0
  <2>1. PICK f : f = [i \in 0 .. 0 |-> Empty]
    BY Zenon
  <2>2. Runs(0, f)
    BY <2>1, EmptyType DEF Runs
  <2> QED
    BY <1>3, <2>2, Zenon
<1>5. m - 1 \in Index /\ m - 1 < m /\ m \in Indexes /\ m \in Nat
  BY <1>3, <1>4, Numbers DEF Index, Indexes
<1>6. PICK f : Runs(m - 1, f)
  BY <1>2, <1>5, Zenon
<1>7. f[m - 1] \in Contents
  BY <1>4, <1>5, <1>6 DEF Runs
<1>8. PICK c \in Contents : c = Effect(f[m - 1], m)
  BY <1>5, <1>7, EffectType, Zenon
<1>9. PICK g : g = [i \in 0 .. m |-> IF i = m THEN c ELSE f[i]]
  BY Zenon
<1>10. \A i \in 0 .. m : i # m => i \in 0 .. (m - 1)
  BY <1>5
<1>11. g \in [0 .. m -> Contents]
  BY <1>6, <1>8, <1>9, <1>10, Zenon DEF Runs
<1>12. g[0] = Empty
  <2>1. 0 \in 0 .. m
    BY <1>5
  <2> QED
    BY <1>4, <1>6, <1>9, <2>1, Zenon DEF Runs
<1>13. ASSUME NEW i \in 1 .. m PROVE g[i] = Effect(g[i - 1], i)
  <2>1. i \in 0 .. m /\ i - 1 \in 0 .. m /\ i - 1 # m /\ (i # m => i \in 1 .. (m - 1))
    BY <1>5
  <2>2. g[i - 1] = f[i - 1]
    BY <1>9, <2>1, Zenon
  <2>3. CASE i = m
    BY <1>8, <1>9, <2>1, <2>2, <2>3, Zenon
  <2>4. CASE i # m
    BY <1>6, <1>9, <2>1, <2>2, <2>4, Zenon DEF Runs
  <2> QED
    BY <2>3, <2>4, Zenon
<1> QED
  BY <1>3, <1>11, <1>12, <1>13, Zenon DEF Runs

LEMMA ReplayRuns == ASSUME TypeOK PROVE Runs(MaxIndex, Replay)
<1>0. MaxIndex \in Index /\ MaxIndex \in Nat /\ 0 \in Index /\ Index = 0 .. MaxIndex
  BY Numbers DEF Index
<1>1. PICK f : Runs(MaxIndex, f)
  BY <1>0, RunExists, Zenon
<1>2. \A i \in Index : i # 0 => i \in 1 .. MaxIndex
  BY <1>0
<1>3. \A i \in Index : f[i] = IF i = 0 THEN Empty ELSE Effect(f[i - 1], i)
  BY <1>1, <1>2, Zenon DEF Runs
<1>4. f = [i \in Index |-> IF i = 0 THEN Empty ELSE Effect(f[i - 1], i)]
  BY <1>0, <1>1, <1>3, Zenon DEF Runs
<1>5. Replay = [i \in Index |-> IF i = 0 THEN Empty ELSE Effect(Replay[i - 1], i)]
  BY <1>4, Zenon DEF Replay
<1>6. /\ Replay[0] = Empty
      /\ \A i \in 1 .. MaxIndex : Replay[i] = Effect(Replay[i - 1], i)
  <2>1. \A i \in 1 .. MaxIndex : i \in Index /\ i # 0
    BY <1>0
  <2> QED
    BY <1>0, <1>5, <2>1, Zenon
<1>7. \A i \in 0 .. MaxIndex : Replay[i] = f[i]
  <2>1. GoAlike(MaxIndex, Replay, f)
    BY <1>0, <1>1, <1>6, Zenon DEF Runs, GoAlike
  <2> QED
    BY <2>1, Alike, ZenonT(60)
<1>8. Replay = f
  BY <1>0, <1>1, <1>5, <1>7, Zenon DEF Runs
<1> QED
  BY <1>1, <1>8, Zenon

\* What Replay makes of a command more, and of a command that is appended.
LEMMA ReplayStep ==
    TypeOK => Replay[0] = Empty /\ \A i \in Indexes : Replay[i] = Effect(Replay[i - 1], i)
<1> SUFFICES ASSUME TypeOK
             PROVE  Replay[0] = Empty /\ \A i \in Indexes : Replay[i] = Effect(Replay[i - 1], i)
  BY Zenon
<1>1. Runs(MaxIndex, Replay)
  BY ReplayRuns, Zenon
<1> QED
  BY <1>1, Zenon DEF Runs, Indexes

LEMMA ReplayKept ==
    ASSUME TypeOK, TypeOK', \A i \in 1 .. last : command'[i] = command[i]
    PROVE  \A i \in 0 .. last : Replay'[i] = Replay[i]
<1>0. last \in Nat /\ last <= MaxIndex /\ \A i \in 1 .. last : i \in Indexes
  BY Ranges, Numbers DEF Indexes
<1>1. Replay[0] = Empty /\ \A i \in Indexes : Replay[i] = Effect(Replay[i - 1], i)
  BY ReplayStep, Zenon
<1>2. (TypeOK => Replay[0] = Empty /\ \A i \in Indexes : Replay[i] = Effect(Replay[i - 1], i))'
  BY ReplayStep, PTL
<1>3. Replay'[0] = Empty /\ \A i \in Indexes : Replay'[i] = Effect(Replay[i - 1], i)'
  BY <1>2, Zenon
<1>4. ASSUME NEW i \in 1 .. last, Replay'[i - 1] = Replay[i - 1] PROVE Replay'[i] = Replay[i]
  <2>1. Effect(Replay[i - 1], i)' = Effect(Replay[i - 1], i)
    BY <1>4, Zenon DEF Effect
  <2> QED
    BY <1>0, <1>1, <1>3, <2>1, Zenon
<1>5. GoAlike(last, Replay', Replay)
  BY <1>0, <1>1, <1>3, <1>4, Zenon DEF GoAlike
<1> QED
  BY <1>5, Alike

\* Commands are only appended.
Grows == TypeOK /\ TypeOK' /\ last <= last' /\ \A i \in 1 .. last : command'[i] = command[i]

LEMMA ReachesKept ==
    ASSUME Grows, NEW n \in Nat, NEW c, Reaches(n, c)
    PROVE  Reaches(n, c)'
<1>1. PICK i \in n .. last : c = Replay[i]
  BY Zenon DEF Reaches
<1>2. last \in Nat /\ last' \in Nat
  BY Ranges, Numbers DEF Grows, TypeOK, Index
<1>3. i \in 0 .. last /\ i \in n .. last'
  BY <1>2 DEF Grows
<1>4. Replay'[i] = Replay[i]
  BY <1>3, ReplayKept, Zenon DEF Grows
<1> QED
  BY <1>1, <1>3, <1>4, Zenon DEF Reaches

\* Copies and snapshots that were there before are as good as they were.
OldCopies ==
    \A t \in whole' : t \in whole /\ pc'[t] = pc[t] /\ seen'[t] = seen[t] /\ data'[t] = data[t]
OldSnaps == 
    \A s \in sound' \cap file' : s \in sound \cap file /\ at'[s] = at[s] /\ content'[s] = content[s]

LEMMA CopiesKept == ASSUME Grows, SnapInv, OldCopies PROVE Copies'
<1>1. ASSUME NEW t \in whole' PROVE pc'[t] = "create" /\ Reaches(seen[t], data[t])'
  <2>1. /\ t \in whole /\ pc'[t] = "create" /\ Reaches(seen[t], data[t])
        /\ seen'[t] = seen[t] /\ data'[t] = data[t]
    BY <1>1, Zenon DEF SnapInv, Copies, OldCopies
  <2>2. seen[t] \in Index
    BY <2>1, Zenon DEF Grows, TypeOK
  <2>3. PICK n \in Nat : n = seen[t]
    BY <2>2, Numbers DEF Index
  <2>4. PICK c : n = seen[t] /\ c = data[t]
    BY <2>3, Zenon
  <2>5. Reaches(n, c)'
    BY <2>1, <2>4, ReachesKept, Zenon
  <2>6. n = seen'[t] /\ c = data'[t]
    BY <2>1, <2>4, Zenon
  <2> QED
    BY <2>1, <2>5, <2>6, Zenon DEF Reaches
<1> QED
  BY <1>1, Zenon DEF Copies

LEMMA SnapKept ==
    ASSUME Grows, SnapInv, NEW s \in sound \cap file, at'[s] = at[s], content'[s] = content[s]
    PROVE  \E i \in at'[s] .. last' : content'[s] = Replay'[i]
<1>1. at[s] \in Nat
  <2>1. s \in 1 .. snaps
    BY Zenon DEF Grows, TypeOK
  <2>2. s \in Ids
    BY <2>1, Ranges, Numbers DEF Ids, Grows
  <2>3. at[s] \in Index
    BY <2>2, Zenon DEF Grows, TypeOK
  <2> QED
    BY <2>3, Numbers DEF Index
<1>0. PICK n \in Nat : n = at[s]
  BY <1>1, Zenon
<1>2. PICK c : n = at[s] /\ c = content[s]
  BY <1>0, Zenon
<1>3. Reaches(n, c)
  BY <1>2, Zenon DEF SnapInv, SnapshotCovers, Holds, Reaches
<1>4. Reaches(n, c)'
  BY <1>3, ReachesKept, Zenon
<1>5. n = at'[s] /\ c = content'[s]
  BY <1>2, Zenon
<1> QED
  BY <1>4, <1>5, Zenon DEF Reaches

LEMMA SnapsKept == ASSUME Grows, SnapInv, OldSnaps PROVE SnapshotCovers'
<1>1. ASSUME NEW s \in sound' \cap file' PROVE \E i \in at'[s] .. last' : content'[s] = Replay'[i]
  BY <1>1, SnapKept, Zenon DEF OldSnaps
<1> QED
  BY <1>1, Zenon DEF SnapshotCovers, Holds

\* A step that leaves the state machine, the process and the log alone.
LEMMA IntactKept ==
    ASSUME Grows, SnapInv, UNCHANGED <<cache, sent, up, torn, last>>,
           \A i \in log \ log' : i <= sent
    PROVE  Intact'
<1>1. sent \in 0 .. last
  BY Ranges, Zenon DEF Grows
<1>2. Replay'[sent] = Replay[sent]
  BY <1>1, ReplayKept, Zenon DEF Grows
<1>3. ASSUME up, ~torn, NEW i \in 1 .. last, i > sent PROVE i \in log'
  <2>1. i \in log
    BY <1>3, Zenon DEF SnapInv, Intact
  <2>2. ~(i <= sent)
    BY <1>1, <1>3
  <2> QED
    BY <2>1, <2>2, Zenon
<1>4. up /\ ~torn => cache = Replay[sent]
  BY Zenon DEF SnapInv, Intact
<1>0. (up' <=> up) /\ (torn' <=> torn)
  OBVIOUS
<1>5. last' = last /\ sent' = sent /\ cache' = cache
  BY Zenon
<1>6. ASSUME up', ~torn' PROVE cache' = Replay'[sent']
  BY <1>0, <1>2, <1>4, <1>5, <1>6, Zenon
<1>7. ASSUME up', ~torn', NEW i \in 1 .. last', i > sent' PROVE i \in log'
  BY <1>0, <1>3, <1>5, <1>7, Zenon
<1> QED
  BY <1>6, <1>7, Zenon DEF Intact

LEMMA GrowsStep == ASSUME TypeOK, CleaningInv, [Next]_vars PROVE Grows
<1>1. TypeOK'
  BY TypeKeeps, Zenon
<1>2. last \in Nat /\ \A i \in 1 .. last : i \in Indexes /\ i # last + 1
  BY Ranges, Numbers DEF Indexes
<1>3. CASE Append
  <2>1. PICK c : command' = [command EXCEPT ![last + 1] = c]
    BY <1>3, Zenon DEF Append
  <2>2. last' = last + 1
    BY <1>3, Zenon DEF Append
  <2>3. \A i \in 1 .. last : command'[i] = command[i]
    BY <1>2, <2>1, Zenon DEF TypeOK
  <2> QED
    BY <1>1, <1>2, <2>2, <2>3 DEF Grows
<1>4. CASE command' = command /\ last' = last
  BY <1>1, <1>2, <1>4 DEF Grows
<1> QED
  BY <1>3, <1>4, ZenonT(90) DEF Next, vars, logVars, Start, Crash, Deliver, Advance, Tick,
     TakeSnapshot, TakeData, CreateSnapshot, Compact, Cleanup, Restore

LEMMA NoSnapChange ==
    ASSUME SnapInv, UNCHANGED <<snapVars>> PROVE OldSnaps
  BY Zenon DEF OldSnaps, snapVars

LEMMA NoTakerChange ==
    ASSUME UNCHANGED takerVars PROVE OldCopies
  BY Zenon DEF OldCopies, takerVars

LEMMA SnapStart == ASSUME Grows, SnapInv, Start PROVE SnapInv'
<1>0. /\ ~up /\ UNCHANGED logVars /\ UNCHANGED snapVars /\ UNCHANGED fsmVars /\ UNCHANGED takerVars
      /\ torn' = (log # 1 .. last)
  BY Zenon DEF Start
<1>1. /\ cache' = Empty /\ sent' = 0 /\ sent = 0 /\ applied' = applied /\ arrived' = arrived
      /\ seen' = seen /\ pc' = pc /\ last' = last /\ log' = log
      /\ \A t \in Takers : pc[t] = "idle"
  BY <1>0, Zenon DEF SnapInv, Down, fsmVars, takerVars, logVars
<1>2. Counts' /\ Down'
  BY <1>1, Zenon DEF SnapInv, Counts, Down
<1>3. Replay'[0] = Empty
  <2>1. (TypeOK => Replay[0] = Empty /\ \A i \in Indexes : Replay[i] = Effect(Replay[i - 1], i))'
    BY ReplayStep, PTL
  <2> QED
    BY <2>1, Zenon DEF Grows
<1>4. ~torn' => log = 1 .. last
  BY <1>0, Zenon
<1>5. Intact'
  BY <1>1, <1>3, <1>4, Zenon DEF Intact
<1> QED
  BY <1>0, <1>2, <1>5, NoSnapChange, NoTakerChange, CopiesKept, SnapsKept, Zenon DEF SnapInv

LEMMA SnapCrash == ASSUME Grows, SnapInv, Crash PROVE SnapInv'
<1>0. /\ ~up' /\ cache' = Empty /\ sent' = 0 /\ arrived' = 0 /\ applied' = 0 /\ whole' = {}
      /\ pc' = [t \in Takers |-> "idle"] /\ seen' = [t \in Takers |-> 0]
      /\ UNCHANGED snapVars
  BY Zenon DEF Crash
<1>1. Counts'
  BY <1>0 DEF Counts
<1>2. Down' /\ Intact' /\ Copies'
  BY <1>0, Zenon DEF Down, Intact, Copies
<1> QED
  BY <1>0, <1>1, <1>2, NoSnapChange, SnapsKept, Zenon DEF SnapInv

LEMMA SnapAppend == ASSUME Grows, SnapInv, Append PROVE SnapInv'
<1>0. /\ last' = last + 1 /\ log' = log \cup {last + 1}
      /\ UNCHANGED snapVars /\ UNCHANGED fsmVars /\ UNCHANGED takerVars
      /\ UNCHANGED nodeVars /\ UNCHANGED torn
  BY Zenon DEF Append
<1>1. /\ cache' = cache /\ sent' = sent /\ applied' = applied /\ arrived' = arrived
      /\ seen' = seen /\ pc' = pc
  BY <1>0, Zenon DEF fsmVars, takerVars
<1>2. (up' <=> up) /\ (torn' <=> torn)
  BY <1>0 DEF nodeVars
<1>3. Counts' /\ Down'
  BY <1>1, <1>2, Zenon DEF SnapInv, Counts, Down
<1>4. last \in Nat /\ sent \in 0 .. last
  BY Ranges, Zenon DEF Grows
<1>5. Replay'[sent] = Replay[sent]
  BY <1>4, ReplayKept, Zenon DEF Grows
<1>6. ASSUME up', ~torn' PROVE cache' = Replay'[sent']
  BY <1>1, <1>2, <1>5, <1>6, Zenon DEF SnapInv, Intact
<1>7. ASSUME up', ~torn', NEW i \in 1 .. last', i > sent' PROVE i \in log'
  <2>1. i = last + 1 \/ i \in 1 .. last
    BY <1>0, <1>4
  <2> QED
    BY <1>0, <1>1, <1>2, <1>7, <2>1, Zenon DEF SnapInv, Intact
<1>8. Intact'
  BY <1>6, <1>7, Zenon DEF Intact
<1> QED
  BY <1>0, <1>3, <1>8, NoSnapChange, NoTakerChange, CopiesKept, SnapsKept, Zenon DEF SnapInv

\* The next command of an intact state machine is the one after the last delivered.
LEMMA SnapDeliver == ASSUME Grows, SnapInv, Deliver PROVE SnapInv'
<1>0. /\ up /\ UNCHANGED logVars /\ UNCHANGED snapVars /\ UNCHANGED takerVars
      /\ UNCHANGED nodeVars /\ applied' = applied
  BY Zenon DEF Deliver
<1>1. PICK i \in Undelivered : (\A j \in Undelivered : i <= j) /\ sent' = i /\ ApplyCommand(i)
  BY Zenon DEF Deliver
<1>2. i \in log /\ i > sent /\ i \in 1 .. last /\ sent \in 0 .. last /\ last \in Nat
  BY <1>1, Ranges, Zenon DEF Undelivered, Grows
<1>3. seen' = seen /\ pc' = pc /\ last' = last /\ log' = log /\ (up' <=> up)
  BY <1>0 DEF takerVars, logVars, nodeVars
<1>4. Counts'
  <2>1. arrived' \in {0, i}
    BY <1>1, Zenon DEF ApplyCommand
  <2>2. /\ applied <= sent /\ \A t \in Takers : seen[t] <= sent /\ seen[t] \in Index
    BY Zenon DEF SnapInv, Counts, Grows, TypeOK
  <2>3. applied \in Nat /\ \A t \in Takers : seen[t] \in Nat
    BY <2>2, Ranges, Numbers DEF Index, Grows
  <2> QED
    BY <1>0, <1>1, <1>2, <1>3, <2>1, <2>2, <2>3 DEF Counts
<1>5. Down'
  BY <1>0, <1>3, Zenon DEF Down
<1>6. ASSUME ~torn' PROVE ~torn /\ cache' = Effect(cache, i)
  BY <1>1, <1>6 DEF ApplyCommand
<1>7. ASSUME ~torn' PROVE cache' = Replay'[sent'] /\ \A j \in 1 .. last' : j > sent' => j \in log'
  <2>1. cache = Replay[sent] /\ \A j \in 1 .. last : j > sent => j \in log
    BY <1>0, <1>6, <1>7, Zenon DEF SnapInv, Intact
  <2>2. sent + 1 \in 1 .. last /\ sent + 1 > sent
    BY <1>2
  <2>3. sent + 1 \in Undelivered
    BY <2>1, <2>2, Zenon DEF Undelivered
  <2>4. i = sent + 1 /\ i - 1 = sent /\ i \in 0 .. last
    <3>1. i <= sent + 1
      BY <1>1, <2>3, Zenon
    <3> QED
      BY <1>2, <3>1
  <2>5. i \in Indexes
    BY <1>2, Ranges, Numbers DEF Indexes, Grows
  <2>6. Replay[i] = Effect(Replay[i - 1], i)
    BY <2>5, ReplayStep, Zenon DEF Grows
  <2>7. Replay'[i] = Replay[i]
    BY <2>4, ReplayKept, Zenon DEF Grows
  <2>8. cache' = Replay'[sent']
    BY <1>1, <1>6, <1>7, <2>1, <2>4, <2>6, <2>7, Zenon
  <2>9. \A j \in 1 .. last : j > i => j > sent
    BY <1>2
  <2> QED
    BY <1>1, <1>3, <2>1, <2>8, <2>9, Zenon
<1>8. Intact'
  BY <1>7, Zenon DEF Intact
<1> QED
  BY <1>0, <1>4, <1>5, <1>8, NoSnapChange, NoTakerChange, CopiesKept, SnapsKept, Zenon DEF SnapInv

LEMMA SnapAdvance == ASSUME Grows, SnapInv, Advance PROVE SnapInv'
<1>0. /\ applied' \in {arrived, applied} /\ arrived' = 0 /\ cache' = cache /\ sent' = sent
      /\ UNCHANGED logVars /\ UNCHANGED snapVars /\ UNCHANGED takerVars
      /\ UNCHANGED nodeVars /\ UNCHANGED torn
  BY Zenon DEF Advance
<1>1. /\ seen' = seen /\ pc' = pc /\ last' = last /\ log' = log /\ (up' <=> up) /\ up' = up
  BY <1>0 DEF takerVars, logVars, nodeVars
<1>2. sent \in Nat
  BY Ranges DEF Grows
<1>3. Counts'
  BY <1>0, <1>1, <1>2 DEF SnapInv, Counts
<1>4. Down'
  BY <1>0, <1>1, Zenon DEF SnapInv, Down
<1>5. Intact'
  BY <1>0, <1>1, IntactKept, Zenon
<1> QED
  BY <1>0, <1>3, <1>4, <1>5, NoSnapChange, NoTakerChange, CopiesKept, SnapsKept, Zenon DEF SnapInv

\* A step of TakeSnapshot or of the snapshot loop: the state machine goes its way.
Steady == UNCHANGED <<cache, sent, applied, arrived, up, torn, last>>

LEMMA TakerStep ==
    ASSUME Grows, SnapInv, NEW t \in Takers, Steady, up,
           \A x \in Takers \ {t} : seen'[x] = seen[x],
           seen'[t] \in {seen[t], applied, 0},
           \A i \in log \ log' : i <= sent,
           Copies', SnapshotCovers'
    PROVE  SnapInv'
<1>1. UNCHANGED <<cache, sent, up, torn, last>> /\ applied' = applied /\ arrived' = arrived /\ sent' = sent
  BY Zenon DEF Steady
<1>2. up'
  BY <1>1
<1>3. Intact'
  BY <1>1, IntactKept, Zenon
<1>4. Down'
  BY <1>2, Zenon DEF Down
<1>5. applied <= sent /\ arrived <= sent /\ (\A x \in Takers : seen[x] <= sent) /\ 0 <= sent
  BY Ranges DEF SnapInv, Counts, Grows
<1>6. \A x \in Takers : seen'[x] <= sent
  BY <1>5, Zenon
<1>7. Counts'
  BY <1>1, <1>5, <1>6, Zenon DEF Counts
<1> QED
  BY <1>3, <1>4, <1>7, Zenon DEF SnapInv

\* A call of TakeSnapshot is of a running process.
LEMMA TakerUp == ASSUME SnapInv, NEW t \in Takers, pc[t] # "idle" PROVE up
  BY Zenon DEF SnapInv, Down

LEMMA SnapTick == ASSUME Grows, SnapInv, Tick PROVE SnapInv'
<1>0. /\ up /\ pc[Loop] = "idle" /\ pc' = [pc EXCEPT ![Loop] = "tick"] /\ seen' = seen /\ data' = data
      /\ whole' = whole /\ Steady /\ UNCHANGED snapVars /\ log' = log /\ Loop \in Takers
  BY ClusterAssumption, Zenon DEF Tick, Steady, fsmVars, nodeVars, logVars
<1>1. \A t \in whole : t \in Takers /\ pc[t] = "create"
  BY Zenon DEF SnapInv, Copies, Grows, TypeOK
<1>2. OldCopies
  BY <1>0, <1>1, Zenon DEF OldCopies, Grows, TypeOK
<1>3. Copies' /\ SnapshotCovers'
  BY <1>0, <1>2, NoSnapChange, CopiesKept, SnapsKept, Zenon
<1> QED
  BY <1>0, <1>3, TakerStep, Zenon

LEMMA SnapTake == ASSUME Grows, SnapInv, NEW t \in Takers, TakeSnapshot(t) PROVE SnapInv'
<1>0. /\ up /\ pc[t] # "create" /\ pc' = [pc EXCEPT ![t] = "data"]
      /\ seen' = [seen EXCEPT ![t] = applied] /\ data' = data
      /\ whole' = whole /\ Steady /\ UNCHANGED snapVars /\ log' = log
  BY Zenon DEF TakeSnapshot, Steady, fsmVars, nodeVars, logVars
<1>1. \A x \in whole : x \in Takers /\ pc[x] = "create"
  BY Zenon DEF SnapInv, Copies, Grows, TypeOK
<1>2. /\ \A x \in Takers \ {t} : seen'[x] = seen[x] /\ pc'[x] = pc[x]
      /\ seen'[t] = applied
  BY <1>0, Zenon DEF Grows, TypeOK
<1>3. OldCopies
  BY <1>0, <1>1, <1>2, Zenon DEF OldCopies
<1>4. Copies' /\ SnapshotCovers'
  BY <1>0, <1>3, NoSnapChange, CopiesKept, SnapsKept, Zenon
<1> QED
  BY <1>0, <1>2, <1>4, TakerStep, Zenon

\* The copy is of what was delivered, which the index does not exceed.
LEMMA SnapData == ASSUME Grows, SnapInv, NEW t \in Takers, TakeData(t) PROVE SnapInv'
<1>0. /\ pc[t] = "data" /\ pc' = [pc EXCEPT ![t] = "create"]
      /\ data' = [data EXCEPT ![t] = cache] /\ seen' = seen
      /\ whole' = IF torn THEN whole \ {t} ELSE whole \cup {t}
      /\ Steady /\ UNCHANGED snapVars /\ log' = log
  BY Zenon DEF TakeData, Steady, fsmVars, nodeVars, logVars
<1>1. up
  BY <1>0, TakerUp, Zenon
<1>2. /\ \A x \in Takers \ {t} : data'[x] = data[x] /\ pc'[x] = pc[x]
      /\ data'[t] = cache /\ pc'[t] = "create"
  BY <1>0, Zenon DEF Grows, TypeOK
<1>3. whole' \subseteq whole \cup {t} /\ (t \in whole' => ~torn \/ t \in whole) /\ t \notin whole
  BY <1>0, Zenon DEF SnapInv, Copies
<1>4. ASSUME NEW x \in whole' PROVE pc'[x] = "create" /\ Reaches(seen[x], data[x])'
  <2>1. CASE x = t
    <3>1. ~torn
      BY <1>3, <1>4, <2>1, Zenon
    <3>2. cache = Replay[sent]
      BY <1>1, <3>1, Zenon DEF SnapInv, Intact
    <3>3. seen[t] \in Index /\ seen[t] <= sent
      BY Zenon DEF SnapInv, Counts, Grows, TypeOK
    <3>4. PICK n \in Nat : n = seen[t]
      BY <3>3, Numbers DEF Index
    <3>5. sent \in n .. last
      BY <3>3, <3>4, Ranges DEF Grows
    <3>6. Reaches(n, cache)
      BY <3>2, <3>5, Zenon DEF Reaches
    <3>7. PICK c : c = cache
      BY Zenon
    <3>8. Reaches(n, c)'
      BY <3>6, <3>7, ReachesKept, Zenon
    <3>9. n = seen'[x] /\ c = data'[x]
      BY <1>0, <1>2, <2>1, <3>4, <3>7, Zenon
    <3> QED
      BY <1>2, <2>1, <3>8, <3>9, Zenon DEF Reaches
  <2>2. CASE x # t
    <3>0. x \in whole /\ x \in Takers
      BY <1>3, <1>4, <2>2, Zenon DEF Grows, TypeOK
    <3>1. pc[x] = "create" /\ Reaches(seen[x], data[x]) /\ seen[x] \in Index
      BY <3>0, Zenon DEF SnapInv, Copies, Grows, TypeOK
    <3>2. PICK n \in Nat : n = seen[x]
      BY <3>1, Numbers DEF Index
    <3>3. PICK c : c = data[x]
      BY Zenon
    <3>4. Reaches(n, c)'
      BY <3>1, <3>2, <3>3, ReachesKept, Zenon
    <3>5. n = seen'[x] /\ c = data'[x] /\ pc'[x] = pc[x]
      BY <1>0, <1>2, <2>2, <3>0, <3>2, <3>3, Zenon
    <3> QED
      BY <3>1, <3>4, <3>5, Zenon DEF Reaches
  <2> QED
    BY <2>1, <2>2, Zenon
<1>5. Copies'
  BY <1>4, Zenon DEF Copies
<1>6. SnapshotCovers'
  BY <1>0, NoSnapChange, SnapsKept, Zenon
<1> QED
  BY <1>0, <1>1, <1>5, <1>6, TakerStep, Zenon

\* The snapshot gets the index and the copy.
LEMMA SnapCreate == ASSUME Grows, SnapInv, NEW t \in Takers, CreateSnapshot(t) PROVE SnapInv'
<1>0. /\ pc[t] = "create" /\ data' = [data EXCEPT ![t] = Empty] /\ whole' = whole \ {t}
      /\ Steady /\ log' = log
  BY Zenon DEF CreateSnapshot, Steady, fsmVars, nodeVars, logVars
<1>1. up
  BY <1>0, TakerUp, Zenon
<1>2. PICK l : pc' = [pc EXCEPT ![t] = l]
  BY Zenon DEF CreateSnapshot, Return
<1>3. /\ \A x \in Takers \ {t} : seen'[x] = seen[x]
      /\ seen'[t] \in {seen[t], 0}
  BY Zenon DEF CreateSnapshot, Return, Grows, TypeOK
<1>4. whole \subseteq Takers
  BY Zenon DEF Grows, TypeOK
<1>5. OldCopies
  BY <1>0, <1>2, <1>3, <1>4, Zenon DEF OldCopies, Grows, TypeOK
<1>6. SnapshotCovers'
  <2>1. CASE UNCHANGED snapVars
    BY <2>1, NoSnapChange, SnapsKept, Zenon
  <2>2. CASE ~UNCHANGED snapVars
    <3>1. /\ snaps < MaxSnapshots
          /\ at' = [at EXCEPT ![snaps + 1] = seen[t]]
          /\ content' = [content EXCEPT ![snaps + 1] = data[t]]
          /\ sound' = IF t \in whole THEN sound \cup {snaps + 1} ELSE sound
          /\ file' = file \cup {snaps + 1}
      BY <2>2, Zenon DEF CreateSnapshot
    <3>2. snaps + 1 \in Ids /\ \A s \in sound : s # snaps + 1
      <4>1. snaps \in Nat /\ \A s \in sound : s \in 1 .. snaps
        BY Ranges, Zenon DEF Grows, TypeOK
      <4> QED
        BY <3>1, <4>1, Numbers DEF Ids
    <3>3. \A s \in sound : at'[s] = at[s] /\ content'[s] = content[s]
      <4>1. \A s \in sound : s \in Ids
        BY Ranges, Numbers DEF Ids, Grows, TypeOK
      <4> QED
        BY <3>1, <3>2, <4>1, ZenonT(60) DEF Grows, TypeOK
    <3>4. ASSUME NEW s \in sound' \cap file' PROVE \E i \in at'[s] .. last' : content'[s] = Replay'[i]
      <4>1. CASE s \in sound
        <5>1. s \in sound \cap file
          BY <3>1, <3>2, <3>4, <4>1, Zenon
        <5> QED
          BY <3>3, <5>1, SnapKept, Zenon
      <4>2. CASE s \notin sound
        <5>1. s = snaps + 1 /\ t \in whole
          BY <3>1, <3>4, <4>2, Zenon
        <5>2. at'[s] = seen[t] /\ content'[s] = data[t]
          BY <3>1, <3>2, <5>1, Zenon DEF Grows, TypeOK
        <5>3. Reaches(seen[t], data[t]) /\ seen[t] \in Index
          BY <5>1, Zenon DEF SnapInv, Copies, Grows, TypeOK
        <5>4. PICK n \in Nat : n = seen[t]
          BY <5>3, Numbers DEF Index
        <5>5. PICK c : c = data[t]
          BY Zenon
        <5>6. Reaches(n, c)'
          BY <5>3, <5>4, <5>5, ReachesKept, Zenon
        <5>7. n = at'[s] /\ c = content'[s]
          BY <5>2, <5>4, <5>5, Zenon
        <5> QED
          BY <5>6, <5>7, Zenon DEF Reaches
      <4> QED
        BY <4>1, <4>2, Zenon
    <3> QED
      BY <3>4, Zenon DEF SnapshotCovers, Holds
  <2> QED
    BY <2>1, <2>2, Zenon
<1>7. Copies'
  BY <1>5, CopiesKept, Zenon
<1> QED
  BY <1>0, <1>1, <1>3, <1>6, <1>7, TakerStep, Zenon

\* What is compacted away was delivered.
LEMMA SnapCompact == ASSUME Grows, SnapInv, NEW t \in Takers, Compact(t) PROVE SnapInv'
<1>0. /\ pc[t] = "compact" /\ data' = data /\ whole' = whole
      /\ pc' = [pc EXCEPT ![t] = "idle"] /\ seen' = [seen EXCEPT ![t] = 0]
      /\ Steady /\ UNCHANGED snapVars
  BY Zenon DEF Compact, Return, Steady, fsmVars, nodeVars
<1>1. up
  BY <1>0, TakerUp, Zenon
<1>2. (\A x \in Takers \ {t} : seen'[x] = seen[x] /\ pc'[x] = pc[x]) /\ seen'[t] = 0
  BY <1>0, Zenon DEF Grows, TypeOK
<1>3. \A x \in whole : x \in Takers /\ pc[x] = "create"
  BY Zenon DEF SnapInv, Copies, Grows, TypeOK
<1>4. OldCopies
  BY <1>0, <1>2, <1>3, Zenon DEF OldCopies
<1>5. ASSUME NEW i \in log \ log' PROVE i <= sent
  <2>1. i \in Deleted(seen[t])
    BY <1>5, Zenon DEF Compact
  <2>2. seen[t] \in Index /\ seen[t] <= sent
    BY Zenon DEF SnapInv, Counts, Grows, TypeOK
  <2>3. PICK n \in Index : n = seen[t]
    BY <2>2, Zenon
  <2>4. i \in log /\ i <= n
    BY <2>1, <2>3, DeletedBelow, Zenon DEF Grows
  <2>5. i \in Nat /\ sent \in Nat /\ n \in Nat
    BY <2>3, <2>4, Ranges, Numbers DEF Index, Grows
  <2>6. n <= sent
    BY <2>2, <2>3, Zenon
  <2> QED
    BY <2>4, <2>5, <2>6
<1>6. Copies' /\ SnapshotCovers'
  BY <1>0, <1>4, NoSnapChange, CopiesKept, SnapsKept, Zenon
<1> QED
  BY <1>0, <1>1, <1>2, <1>5, <1>6, TakerStep, Zenon

LEMMA SnapCleanup == ASSUME Grows, SnapInv, Cleanup PROVE SnapInv'
<1>0. UNCHANGED fsmVars /\ UNCHANGED takerVars /\ UNCHANGED logVars /\ UNCHANGED nodeVars /\ torn' = torn
  BY Zenon DEF Cleanup
<1>1. PICK gone : /\ sound' = sound /\ file' = file \ gone /\ at' = at
                  /\ content' = [s \in Ids |-> IF s \in gone THEN Empty ELSE content[s]]
  BY Zenon DEF Cleanup
<1>2. \A s \in sound : s \in Ids
  BY Ranges, Numbers DEF Ids, Grows, TypeOK
<1>3. OldSnaps
  BY <1>1, <1>2, Zenon DEF OldSnaps
<1>4. Copies' /\ SnapshotCovers'
  BY <1>0, <1>3, NoTakerChange, CopiesKept, SnapsKept, Zenon
<1>5. /\ UNCHANGED <<cache, sent, up, torn, last>> /\ log' = log
      /\ applied' = applied /\ arrived' = arrived /\ sent' = sent /\ seen' = seen /\ pc' = pc
      /\ cache' = cache
  BY <1>0, Zenon DEF fsmVars, takerVars, logVars, nodeVars
<1>6. up' <=> up
  BY <1>5
<1>7. Intact'
  BY <1>5, IntactKept, Zenon
<1> QED
  BY <1>4, <1>5, <1>6, <1>7, Zenon DEF SnapInv, Counts, Down

LEMMA SnapRestore == ASSUME Grows, SnapInv, Restore PROVE SnapInv'
<1>0. /\ UNCHANGED takerVars /\ UNCHANGED nodeVars /\ UNCHANGED snapVars /\ torn' /\ up
      /\ sent' = sent /\ applied' = applied /\ arrived' = arrived
  BY DEF Restore
<1>1. up' /\ seen' = seen
  BY <1>0 DEF nodeVars, takerVars
<1>2. Copies' /\ SnapshotCovers'
  BY <1>0, NoSnapChange, NoTakerChange, CopiesKept, SnapsKept, Zenon
<1> QED
  BY <1>0, <1>1, <1>2, Zenon DEF SnapInv, Counts, Down, Intact

LEMMA SnapIdle == ASSUME Grows, SnapInv, UNCHANGED vars PROVE SnapInv'
<1>0. /\ UNCHANGED takerVars /\ UNCHANGED snapVars
      /\ UNCHANGED <<cache, sent, up, torn, last>> /\ log' = log
      /\ applied' = applied /\ arrived' = arrived /\ sent' = sent /\ seen' = seen /\ pc' = pc
      /\ cache' = cache
  BY Zenon DEF vars, fsmVars, takerVars, logVars, nodeVars
<1>1. up' <=> up
  BY <1>0
<1>2. Copies' /\ SnapshotCovers' /\ Intact'
  BY <1>0, NoSnapChange, NoTakerChange, CopiesKept, SnapsKept, IntactKept, Zenon
<1> QED
  BY <1>0, <1>1, <1>2, Zenon DEF SnapInv, Counts, Down

LEMMA SnapKeeps == TypeOK /\ CleaningInv /\ SnapInv /\ [Next]_vars => SnapInv'
<1> SUFFICES ASSUME TypeOK, CleaningInv, SnapInv, [Next]_vars PROVE SnapInv'
  BY Zenon
<1>1. Grows
  BY GrowsStep, Zenon
<1> QED
  BY <1>1, SnapStart, SnapCrash, SnapAppend, SnapDeliver, SnapAdvance, SnapTick, SnapTake, SnapData,
     SnapCreate, SnapCompact, SnapCleanup, SnapRestore, SnapIdle, Zenon DEF Next

LEMMA SnapInit == Init => SnapInv
<1> SUFFICES ASSUME Init PROVE SnapInv
  BY Zenon
<1>1. /\ ~up /\ cache = Empty /\ sent = 0 /\ arrived = 0 /\ applied = 0 /\ whole = {} /\ sound = {}
      /\ pc = [t \in Takers |-> "idle"] /\ seen = [t \in Takers |-> 0]
  BY DEF Init
<1>2. Counts
  BY <1>1 DEF Counts
<1> QED
  BY <1>1, <1>2, Zenon DEF SnapInv, Down, Intact, Copies, SnapshotCovers

\* A snapshot of a state machine that missed nothing has every command up to its
\* index, however the calls of TakeSnapshot, the apply loop, compaction and crashes
\* interleave, and for any bound on commands and snapshots.
THEOREM SnapshotsCover == Spec => []SnapshotCovers
<1>1. IInv /\ SnapInv /\ [Next]_vars => SnapInv'
  BY SnapKeeps, Zenon DEF IInv
<1>2. SnapInv => SnapshotCovers
  BY Zenon DEF SnapInv
<1> QED
  BY InitInv, StepKeeps, SnapInit, <1>1, <1>2, PTL DEF Spec

\* However many calls of TakeSnapshot overlap, and wherever the process crashes, the
\* compaction of the log and cleanupSnapshots together lose no command: one that is
\* not in the log has its effect in a snapshot that can be read.  It is so until a
\* snapshot is created or removed by half, or is taken of a state machine that
\* missed a command, was restored, or began in the middle of the log.
THEOREM LogIsCovered == Spec => []LogCovered
<1>1. IInv /\ SnapInv /\ [Next]_vars => SnapInv'
  BY SnapKeeps, Zenon DEF IInv
<1>2. ASSUME IInv, SnapInv PROVE LogCovered
  <2>1. ASSUME ~hollow, sound = 1 .. snaps, NEW i \in 1 .. last, i \notin log
        PROVE  \E s \in row \cap file : at[s] >= i /\ Holds(s)
    <3>1. PICK s \in row : at[s] >= i
      BY <1>2, <2>1, Zenon DEF IInv, CoverInv, Covered
    <3>2. s \in file /\ s \in sound
      BY <1>2, <2>1, <3>1, Zenon DEF IInv, CoverInv, TypeOK
    <3> QED
      BY <1>2, <3>1, <3>2, Zenon DEF SnapInv, SnapshotCovers
  <2> QED
    BY <2>1, Zenon DEF LogCovered
<1> QED
  BY InitInv, StepKeeps, SnapInit, <1>1, <1>2, PTL DEF Spec

=============================================================================
