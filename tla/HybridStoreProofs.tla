------------------------- MODULE HybridStoreProofs --------------------------
(***************************************************************************)
(* Proofs about HybridStore, for any set of hashes and of callers.         *)
(*                                                                         *)
(* The argument: only Delete removes a blob from the cold tier, and a hash *)
(* stays doomed as long as any call on it is in flight.  So what a call    *)
(* has seen in the cold tier, or put there, is there when it acts on it,   *)
(* unless the hash is doomed.  CallInv says so for each point of a call.   *)
(***************************************************************************)
EXTENDS HybridStore, TLAPS

Deleting(p) == pc[p] \in {"deleteHot", "deleteRead", "deleteCold"} => at[p] \in doomed

Dropping(p) == pc[p] = "drop" /\ at[p] \notin doomed => at[p] \in cold

Reading(p) ==
    /\ pc[p] \in {"getHot", "existsHot"} /\ expects[p] /\ at[p] \notin doomed => at[p] \in Stored
    /\ pc[p] \in {"getCold", "existsCold"} /\ expects[p] /\ at[p] \notin doomed => at[p] \in cold

CallInv(p) == Deleting(p) /\ Dropping(p) /\ Reading(p)

IInv == TypeOK /\ \A p \in Callers : CallInv(p)

\* What a step of caller p leaves alone: the calls of the others, and the
\* blobs in the tiers, except doomed ones and hot ones with a cold copy.
OthersStay(p) ==
    \A q \in Callers \ {p} : pc'[q] = pc[q] /\ at'[q] = at[q] /\ expects'[q] = expects[q]

DoomStays(p) == \A q \in Callers \ {p} : at[q] \in doomed => at[q] \in doomed'

BlobsStay == \A h \in Hashes \ doomed : (h \in cold => h \in cold') /\ (h \in Stored => h \in Stored')

-----------------------------------------------------------------------------
\* A step that leaves these alone leaves what is known of other calls alone.
LEMMA OtherCalls ==
    ASSUME IInv, NEW p \in Callers, OthersStay(p), DoomStays(p), BlobsStay,
           NEW q \in Callers \ {p}
    PROVE  CallInv(q)'
  <1>1. CallInv(q) /\ q \in Callers
    BY DEF IInv
  <1>2. pc'[q] = pc[q] /\ at'[q] = at[q] /\ expects'[q] = expects[q]
    BY DEF OthersStay
  <1>3. at[q] \in doomed => at[q] \in doomed'
    BY DEF DoomStays
  <1>4. pc[q] # "idle" => at[q] \in Hashes
    BY <1>1 DEF IInv, TypeOK
  <1>5. Deleting(q)'
    BY <1>1, <1>2, <1>3 DEF CallInv, Deleting
  <1>6. Dropping(q)'
    BY <1>1, <1>2, <1>3, <1>4 DEF CallInv, Dropping, BlobsStay
  <1>7. Reading(q)'
    BY <1>1, <1>2, <1>3, <1>4 DEF CallInv, Reading, BlobsStay
  <1>8. QED
    BY <1>5, <1>6, <1>7 DEF CallInv

\* A call that begins disturbs no other call, whatever hash becomes doomed.
LEMMA BeginStep ==
    ASSUME IInv, NEW p \in Callers, NEW h \in Hashes, NEW l \in Pcs \ {"idle"},
           Begin(p, h, l), doomed' \in {doomed, doomed \cup {h}},
           NEW b \in BOOLEAN, expects' = [expects EXCEPT ![p] = b]
    PROVE  /\ TypeOK'
           /\ OthersStay(p) /\ DoomStays(p) /\ BlobsStay
           /\ pc'[p] = l /\ at'[p] = h /\ expects'[p] = b
  <1>1. TypeOK
    BY DEF IInv
  <1>2. h # NoHash
    BY HybridAssumption
  <1>3. pc' \in [Callers -> Pcs] /\ at' \in [Callers -> Hashes \cup {NoHash}]
        /\ expects' \in [Callers -> BOOLEAN]
    BY <1>1 DEF TypeOK, Begin
  <1>4. pc'[p] = l /\ at'[p] = h /\ expects'[p] = b
    BY <1>1 DEF TypeOK, Begin
  <1>5. OthersStay(p)
    BY <1>1 DEF TypeOK, Begin, OthersStay
  <1>6. \A q \in Callers : pc'[q] = "idle" <=> at'[q] = NoHash
    BY <1>1, <1>2, <1>4, <1>5 DEF TypeOK, OthersStay
  <1>7. TypeOK'
    BY <1>1, <1>3, <1>6 DEF TypeOK, Begin
  <1>8. DoomStays(p) /\ BlobsStay
    BY DEF DoomStays, BlobsStay, Begin, Stored
  <1>9. QED
    BY <1>4, <1>5, <1>7, <1>8

\* A call that goes on to its next access disturbs no other call.
LEMMA GotoStep ==
    ASSUME IInv, NEW p \in Callers, pc[p] # "idle", NEW l \in Pcs \ {"idle"}, Goto(p, l),
           hot' \subseteq Hashes, cold' \subseteq Hashes
    PROVE  /\ TypeOK'
           /\ OthersStay(p) /\ DoomStays(p)
           /\ pc'[p] = l /\ at' = at /\ expects' = expects /\ doomed' = doomed
  <1>1. TypeOK
    BY DEF IInv
  <1>2. pc' \in [Callers -> Pcs] /\ pc'[p] = l
    BY <1>1 DEF TypeOK, Goto
  <1>3. OthersStay(p)
    BY <1>1 DEF TypeOK, Goto, OthersStay
  <1>4. \A q \in Callers : pc'[q] = "idle" <=> at'[q] = NoHash
    BY <1>1, <1>2, <1>3 DEF TypeOK, OthersStay, Goto
  <1>5. QED
    BY <1>1, <1>2, <1>3, <1>4 DEF TypeOK, Goto, DoomStays

\* A call that returns disturbs no other call: its hash is taken out of doomed
\* only if no other call is at it.
LEMMA ReturnStep ==
    ASSUME IInv, NEW p \in Callers, Return(p), hot' \subseteq Hashes, cold' \subseteq Hashes
    PROVE  /\ TypeOK'
           /\ OthersStay(p) /\ DoomStays(p)
           /\ CallInv(p)'
  <1>1. TypeOK
    BY DEF IInv
  <1>2. pc' \in [Callers -> Pcs] /\ at' \in [Callers -> Hashes \cup {NoHash}]
        /\ expects' \in [Callers -> BOOLEAN] /\ pc'[p] = "idle" /\ at'[p] = NoHash
    BY <1>1 DEF TypeOK, Return, Pcs
  <1>3. OthersStay(p)
    BY <1>1 DEF TypeOK, Return, OthersStay
  <1>4. \A q \in Callers : pc'[q] = "idle" <=> at'[q] = NoHash
    BY <1>1, <1>2, <1>3 DEF TypeOK, OthersStay
  <1>5. doomed' \subseteq Hashes /\ DoomStays(p)
    BY <1>1 DEF TypeOK, Return, DoomStays
  <1>6. CallInv(p)'
    BY <1>2 DEF CallInv, Deleting, Dropping, Reading
  <1>7. QED
    BY <1>2, <1>3, <1>4, <1>5, <1>6 DEF TypeOK

-----------------------------------------------------------------------------
\* What is known of the others, and of the caller itself, is all there is.
LEMMA Assemble ==
    ASSUME IInv, NEW p \in Callers, TypeOK', OthersStay(p), DoomStays(p), BlobsStay, CallInv(p)'
    PROVE  IInv'
  <1>1. \A q \in Callers \ {p} : CallInv(q)'
    BY OtherCalls
  <1>2. QED
    BY <1>1 DEF IInv

\* The initial state satisfies the invariant.
LEMMA InitIInv == Init => IInv
  BY DEF Init, IInv, TypeOK, CallInv, Deleting, Dropping, Reading, Pcs

\* Every call begins in accord with the invariant: a Delete dooms its hash, and
\* a read expects only what is in some tier.
LEMMA CallStep ==
    ASSUME IInv, NEW p \in Callers, NEW h \in Hashes, Call(p, h)
    PROVE  IInv'
  <1>0. TypeOK /\ expects \in [Callers -> BOOLEAN]
    BY DEF IInv, TypeOK
  <1>1. CASE Put(p, h) \/ WarmUp(p, h) \/ CoolDown(p, h)
    <2>1. PICK l \in {"putStat", "warmCold", "coolHot"} :
              Begin(p, h, l) /\ UNCHANGED <<expects, doomed>>
      BY <1>1 DEF Put, WarmUp, CoolDown
    <2>2. l \in Pcs \ {"idle"} /\ expects[p] \in BOOLEAN
          /\ expects' = [expects EXCEPT ![p] = expects[p]] /\ doomed' = doomed
      BY <1>0, <2>1 DEF Pcs
    <2>3. TypeOK' /\ OthersStay(p) /\ DoomStays(p) /\ BlobsStay /\ pc'[p] = l
      BY <2>1, <2>2, BeginStep, Zenon
    <2>4. CallInv(p)'
      BY <2>1, <2>3 DEF CallInv, Deleting, Dropping, Reading
    <2>5. QED
      BY <2>3, <2>4, Assemble
  <1>2. CASE Get(p, h) \/ Exists(p, h)
    <2> DEFINE b == h \in Stored /\ h \notin doomed
    <2>1. PICK l \in {"getHot", "existsHot"} :
              Begin(p, h, l) /\ doomed' = doomed /\ expects' = [expects EXCEPT ![p] = b]
      BY <1>2 DEF Get, Exists
    <2>2. l \in Pcs \ {"idle"} /\ b \in BOOLEAN
      BY <2>1 DEF Pcs
    <2>3. /\ TypeOK' /\ OthersStay(p) /\ DoomStays(p) /\ BlobsStay
          /\ pc'[p] = l /\ at'[p] = h /\ expects'[p] = b
      BY <2>1, <2>2, BeginStep, Zenon
    <2>4. b => h \in Stored'
      BY <2>1 DEF Begin, Stored
    <2>5. CallInv(p)'
      BY <2>1, <2>3, <2>4, Zenon DEF CallInv, Deleting, Dropping, Reading
    <2>6. QED
      BY <2>3, <2>5, Assemble
  <1>3. CASE Delete(p, h)
    <2>1. Begin(p, h, "deleteHot") /\ doomed' = doomed \cup {h}
          /\ "deleteHot" \in Pcs \ {"idle"} /\ expects[p] \in BOOLEAN
          /\ expects' = [expects EXCEPT ![p] = expects[p]]
      BY <1>0, <1>3 DEF Delete, Pcs
    <2>2. /\ TypeOK' /\ OthersStay(p) /\ DoomStays(p) /\ BlobsStay
          /\ pc'[p] = "deleteHot" /\ at'[p] = h
      BY <2>1, BeginStep, Zenon
    <2>3. CallInv(p)'
      BY <2>1, <2>2 DEF CallInv, Deleting, Dropping, Reading
    <2>4. QED
      BY <2>2, <2>3, Assemble
  <1>4. QED
    BY <1>1, <1>2, <1>3 DEF Call

\* An access that changes no tier: the call returns, or goes on in accord with
\* what it has seen.
LEMMA LookStep ==
    ASSUME IInv, NEW p \in Callers, pc[p] # "idle", UNCHANGED <<hot, cold>>,
           Return(p) \/ \E l \in Pcs \ {"idle"} : Goto(p, l) /\ (pc'[p] = l => CallInv(p)')
    PROVE  IInv'
  <1>1. hot' \subseteq Hashes /\ cold' \subseteq Hashes /\ BlobsStay
    BY DEF IInv, TypeOK, BlobsStay, Stored
  <1>2. CASE Return(p)
    BY <1>1, <1>2, ReturnStep, Assemble
  <1>3. CASE \E l \in Pcs \ {"idle"} : Goto(p, l) /\ (pc'[p] = l => CallInv(p)')
    BY <1>1, <1>3, GotoStep, Assemble
  <1>4. QED
    BY <1>2, <1>3

Plain == {"putStat", "rename", "warmCold", "warmHot", "warmRead", "coolHot", "coolCold",
          "coolRead", "uploadStat", "upload"}

\* Nothing is known of a call at a plain access.
LEMMA PlainCall ==
    ASSUME NEW p \in Callers, pc'[p] \in Plain
    PROVE  CallInv(p)'
  BY DEF CallInv, Deleting, Dropping, Reading, Plain

\* The accesses that only look, and a crash, preserve the invariant.
LEMMA PlainStep ==
    ASSUME IInv, NEW p \in Callers,
           \/ PutStat(p) \/ GetCold(p) \/ ExistsCold(p) \/ WarmCold(p) \/ WarmHot(p)
           \/ WarmRead(p) \/ CoolHot(p) \/ CoolRead(p) \/ UploadStat(p) \/ Crash(p)
    PROVE  IInv'
  <1>1. /\ pc[p] # "idle"
        /\ UNCHANGED <<hot, cold>>
        /\ Return(p) \/ \E l \in Plain : Goto(p, l)
    BY DEF PutStat, GetCold, ExistsCold, WarmCold, WarmHot, WarmRead, CoolHot, CoolRead,
           UploadStat, Crash, Plain
  <1>2. \A l \in Plain : l \in Pcs \ {"idle"} /\ (pc'[p] = l => CallInv(p)')
    BY PlainCall DEF Pcs, Plain
  <1>3. QED
    BY <1>1, <1>2, LookStep

\* A read that misses the hot tier has the blob in the cold one, if it expects it.
LEMMA LookHotStep ==
    ASSUME IInv, NEW p \in Callers, GetHot(p) \/ ExistsHot(p)
    PROVE  IInv'
  <1>1. PICK here \in {"getHot", "existsHot"}, next \in {"getCold", "existsCold"} :
            LookHot(p, here, next)
    BY DEF GetHot, ExistsHot
  <1>2. TypeOK /\ CallInv(p) /\ pc[p] = here /\ UNCHANGED <<hot, cold>>
        /\ next \in Pcs \ {"idle"}
    BY <1>1 DEF IInv, LookHot, Pcs
  <1>3. CASE at[p] \in hot /\ Return(p)
    BY <1>2, <1>3, LookStep
  <1>4. CASE at[p] \notin hot /\ Goto(p, next)
    <2>1. pc'[p] = next => CallInv(p)'
      BY <1>2, <1>4 DEF CallInv, Deleting, Dropping, Reading, Goto, Stored
    <2>2. QED
      BY <1>2, <1>4, <2>1, LookStep
  <1>5. CASE /\ Faults
             /\ pc' = [pc EXCEPT ![p] = next]
             /\ expects' = [expects EXCEPT ![p] = FALSE]
             /\ UNCHANGED <<at, doomed>>
    <2>1. pc' \in [Callers -> Pcs] /\ pc'[p] = next /\ expects' \in [Callers -> BOOLEAN]
          /\ expects'[p] = FALSE
      BY <1>2, <1>5 DEF TypeOK
    <2>2. OthersStay(p)
      BY <1>2, <1>5 DEF TypeOK, OthersStay
    <2>3. \A q \in Callers : pc'[q] = "idle" <=> at'[q] = NoHash
      BY <1>2, <1>5, <2>1, <2>2 DEF TypeOK, OthersStay
    <2>4. TypeOK' /\ DoomStays(p) /\ BlobsStay
      BY <1>2, <1>5, <2>1, <2>3 DEF TypeOK, DoomStays, BlobsStay, Stored
    <2>5. CallInv(p)'
      BY <2>1 DEF CallInv, Deleting, Dropping, Reading
    <2>6. QED
      BY <2>2, <2>4, <2>5, Assemble
  <1>6. QED
    BY <1>1, <1>3, <1>4, <1>5 DEF LookHot

\* CoolDown goes on to drop the hot blob when it has seen the cold one.
LEMMA CoolColdStep ==
    ASSUME IInv, NEW p \in Callers, CoolCold(p)
    PROVE  IInv'
  <1>1. pc[p] # "idle" /\ UNCHANGED <<hot, cold>>
    BY DEF CoolCold
  <1>2. CASE at[p] \in cold /\ Goto(p, "drop")
    <2>1. "drop" \in Pcs \ {"idle"} /\ (pc'[p] = "drop" => CallInv(p)')
      BY <1>1, <1>2 DEF Goto, Pcs, CallInv, Deleting, Dropping, Reading
    <2>2. QED
      BY <1>1, <1>2, <2>1, LookStep
  <1>3. CASE Goto(p, "coolRead")
    <2>1. "coolRead" \in Pcs \ {"idle"} /\ (pc'[p] = "coolRead" => CallInv(p)')
      BY PlainCall DEF Pcs, Plain
    <2>2. QED
      BY <1>1, <1>3, <2>1, LookStep
  <1>4. QED
    BY <1>2, <1>3 DEF CoolCold

\* The accesses that change a tier: Put and the upload only add, CoolDown drops
\* a hot blob that has a cold copy or is doomed, and Delete removes doomed ones.
LEMMA TierStep ==
    ASSUME IInv, NEW p \in Callers,
           Rename(p) \/ Upload(p) \/ Drop(p) \/ DeleteHot(p) \/ DeleteRead(p) \/ DeleteCold(p)
    PROVE  IInv' /\ BlobsStay
  <1>1. TypeOK /\ CallInv(p) /\ pc[p] # "idle" /\ at[p] \in Hashes
    BY DEF IInv, TypeOK, Rename, Upload, Drop, DeleteHot, DeleteRead, DeleteCold
  <1>2. hot' \subseteq Hashes /\ cold' \subseteq Hashes
    BY <1>1 DEF TypeOK, Rename, Upload, Drop, DeleteHot, DeleteRead, DeleteCold
  <1>3. BlobsStay
    <2>1. CASE Rename(p) \/ Upload(p) \/ DeleteRead(p)
      BY <2>1 DEF Rename, Upload, DeleteRead, BlobsStay, Stored
    <2>2. CASE Drop(p)
      BY <1>1, <2>2 DEF Drop, CallInv, Dropping, BlobsStay, Stored
    <2>3. CASE DeleteHot(p) \/ DeleteCold(p)
      BY <1>1, <2>3 DEF DeleteHot, DeleteCold, CallInv, Deleting, BlobsStay, Stored
    <2>4. QED
      BY <2>1, <2>2, <2>3
  <1>4. CASE Return(p)
    BY <1>2, <1>3, <1>4, ReturnStep, Assemble
  <1>5. CASE ~Return(p)
    <2>1. PICK l \in {"drop", "deleteRead", "deleteCold"} :
              /\ Goto(p, l)
              /\ l = "drop" => at[p] \in cold'
              /\ l # "drop" => pc[p] \in {"deleteHot", "deleteRead"}
      BY <1>5 DEF Rename, Upload, Drop, DeleteHot, DeleteRead, DeleteCold
    <2>2. l \in Pcs \ {"idle"}
      BY DEF Pcs
    <2>3. TypeOK' /\ OthersStay(p) /\ DoomStays(p) /\ pc'[p] = l /\ at' = at /\ doomed' = doomed
      BY <1>1, <1>2, <2>1, <2>2, GotoStep
    <2>4. CallInv(p)'
      BY <1>1, <2>1, <2>3 DEF CallInv, Deleting, Dropping, Reading
    <2>5. QED
      BY <1>3, <2>3, <2>4, Assemble
  <1>6. QED
    BY <1>3, <1>4, <1>5

\* Every access preserves the invariant.
LEMMA AccessStep ==
    ASSUME IInv, NEW p \in Callers, Step(p)
    PROVE  IInv'
  BY PlainStep, LookHotStep, CoolColdStep, TierStep DEF Step

-----------------------------------------------------------------------------
(* Theorems *)

\* CallInv holds of every call, whatever other calls, failures and crashes do.
THEOREM Invariance == Spec => []IInv
  <1>1. IInv /\ [Next]_vars => IInv'
    <2> SUFFICES ASSUME IInv, [Next]_vars PROVE IInv'
      OBVIOUS
    <2>1. CASE Next
      BY <2>1, CallStep, AccessStep DEF Next
    <2>2. CASE UNCHANGED vars
      BY <2>2 DEF vars, IInv, TypeOK, CallInv, Deleting, Dropping, Reading, Stored
    <2>3. QED
      BY <2>1, <2>2
  <1>2. QED
    BY InitIInv, <1>1, PTL DEF Spec

\* The types are kept.
THEOREM TypeCorrect == Spec => []TypeOK
  <1>1. IInv => TypeOK
    BY DEF IInv
  <1>2. QED
    BY <1>1, Invariance, PTL

\* Get and Exists find a blob that is there and not deleted, while CoolDown and
\* WarmUp of any number of other callers move it.
THEOREM ReadsFind == Spec => []ReadsFindBlobs
  <1>1. IInv => ReadsFindBlobs
    BY DEF IInv, CallInv, Reading, ReadsFindBlobs
  <1>2. QED
    BY <1>1, Invariance, PTL

\* An access changes the stored blobs and the doomed hashes only at its hash:
\* it is a Put, the disappearance of a doomed blob, or the end of the calls.
LEMMA AccessRefines ==
    ASSUME IInv, NEW p \in Callers, Step(p), pc[p] # "idle"
    PROVE  Keeping!Next \/ UNCHANGED Keeping!vars
  <1> DEFINE h == at[p]
  <1>1. h \in Hashes /\ CallInv(p)
    BY DEF IInv, TypeOK
  <1>2. doomed' \in {doomed, doomed \ {h}}
    BY Zenon DEF Step, PutStat, Rename, GetHot, ExistsHot, LookHot, GetCold, ExistsCold, WarmCold,
           WarmHot, WarmRead, CoolHot, CoolCold, CoolRead, UploadStat, Upload, Drop,
           DeleteHot, DeleteRead, DeleteCold, Crash, Goto, Return
  <1>3. Stored' \in {Stored, Stored \cup {h}} \/ (h \in doomed /\ Stored' \in {Stored, Stored \ {h}})
    <2>1. CASE UNCHANGED <<hot, cold>>
      BY <2>1 DEF Stored
    <2>2. CASE Rename(p) \/ Upload(p)
      BY <2>2 DEF Rename, Upload, Stored
    <2>3. CASE Drop(p)
      BY <1>1, <2>3 DEF Drop, CallInv, Dropping, Stored
    <2>4. CASE DeleteHot(p) \/ DeleteCold(p)
      BY <1>1, <2>4 DEF DeleteHot, DeleteCold, CallInv, Deleting, Stored
    <2>5. QED
      BY <2>1, <2>2, <2>3, <2>4, Zenon DEF Step, PutStat, GetHot, ExistsHot, LookHot, GetCold,
         ExistsCold, WarmCold, WarmHot, WarmRead, CoolHot, CoolCold, CoolRead, UploadStat,
         DeleteRead, Crash
  <1>4. Keeping!Put(h) \/ Keeping!Vanish(h) \/ Keeping!Settle(h)
    BY <1>2, <1>3 DEF Keeping!Put, Keeping!Vanish, Keeping!Settle, Keeping!MaySettle
  <1>5. QED
    BY <1>1, <1>4 DEF Keeping!Next

\* The hybrid store implements BlobKeeping: with the blobs of the two tiers
\* together as the stored ones, every behaviour keeps what was put until its
\* deletion is asked for.
THEOREM Refinement == Spec => KeepsBlobs
  <1>1. Init => Keeping!Init
    BY DEF Init, Keeping!Init, Stored
  <1>2. IInv /\ [Next]_vars => [Keeping!Next]_(Keeping!vars)
    <2> SUFFICES ASSUME IInv, [Next]_vars PROVE Keeping!Next \/ UNCHANGED Keeping!vars
      OBVIOUS
    <2>1. ASSUME NEW p \in Callers, Step(p) PROVE Keeping!Next \/ UNCHANGED Keeping!vars
      <3>1. pc[p] # "idle"
        BY <2>1 DEF Step, PutStat, Rename, GetHot, ExistsHot, LookHot, GetCold, ExistsCold,
           WarmCold, WarmHot, WarmRead, CoolHot, CoolCold, CoolRead, UploadStat, Upload, Drop,
           DeleteHot, DeleteRead, DeleteCold, Crash
      <3>2. QED
        BY <2>1, <3>1, AccessRefines
    <2>2. ASSUME NEW p \in Callers, NEW h \in Hashes, Call(p, h)
          PROVE  Keeping!Next \/ UNCHANGED Keeping!vars
      <3>1. UNCHANGED Stored /\ (doomed' = doomed \/ doomed' = doomed \cup {h})
        BY <2>2 DEF Call, Put, Get, Exists, WarmUp, CoolDown, Delete, Begin, Stored
      <3>2. QED
        BY <3>1 DEF Keeping!Next, Keeping!AskDelete, Keeping!vars
    <2>3. CASE UNCHANGED vars
      BY <2>3 DEF vars, Keeping!vars, Stored
    <2>4. QED
      BY <2>1, <2>2, <2>3 DEF Next
  <1>3. QED
    BY <1>1, <1>2, Invariance, PTL DEF Spec, KeepsBlobs, Keeping!Spec

=============================================================================
