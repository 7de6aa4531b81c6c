---------------------------- MODULE HybridStore -----------------------------
(***************************************************************************)
(* The hybrid blob store (internal/storage/blob/hybrid.go): a hot tier on  *)
(* the local disk (local.go) and a cold tier in S3 (s3.go).  Put writes to *)
(* the hot tier, reads look in the hot and then in the cold tier, CoolDown *)
(* moves a blob to the cold tier, WarmUp copies it back, and Delete        *)
(* removes it from both.                                                   *)
(*                                                                         *)
(* There is no lock: every access to a tier is a step of the call that     *)
(* makes it, and calls come from the daemon and from bib admin blob tier   *)
(* at once.  A tier is the set of hashes it holds: that overlapping Puts   *)
(* can truncate a local blob is the subject of BlobStore, here one of them *)
(* may fail.  Metadata is left out: a copy that does not find it fails.    *)
(* ApplyTieringPolicy is a sequence of CoolDowns of blobs of its choice.   *)
(*                                                                         *)
(* A definition whose name ends in _Broken or the like is the definition   *)
(* that follows it with a plausible mistake; no specification uses it.     *)
(***************************************************************************)

CONSTANTS
    Hashes,   \* content hashes
    Callers,  \* calls that may be in flight
    NoHash,   \* a caller without a call
    Faults    \* whether accesses to the tiers may fail

ASSUME HybridAssumption ==
    /\ NoHash \notin Hashes
    /\ Faults \in BOOLEAN

VARIABLES
    hot,      \* hashes in the local store
    cold,     \* hashes in the bucket
    pc,       \* the next access of a call
    at,       \* the hash of a call
    expects,  \* the blob was there when this read began, and no access failed
    doomed    \* hashes with a Delete since the calls on them were last at rest

vars == <<hot, cold, pc, at, expects, doomed>>

Pcs == {"idle", "putStat", "rename", "getHot", "getCold", "existsHot", "existsCold",
        "warmCold", "warmHot", "warmRead", "coolHot", "coolCold", "coolRead",
        "uploadStat", "upload", "drop", "deleteHot", "deleteRead", "deleteCold"}

TypeOK ==
    /\ hot \subseteq Hashes
    /\ cold \subseteq Hashes
    /\ pc \in [Callers -> Pcs]
    /\ at \in [Callers -> Hashes \cup {NoHash}]
    /\ expects \in [Callers -> BOOLEAN]
    /\ doomed \subseteq Hashes
    /\ \A p \in Callers : pc[p] = "idle" <=> at[p] = NoHash

Init ==
    /\ hot = {}
    /\ cold = {}
    /\ pc = [p \in Callers |-> "idle"]
    /\ at = [p \in Callers |-> NoHash]
    /\ expects = [p \in Callers |-> FALSE]
    /\ doomed = {}

-----------------------------------------------------------------------------
Stored == hot \cup cold

Begin(p, h, l) ==
    /\ pc[p] = "idle"
    /\ pc' = [pc EXCEPT ![p] = l]
    /\ at' = [at EXCEPT ![p] = h]
    /\ UNCHANGED <<hot, cold>>

Goto(p, l) ==
    /\ pc' = [pc EXCEPT ![p] = l]
    /\ UNCHANGED <<at, expects, doomed>>

\* The call returns; if it was the last on its hash, the hash is at rest.
Return(p) ==
    /\ pc' = [pc EXCEPT ![p] = "idle"]
    /\ at' = [at EXCEPT ![p] = NoHash]
    /\ expects' = [expects EXCEPT ![p] = FALSE]
    /\ doomed' = IF \E q \in Callers \ {p} : at[q] = at[p] THEN doomed ELSE doomed \ {at[p]}

-----------------------------------------------------------------------------
(* Put, and the Put into the hot tier that ends a WarmUp *)

Put(p, h) == Begin(p, h, "putStat") /\ UNCHANGED <<expects, doomed>>

\* os.Stat finds no blob, or fails.
PutStat(p) ==
    /\ pc[p] = "putStat"
    /\ \/ at[p] \in hot /\ Return(p)
       \/ (at[p] \notin hot \/ Faults) /\ Goto(p, "rename")
    /\ UNCHANGED <<hot, cold>>

Rename_Moves(p) ==  \* the blob is moved to the hot tier, not copied
    /\ pc[p] = "rename"
    /\ hot' \in {hot, hot \cup {at[p]}}
    /\ cold' = cold \ hot'
    /\ Return(p)

\* The temp file gets its final name, unless some write or the rename fails.
Rename(p) ==
    /\ pc[p] = "rename"
    /\ hot' \in {hot, hot \cup {at[p]}}
    /\ Return(p)
    /\ UNCHANGED cold

-----------------------------------------------------------------------------
(* Get and Exists *)

Get(p, h) ==
    /\ Begin(p, h, "getHot")
    /\ expects' = [expects EXCEPT ![p] = h \in Stored /\ h \notin doomed]
    /\ UNCHANGED doomed

Exists(p, h) ==
    /\ Begin(p, h, "existsHot")
    /\ expects' = [expects EXCEPT ![p] = h \in Stored /\ h \notin doomed]
    /\ UNCHANGED doomed

\* A failing hot tier is as good as one without the blob.
LookHot(p, here, next) ==
    /\ pc[p] = here
    /\ \/ at[p] \in hot /\ Return(p)
       \/ at[p] \notin hot /\ Goto(p, next)
       \/ /\ Faults
          /\ pc' = [pc EXCEPT ![p] = next]
          /\ expects' = [expects EXCEPT ![p] = FALSE]
          /\ UNCHANGED <<at, doomed>>
    /\ UNCHANGED <<hot, cold>>

GetHot(p) == LookHot(p, "getHot", "getCold")

ExistsHot(p) == LookHot(p, "existsHot", "existsCold")

\* A hit in the cold tier leaves a goroutine behind that warms up the blob.
GetCold(p) ==
    /\ pc[p] = "getCold"
    /\ \/ at[p] \in cold /\ Goto(p, "warmCold")
       \/ (at[p] \notin cold \/ Faults) /\ Return(p)
    /\ UNCHANGED <<hot, cold>>

ExistsCold(p) ==
    /\ pc[p] = "existsCold"
    /\ Return(p)
    /\ UNCHANGED <<hot, cold>>

-----------------------------------------------------------------------------
(* WarmUp *)

WarmUp(p, h) == Begin(p, h, "warmCold") /\ UNCHANGED <<expects, doomed>>

WarmCold(p) ==
    /\ pc[p] = "warmCold"
    /\ \/ at[p] \in cold /\ Goto(p, "warmHot")
       \/ (at[p] \notin cold \/ Faults) /\ Return(p)
    /\ UNCHANGED <<hot, cold>>

\* An error of Exists is ignored.
WarmHot(p) ==
    /\ pc[p] = "warmHot"
    /\ \/ at[p] \in hot /\ Return(p)
       \/ (at[p] \notin hot \/ Faults) /\ Goto(p, "warmRead")
    /\ UNCHANGED <<hot, cold>>

\* S3Store.Copy reads the blob and its metadata, and goes on to Put.
WarmRead(p) ==
    /\ pc[p] = "warmRead"
    /\ \/ at[p] \in cold /\ Goto(p, "putStat")
       \/ Return(p)
    /\ UNCHANGED <<hot, cold>>

-----------------------------------------------------------------------------
(* CoolDown *)

CoolDown(p, h) == Begin(p, h, "coolHot") /\ UNCHANGED <<expects, doomed>>

CoolHot(p) ==
    /\ pc[p] = "coolHot"
    /\ \/ at[p] \in hot /\ Goto(p, "coolCold")
       \/ (at[p] \notin hot \/ Faults) /\ Return(p)
    /\ UNCHANGED <<hot, cold>>

\* An error of Exists is ignored.
CoolCold(p) ==
    /\ pc[p] = "coolCold"
    /\ \/ at[p] \in cold /\ Goto(p, "drop")
       \/ (at[p] \notin cold \/ Faults) /\ Goto(p, "coolRead")
    /\ UNCHANGED <<hot, cold>>

\* LocalStore.Copy reads the blob and its metadata, and goes on to S3Store.Put.
CoolRead(p) ==
    /\ pc[p] = "coolRead"
    /\ \/ at[p] \in hot /\ Goto(p, "uploadStat")
       \/ Return(p)
    /\ UNCHANGED <<hot, cold>>

UploadStat(p) ==
    /\ pc[p] = "uploadStat"
    /\ \/ at[p] \notin cold /\ Goto(p, "upload")
       \/ (at[p] \in cold \/ Faults) /\ Return(p)
    /\ UNCHANGED <<hot, cold>>

Upload_Broken(p) ==  \* the error of Copy is logged and CoolDown goes on
    /\ pc[p] = "upload"
    /\ \/ cold' = cold \cup {at[p]}
       \/ Faults /\ UNCHANGED cold
    /\ Goto(p, "drop")
    /\ UNCHANGED hot

\* PutObject succeeds, or is reported to have failed whether it did or not.
Upload(p) ==
    /\ pc[p] = "upload"
    /\ \/ cold' = cold \cup {at[p]} /\ Goto(p, "drop")
       \/ Faults /\ cold' \in {cold, cold \cup {at[p]}} /\ Return(p)
    /\ UNCHANGED hot

\* LocalStore.Delete moves the blob to the trash.
Drop(p) ==
    /\ pc[p] = "drop"
    /\ \/ hot' = hot \ {at[p]}
       \/ Faults /\ UNCHANGED hot
    /\ Return(p)
    /\ UNCHANGED cold

-----------------------------------------------------------------------------
(* Delete *)

Delete(p, h) ==
    /\ Begin(p, h, "deleteHot")
    /\ doomed' = doomed \cup {h}
    /\ UNCHANGED expects

DeleteHot(p) ==
    /\ pc[p] = "deleteHot"
    /\ \/ hot' = hot \ {at[p]}
       \/ Faults /\ UNCHANGED hot
    /\ Goto(p, "deleteRead")
    /\ UNCHANGED cold

\* S3Store.Delete copies the object to the trash prefix first.
DeleteRead(p) ==
    /\ pc[p] = "deleteRead"
    /\ \/ at[p] \in cold /\ Goto(p, "deleteCold")
       \/ (at[p] \notin cold \/ Faults) /\ Return(p)
    /\ UNCHANGED <<hot, cold>>

DeleteCold(p) ==
    /\ pc[p] = "deleteCold"
    /\ \/ cold' = cold \ {at[p]}
       \/ Faults /\ UNCHANGED cold
    /\ Return(p)
    /\ UNCHANGED hot

-----------------------------------------------------------------------------
\* The process of a call is killed, between any two accesses.
Crash(p) ==
    /\ pc[p] # "idle"
    /\ Return(p)
    /\ UNCHANGED <<hot, cold>>

Call(p, h) ==
    Put(p, h) \/ Get(p, h) \/ Exists(p, h) \/ WarmUp(p, h) \/ CoolDown(p, h) \/ Delete(p, h)

Step(p) ==
    \/ PutStat(p) \/ Rename(p)
    \/ GetHot(p) \/ GetCold(p) \/ ExistsHot(p) \/ ExistsCold(p)
    \/ WarmCold(p) \/ WarmHot(p) \/ WarmRead(p)
    \/ CoolHot(p) \/ CoolCold(p) \/ CoolRead(p) \/ UploadStat(p) \/ Upload(p) \/ Drop(p)
    \/ DeleteHot(p) \/ DeleteRead(p) \/ DeleteCold(p)
    \/ Crash(p)

Next == \E p \in Callers : Step(p) \/ \E h \in Hashes : Call(p, h)

Spec == Init /\ [][Next]_vars

-----------------------------------------------------------------------------
(* Properties *)

Keeping == INSTANCE BlobKeeping WITH stored <- Stored, doomed <- doomed

\* The two tiers together keep blobs as a blob store promises: whatever is
\* moved, fails or crashes, a blob leaves its last tier only if Delete was called.
KeepsBlobs == Keeping!Spec

\* Get and Exists look in the hot and then in the cold tier, not at once.  Still
\* they find a blob that was there when they began and is not being deleted: it
\* is in the cold tier when they have missed it in the hot one, even if CoolDown
\* and WarmUp of other callers move it meanwhile.
ReadsFindBlobs ==
    \A p \in Callers :
        pc[p] \in {"getCold", "existsCold"} /\ expects[p] /\ at[p] \notin doomed
            => at[p] \in cold

=============================================================================
