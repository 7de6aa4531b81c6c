---------------------------- MODULE BlobKeeping -----------------------------
(***************************************************************************)
(* What a content-addressed blob store promises its callers: a blob that   *)
(* was put stays readable until its deletion is asked for.  A deletion     *)
(* that has been asked for takes effect at any later moment, or not at     *)
(* all, until the calls on that hash have come to rest.                    *)
(***************************************************************************)

CONSTANT Hashes

VARIABLES
    stored,  \* hashes whose blob can be read
    doomed   \* hashes whose deletion was asked for and may take effect

vars == <<stored, doomed>>

Init ==
    /\ stored = {}
    /\ doomed = {}

\* The step may be the one with which the calls on h come to rest.
MaySettle(h) == doomed' \in {doomed, doomed \ {h}}

Put(h) ==
    /\ stored' = stored \cup {h}
    /\ MaySettle(h)

AskDelete(h) ==
    /\ doomed' = doomed \cup {h}
    /\ UNCHANGED stored

Vanish(h) ==
    /\ h \in doomed
    /\ stored' = stored \ {h}
    /\ MaySettle(h)

Settle(h) ==
    /\ MaySettle(h)
    /\ UNCHANGED stored

Next == \E h \in Hashes : Put(h) \/ AskDelete(h) \/ Vanish(h) \/ Settle(h)

Spec == Init /\ [][Next]_vars

=============================================================================
