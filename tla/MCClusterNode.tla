--------------------------- MODULE MCClusterNode ----------------------------
(***************************************************************************)
(* A small instance of ClusterNode: a job and an entry of the catalog, a   *)
(* log of two commands, the snapshot loop and one caller of TakeSnapshot,  *)
(* and two snapshots of which one is retained.  A state in which a         *)
(* snapshot was created or removed by half is checked and not continued:   *)
(* LogCovered says nothing of what follows it, and the other properties do *)
(* not depend on it.                                                       *)
(***************************************************************************)
EXTENDS ClusterNode

CONSTANTS job, entry, manual, loop

TwoKeys == {job, entry}
OneJob == {job}
Both == {manual, loop}

Sound == ~hollow

=============================================================================
