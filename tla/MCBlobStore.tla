---------------------------- MODULE MCBlobStore -----------------------------
(***************************************************************************)
(* A small instance of BlobStore: three chunks with the same content.  The *)
(* history of a hash only gets worse.  SequentialCallsKeepBlobs claims     *)
(* nothing of a hash that is not clean, and RenamePublishesWholeBlobs      *)
(* nothing of one that is broken.  After an overlap, a fault or a crash a  *)
(* state is continued with ingestions, faults and more crashes, until a    *)
(* deletion, a Touch, the collector or the passing of time, none of which  *)
(* writes a temp file or a blob, comes in; the proofs have no such limit.  *)
(***************************************************************************)
EXTENDS BlobStore, TLC

CONSTANTS h1, c1, c2, c3

OneHash == {h1}
ThreeChunks == {c1, c2, c3}
SameHash == [c \in Chunks |-> h1]

AllClean == \A h \in Hashes : history[h] = "clean"

IngestionsOnly ==
    /\ pc[Gc] = "idle"
    /\ \A c \in Chunks : pc[c] \notin {"unref", "delete"}
    /\ \A h \in Hashes : touching[h] = NoMeta /\ ~trash[h] /\ ~blobOld[h] /\ history[h] # "broken"

Continued == AllClean \/ IngestionsOnly

Symmetry == Permutations(Chunks)

=============================================================================
