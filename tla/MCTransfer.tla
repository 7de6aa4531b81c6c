----------------------------- MODULE MCTransfer -----------------------------
EXTENDS Transfer

CONSTANTS d1, d2, r1, r2, w1, w2

OneDownload == {d1}
TwoDownloads == {d1, d2}
Runs2 == {r1, r2}

SameHash == [d \in Downloads |-> "hash"]

\* With ByteBits = 2, chunks 0 and 1 share a byte.
TwoChunks == [d \in Downloads |-> 2]

\* The second download is of an empty dataset.
TwoAndNoChunks == [d \in Downloads |-> IF d = d1 THEN 2 ELSE 0]

OneWorker == {w1}
TwoWorkers == {w1, w2}

=============================================================================
