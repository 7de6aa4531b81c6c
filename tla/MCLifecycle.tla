----------------------------- MODULE MCLifecycle -----------------------------
EXTENDS Lifecycle, TLC

CONSTANT p1

OnePeer == {p1}
Intervals == {0, 1}

\* A node with SQLite and a cluster, one with a managed PostgreSQL, and one that
\* only serves clients.
ThreeConfigs == {
    {"certs", "p2p", "dht", "cluster", "grpc"},
    {"managed", "p2p", "ssh"},
    {"certs", "managed", "cluster", "grpc", "unix", "ssh"}}
=============================================================================
