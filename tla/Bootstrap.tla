------------------------------ MODULE Bootstrap ------------------------------
(***************************************************************************)
(* The bootstrapper of the P2P node (internal/p2p/bootstrap.go): for each  *)
(* configured peer one goroutine that dials it, with exponential backoff,  *)
(* and watches the connection; and the goroutine that runs Start, which    *)
(* waits until MinPeers of them are connected.                             *)
(*                                                                         *)
(* Durations are integers; MaxDuration stands for the largest int64 and    *)
(* attempts are counted up to MaxAttempts, past which every backoff is out *)
(* of its range.  Lifecycle composes this module with the daemon.          *)
(*                                                                         *)
(* A definition whose name ends in _GivesUp or the like is the definition  *)
(* that follows it with a plausible mistake; no specification uses it.     *)
(***************************************************************************)
EXTENDS Integers, FiniteSets

CONSTANTS
    Peers,             \* the peers that may be configured as bootstrap peers
    MinPeers,          \* bootstrap.min_peers
    RetryIntervals,    \* values of bootstrap.retry_interval, 0 when it is not set
    DefaultInterval,   \* the default used then
    MaxInterval,       \* bootstrap.max_retry_interval
    MaxDuration,       \* the largest time.Duration
    MaxAttempts        \* bound on attempt

\* math.Pow(2, k)
Pow2[k \in 0..MaxAttempts] == IF k = 0 THEN 1 ELSE 2 * Pow2[k - 1]

ASSUME BootstrapAssumption ==
    /\ IsFiniteSet(Peers)
    /\ MinPeers \in Int
    /\ RetryIntervals \subseteq Nat
    /\ DefaultInterval \in Nat \ {0} /\ MaxInterval \in Nat \ {0}
    /\ MaxDuration \in Nat \ {0} /\ MaxDuration > MaxInterval
    /\ MaxAttempts \in Nat \ {0}
    /\ DefaultInterval * Pow2[MaxAttempts - 1] > MaxDuration

VARIABLES
    peers,      \* b.peers, none by default
    retry,      \* cfg.RetryInterval
    loop,       \* where connectWithBackoff is, for each peer
    attempt,
    interval,   \* retryInterval
    backoff,    \* the wait after the last failure
    connected,  \* b.connected
    waiter,     \* the goroutine of Discovery.Start that runs Bootstrapper.Start
    bctx,       \* b.ctx is cancelled
    up          \* peers that can be reached

bootVars == <<peers, retry, loop, attempt, interval, backoff, connected, waiter, bctx, up>>

BootTypeOK ==
    /\ peers \subseteq Peers
    /\ retry \in RetryIntervals
    /\ loop \in [Peers -> {"off", "dial", "wait", "monitor", "ended"}]
    /\ attempt \in [Peers -> 0..MaxAttempts]
    /\ interval \in [Peers -> Nat]
    /\ backoff \in [Peers -> Int]
    /\ connected \subseteq Peers
    /\ waiter \in {"off", "waiting", "done"}
    /\ bctx \in BOOLEAN
    /\ up \subseteq Peers

\* NewBootstrapper
BootInit ==
    /\ peers \in SUBSET Peers
    /\ retry \in RetryIntervals
    /\ loop = [p \in Peers |-> "off"]
    /\ attempt = [p \in Peers |-> 0]
    /\ interval = [p \in Peers |-> IF retry = 0 THEN DefaultInterval ELSE retry]
    /\ backoff = [p \in Peers |-> 0]
    /\ connected = {}
    /\ waiter = "off"
    /\ bctx = FALSE
    /\ up \in SUBSET peers

\* Start, which returns at once if there are no peers
BootStart ==
    /\ loop' = [p \in Peers |-> IF p \in peers THEN "dial" ELSE "off"]
    /\ waiter' = IF peers = {} \/ MinPeers <= 0 THEN "done" ELSE "waiting"
    /\ UNCHANGED <<peers, retry, attempt, interval, backoff, connected, bctx, up>>

\* Stop, up to the wait for the goroutines
BootCancel ==
    /\ bctx' = TRUE
    /\ UNCHANGED <<peers, retry, loop, attempt, interval, backoff, connected, waiter, up>>

BootStopped == \A p \in Peers : loop[p] \in {"off", "ended"}

\* host.Connect succeeds, whether or not the context is cancelled meanwhile.
ConnectOK(p) ==
    /\ loop[p] = "dial" /\ p \in up
    /\ loop' = [loop EXCEPT ![p] = "monitor"]
    /\ connected' = connected \cup {p}
    /\ UNCHANGED <<peers, retry, attempt, interval, backoff, waiter, bctx, up>>

Product(p, n) == interval[p] * Pow2[n - 1]

\* The conversion of a float64 to a Duration: what it gives when the value is
\* out of range depends on the processor.
Durations(x) == IF x > MaxDuration THEN {MaxDuration, -MaxDuration - 1} ELSE {x}

Capped_Uncapped(d) == d

Capped(d) == IF d > MaxInterval THEN MaxInterval ELSE d

ConnectFails_GivesUp(p) ==
    /\ loop[p] = "dial" /\ (p \notin up \/ bctx)
    /\ loop' = [loop EXCEPT ![p] = "ended"]
    /\ UNCHANGED <<peers, retry, attempt, interval, backoff, connected, waiter, bctx, up>>

\* It fails, and the next attempt is put off.
ConnectFails(p) ==
    LET n == IF attempt[p] < MaxAttempts THEN attempt[p] + 1 ELSE MaxAttempts IN
    /\ loop[p] = "dial" /\ (p \notin up \/ bctx)
    /\ loop' = [loop EXCEPT ![p] = "wait"]
    /\ attempt' = [attempt EXCEPT ![p] = n]
    /\ \E d \in Durations(Product(p, n)) : backoff' = [backoff EXCEPT ![p] = Capped(d)]
    /\ UNCHANGED <<peers, retry, interval, connected, waiter, bctx, up>>

\* time.After(backoff)
BackoffOver(p) ==
    /\ loop[p] = "wait"
    /\ loop' = [loop EXCEPT ![p] = "dial"]
    /\ backoff' = [backoff EXCEPT ![p] = 0]
    /\ UNCHANGED <<peers, retry, attempt, interval, connected, waiter, bctx, up>>

\* monitorConnection finds the connection gone: dial again from the first
\* attempt, with the interval of the configuration, also when that is not set.
ConnectionLost(p) ==
    /\ loop[p] = "monitor" /\ p \notin up
    /\ connected' = connected \ {p}
    /\ loop' = [loop EXCEPT ![p] = "dial"]
    /\ attempt' = [attempt EXCEPT ![p] = 0]
    /\ interval' = [interval EXCEPT ![p] = retry]
    /\ UNCHANGED <<peers, retry, backoff, waiter, bctx, up>>

\* The loop sees the cancelled context; its variables are gone.
LoopEnds(p) ==
    /\ bctx /\ loop[p] \in {"dial", "wait", "monitor"}
    /\ loop' = [loop EXCEPT ![p] = "ended"]
    /\ attempt' = [attempt EXCEPT ![p] = 0]
    /\ interval' = [interval EXCEPT ![p] = retry]
    /\ backoff' = [backoff EXCEPT ![p] = 0]
    /\ UNCHANGED <<peers, retry, connected, waiter, bctx, up>>

\* waitForMinPeers; the context of Start is the daemon's and never cancelled.
WaitForMinPeers ==
    /\ waiter = "waiting"
    /\ bctx \/ Cardinality(connected) >= MinPeers
    /\ waiter' = "done"
    /\ UNCHANGED <<peers, retry, loop, attempt, interval, backoff, connected, bctx, up>>

\* The network: a peer, and the connection to it, goes or comes, while it matters.
PeerFlips(p) ==
    /\ loop[p] # "off" /\ ~bctx
    /\ up' = IF p \in up THEN up \ {p} ELSE up \cup {p}
    /\ UNCHANGED <<peers, retry, loop, attempt, interval, backoff, connected, waiter, bctx>>

LoopStep(p) ==
    \/ ConnectOK(p) \/ ConnectFails(p) \/ BackoffOver(p)
    \/ ConnectionLost(p) \/ LoopEnds(p)

BootNext ==
    \/ \E p \in Peers : LoopStep(p) \/ PeerFlips(p)
    \/ WaitForMinPeers

\* Between two attempts to reach a peer there is a wait, at most MaxInterval
\* long (Start: "connecting to peers with exponential backoff").  There is none
\* when retry_interval is not set and a connection was lost, since the default
\* is lost with it, and when the product is no longer a Duration.
BackoffHolds ==
    \A p \in Peers :
        loop[p] = "wait" =>
            /\ backoff[p] <= MaxInterval
            /\ \/ backoff[p] > 0
               \/ retry = 0 /\ interval[p] = 0
               \/ Product(p, attempt[p]) > MaxDuration
=============================================================================
