------------------------------ MODULE Lifecycle ------------------------------
(***************************************************************************)
(* Start and Stop of the daemon (cmd/bibd/daemon.go, main.go) and of what  *)
(* it runs: certificates, storage, the managed PostgreSQL, the P2P host    *)
(* with discovery and bootstrapper (module Bootstrap), the cluster, and    *)
(* the gRPC and SSH servers with the calls they serve.                     *)
(*                                                                         *)
(* The main goroutine is at step "at".  Every roll-back of Start is a tail *)
(* of Stop's sequence of steps, without the PID file, and every stop step  *)
(* does nothing when the daemon holds no such component.                   *)
(*                                                                         *)
(* A definition whose name ends in _NoWait or the like is the definition   *)
(* that follows it with a plausible mistake; no specification uses it.     *)
(***************************************************************************)
EXTENDS Bootstrap

CONSTANTS
    Configs    \* the sets of enabled parts, subsets of Parts

Parts == {"certs", "managed", "p2p", "dht", "cluster", "grpc", "unix", "ssh"}

ASSUME LifecycleAssumption == Configs \subseteq SUBSET Parts

VARIABLES
    cfg,
    at,         \* the step of Start, Stop or a roll-back that is next
    held,       \* components the Daemon has a pointer to
    live,       \* what exists: listeners, files, processes
    failed,     \* Start is rolled back
    expired,    \* the 30 s of Stop's context are over
    conns,      \* gRPC connections: "tcp", "unix"
    calls,      \* what is being served: "tcp", "unix", "ssh", and "cut" off handlers
    health,     \* the health check loop of the managed PostgreSQL
    late,       \* history: a server gave up waiting for its calls
    orphan      \* history: what a failed step left behind, or restarted

daemonVars == <<cfg, at, held, live, failed, expired, late, orphan>>
serveVars == <<conns, calls>>
lifeVars == <<bootVars, daemonVars, serveVars, health>>

StartSteps == {"pid", "identity", "certs", "storage", "host", "disc", "mdns", "dht", "mode",
               "cluster", "ready", "tcp", "unix", "ssh"}
Components == {"certs", "store", "pg", "host", "disc", "mode", "cluster", "grpc", "ssh"}
Exits == {"exit0", "exit1"}

\* The sequence of Stop.
Then == [sshStop |-> "grpcStop", grpcStop |-> "grpcDrain", grpcDrain |-> "grpcClose",
         grpcClose |-> "clusterStop", clusterStop |-> "modeStop", modeStop |-> "discStop",
         discStop |-> "discWait", discWait |-> "bootStop", bootStop |-> "bootWait",
         bootWait |-> "discClose", discClose |-> "hostStop", hostStop |-> "storeStop",
         storeStop |-> "pgStop", pgStop |-> "certsStop", certsStop |-> "pidStop",
         pidStop |-> "exit0"]
StopSteps == DOMAIN Then

DaemonTypeOK ==
    /\ BootTypeOK
    /\ cfg \in Configs
    /\ at \in StartSteps \cup {"running"} \cup StopSteps \cup Exits
    /\ held \subseteq Components
    /\ live \subseteq (Components \ {"grpc"}) \cup {"tcp", "unix", "pid", "k8s"}
    /\ failed \in BOOLEAN /\ expired \in BOOLEAN /\ late \in BOOLEAN
    /\ conns \subseteq {"tcp", "unix"}
    /\ calls \subseteq {"tcp", "unix", "ssh", "cut"}
    /\ health \in {"off", "idle", "unhealthy"}
    /\ orphan \subseteq {"pg", "k8s", "cluster", "calls", "pid"}

DaemonInit ==
    /\ BootInit
    /\ cfg \in Configs
    /\ at = "pid"
    /\ held = {} /\ live = {}
    /\ failed = FALSE /\ expired = FALSE /\ late = FALSE
    /\ conns = {} /\ calls = {}
    /\ health = "off"
    /\ orphan = {}

-----------------------------------------------------------------------------
(***************************************************************************)
(* Daemon.Start                                                            *)
(***************************************************************************)

Go(next) == at' = next /\ UNCHANGED <<cfg, expired, late>>

\* A step succeeds, and the daemon holds c and runs what is in L.
Started(c, L, next) ==
    /\ held' = held \cup c
    /\ live' = live \cup L
    /\ Go(next)
    /\ UNCHANGED <<failed, orphan>>

\* A step fails: roll back from the stop step s.
RollBack(s) ==
    /\ failed' = TRUE
    /\ Go(s)
    /\ UNCHANGED held

Fails(s) == RollBack(s) /\ UNCHANGED <<live, orphan>>

\* An error of writePIDFile is ignored.
WritePIDFile ==
    /\ at = "pid"
    /\ \E L \in {{"pid"}, {}} : Started({}, L, "identity")
    /\ UNCHANGED <<bootVars, serveVars, health>>

LoadIdentity ==
    /\ at = "identity"
    /\ \/ Started({}, {}, IF "certs" \in cfg THEN "certs" ELSE "storage")
       \/ Fails("exit1")
    /\ UNCHANGED <<bootVars, serveVars, health>>

InitCertificates ==
    /\ at = "certs"
    /\ \/ Started({"certs"}, {"certs"}, "storage")
       \/ Fails("exit1")
    /\ UNCHANGED <<bootVars, serveVars, health>>

\* startManagedPostgres: a Start that fails may leave the container or the deployment
\* in Kubernetes ("k8s") behind.  When it fails in Kubernetes and a container runtime
\* is found after all, that is tried instead.
StartStorage ==
    /\ at = "storage"
    /\ LET next == IF "p2p" \in cfg THEN "host" ELSE "cluster" IN
       IF "managed" \in cfg
       THEN \/ Started({"pg"}, {"pg"}, next) /\ health' = "idle"
            \/ /\ held' = held \cup {"pg"}                \* the fallback
               /\ live' = live \cup {"pg", "k8s"} /\ orphan' = orphan \cup {"k8s"}
               /\ Go(next) /\ UNCHANGED failed
               /\ health' = "idle"
            \/ /\ RollBack("certsStop")
               /\ \E left \in SUBSET {"pg", "k8s"} :
                      live' = live \cup left /\ orphan' = orphan \cup left
               /\ UNCHANGED health
       ELSE /\ Started({"store"}, {"store"}, next) \/ Fails("certsStop")
            /\ UNCHANGED health
    /\ UNCHANGED <<bootVars, serveVars>>

\* startP2P: NewHost,
NewHost ==
    /\ at = "host"
    /\ Started({"host"}, {"host"}, "disc") \/ Fails("storeStop")
    /\ UNCHANGED <<bootVars, serveVars, health>>

\* NewDiscovery,
NewDiscovery ==
    /\ at = "disc"
    /\ Started({"disc"}, {"disc"}, "mdns") \/ Fails("hostStop")
    /\ UNCHANGED <<bootVars, serveVars, health>>

\* Discovery.Start: mDNS and the bootstrapper,
DiscoveryStart ==
    /\ at = "mdns"
    /\ \/ Started({}, {}, "dht") /\ BootStart
       \/ Fails("discStop") /\ UNCHANGED bootVars
    /\ UNCHANGED <<serveVars, health>>

\* the DHT, and maintenanceLoop, which ends when the context is cancelled,
DiscoveryDHT ==
    /\ at = "dht"
    /\ Started({}, {}, "mode") \/ ("dht" \in cfg /\ Fails("discStop"))
    /\ UNCHANGED <<bootVars, serveVars, health>>

\* and the mode manager, whose Start returns no error.
StartMode ==
    /\ at = "mode"
    /\ Started({"mode"}, {"mode"}, "cluster") \/ Fails("discStop")
    /\ UNCHANGED <<bootVars, serveVars, health>>

\* startCluster: when bootstrap or join fails nothing is closed.
StartCluster ==
    /\ at = "cluster"
    /\ IF "cluster" \in cfg
       THEN \/ Started({"cluster"}, {"cluster"}, "ready")
            \/ Fails("modeStop")
            \/ /\ RollBack("modeStop")
               /\ live' = live \cup {"cluster"} /\ orphan' = orphan \cup {"cluster"}
       ELSE Started({}, {}, "ready")
    /\ UNCHANGED <<bootVars, serveVars, health>>

\* waitForStorageReady opens the store of a managed PostgreSQL and pings.
WaitForStorageReady ==
    /\ at = "ready"
    /\ LET next == IF "grpc" \in cfg THEN "tcp" ELSE "ssh"
           opened == IF "pg" \in held THEN {"store"} ELSE {} IN
       \/ Started(opened, opened, next)
       \/ Fails("clusterStop")
       \/ /\ failed' = TRUE /\ Go("clusterStop")        \* opened, but the ping fails
          /\ held' = held \cup opened /\ live' = live \cup opened
          /\ UNCHANGED orphan
    /\ UNCHANGED <<bootVars, serveVars, health>>

\* startGRPCServer: the TCP listener,
StartTCPListener ==
    /\ at = "tcp"
    /\ \/ IF "unix" \in cfg THEN Started({}, {"tcp"}, "unix") ELSE Started({"grpc"}, {"tcp"}, "ssh")
       \/ Fails("clusterStop")
    /\ UNCHANGED <<bootVars, serveVars, health>>

\* and the Unix socket; when that fails the TCP listener is closed, but the
\* calls it accepted go on.
StartPipeListener ==
    /\ at = "unix"
    /\ \/ Started({"grpc"}, {"unix"}, "ssh")
       \/ /\ RollBack("clusterStop")
          /\ live' = live \ {"tcp"} /\ orphan' = orphan \cup {"calls"}
    /\ UNCHANGED <<bootVars, serveVars, health>>

\* The auth service and startSSHServer
StartSSH ==
    /\ at = "ssh"
    /\ IF "ssh" \in cfg
       THEN Started({"ssh"}, {"ssh"}, "running") \/ Fails("grpcStop")
       ELSE Started({}, {}, "running")
    /\ UNCHANGED <<bootVars, serveVars, health>>

\* main: a signal arrives.
Signal ==
    /\ at = "running"
    /\ Go("sshStop")
    /\ UNCHANGED <<bootVars, serveVars, health, held, live, failed, orphan>>
-----------------------------------------------------------------------------
(***************************************************************************)
(* Daemon.Stop and the roll-backs                                          *)
(***************************************************************************)

After(s) == IF s = "certsStop" /\ failed THEN "exit1" ELSE Then[s]

\* A stop step that releases what is in L; the pointers in c become nil.
Stopped(c, L) ==
    /\ held' = held \ c
    /\ live' = live \ L
    /\ Go(After(at))
    /\ UNCHANGED <<failed, orphan>>

\* The components a stop step is about.
Subject == [sshStop |-> "ssh", grpcStop |-> "grpc", grpcDrain |-> "grpc", grpcClose |-> "grpc",
            clusterStop |-> "cluster", modeStop |-> "mode", discStop |-> "disc",
            discWait |-> "disc", bootStop |-> "disc", bootWait |-> "disc", discClose |-> "disc",
            hostStop |-> "host", storeStop |-> "store", pgStop |-> "pg", certsStop |-> "certs"]

\* There is nothing to stop.
Skip ==
    /\ at \in DOMAIN Subject /\ Subject[at] \notin held
    /\ Stopped({}, {})
    /\ UNCHANGED <<bootVars, serveVars, health>>

Doing(s) == at = s /\ Subject[s] \in held

\* stopSSHServer: Shutdown closes the listener and waits for the sessions; when
\* the context ends first it returns an error and the pointer stays.
StopSSH ==
    /\ Doing("sshStop")
    /\ live' = live \ {"ssh"}
    /\ \/ "ssh" \notin calls /\ held' = held \ {"ssh"} /\ UNCHANGED late
       \/ expired /\ late' = TRUE /\ UNCHANGED held
    /\ at' = After(at)
    /\ UNCHANGED <<bootVars, serveVars, health, cfg, failed, expired, orphan>>

\* grpc Server.Stop: GracefulStop takes no new connections or calls,
GracefulStop ==
    /\ Doing("grpcStop")
    /\ Stopped({}, {"tcp"})
    /\ conns' = conns \ {"tcp"}
    /\ UNCHANGED <<bootVars, calls, health>>

Drain_NoWait ==
    /\ Doing("grpcDrain")
    /\ Go(After(at))
    /\ UNCHANGED <<bootVars, serveVars, health, held, live, failed, orphan>>

\* and waits for those it serves; when the grace period or the context ends
\* first they are cut off, but Stop does not wait for their handlers.
Drain ==
    /\ Doing("grpcDrain")
    /\ \/ "tcp" \notin calls /\ UNCHANGED <<calls, late>>
       \/ /\ late' = TRUE
          /\ calls' = IF "tcp" \in calls THEN (calls \ {"tcp"}) \cup {"cut"} ELSE calls
    /\ at' = After(at)
    /\ UNCHANGED <<bootVars, conns, health, cfg, held, live, failed, expired, orphan>>

\* The Unix socket is closed.  Its server, which only its goroutine knows, is
\* not stopped and goes on serving the connections it has.
CloseListeners ==
    /\ Doing("grpcClose")
    /\ \E c \in {{"grpc"}, {}} : Stopped(c, {"unix"})
    /\ UNCHANGED <<bootVars, serveVars, health>>

\* stopCluster: after an error the pointer stays.
StopCluster ==
    /\ Doing("clusterStop")
    /\ \E c \in {{"cluster"}, {}} : Stopped(c, {"cluster"})
    /\ UNCHANGED <<bootVars, serveVars, health>>

\* stopP2P: the mode manager,
StopMode ==
    /\ Doing("modeStop")
    /\ Stopped({"mode"}, {"mode"})
    /\ UNCHANGED <<bootVars, serveVars, health>>

\* Discovery.Stop: cancel,
DiscoveryCancel ==
    /\ Doing("discStop")
    /\ Stopped({}, {})
    /\ UNCHANGED <<bootVars, serveVars, health>>

\* wait for the goroutines of Discovery.Start,
DiscoveryWait ==
    /\ Doing("discWait") /\ waiter # "waiting"
    /\ Stopped({}, {})
    /\ UNCHANGED <<bootVars, serveVars, health>>

\* Bootstrapper.Stop,
BootstrapperCancel ==
    /\ Doing("bootStop")
    /\ Stopped({}, {})
    /\ BootCancel
    /\ UNCHANGED <<serveVars, health>>

BootstrapperWait ==
    /\ Doing("bootWait") /\ BootStopped
    /\ Stopped({}, {})
    /\ UNCHANGED <<bootVars, serveVars, health>>

\* mDNS, the DHT and the peer store,
DiscoveryClose ==
    /\ Doing("discClose")
    /\ Stopped({"disc"}, {"disc"})
    /\ UNCHANGED <<bootVars, serveVars, health>>

\* and the host.
StopHost ==
    /\ Doing("hostStop")
    /\ Stopped({"host"}, {"host"})
    /\ UNCHANGED <<bootVars, serveVars, health>>

\* stopStorage: the store,
StopStore ==
    /\ Doing("storeStop")
    /\ Stopped({"store"}, {"store"})
    /\ UNCHANGED <<bootVars, serveVars, health>>

StopPostgres_Forgotten ==
    /\ Doing("pgStop")
    /\ Stopped({"pg"}, {})
    /\ UNCHANGED <<bootVars, serveVars, health>>

\* and the managed PostgreSQL: stop the container, or kill it, or neither works.
StopPostgres ==
    /\ Doing("pgStop")
    /\ \/ Stopped({"pg"}, {"pg"})
       \/ /\ held' = held \ {"pg"} /\ Go(After(at))
          /\ orphan' = orphan \cup {"pg"}
          /\ UNCHANGED <<live, failed>>
    /\ UNCHANGED <<bootVars, serveVars, health>>

\* Close of the certificate manager returns no error.
StopCertificates ==
    /\ Doing("certsStop")
    /\ Stopped({"certs"}, {"certs"})
    /\ UNCHANGED <<bootVars, serveVars, health>>

\* removePIDFile, whose error is only logged
RemovePIDFile ==
    /\ at = "pidStop"
    /\ \/ Stopped({}, {"pid"})
       \/ /\ Go(After(at))
          /\ orphan' = orphan \cup {"pid"}
          /\ UNCHANGED <<held, live, failed>>
    /\ UNCHANGED <<bootVars, serveVars, health>>

-----------------------------------------------------------------------------
(***************************************************************************)
(* What goes on meanwhile                                                  *)
(***************************************************************************)

Alive == at \notin Exits

\* The 30 s that main gives Stop are over.
Expire ==
    /\ Alive /\ at \in StopSteps /\ ~failed /\ ~expired
    /\ expired' = TRUE
    /\ UNCHANGED <<bootVars, serveVars, health, cfg, at, held, live, failed, late, orphan>>

\* A client connects to a gRPC listener,
Connect(k) ==
    /\ Alive /\ k \in live \ conns
    /\ conns' = conns \cup {k}
    /\ UNCHANGED <<bootVars, daemonVars, calls, health>>

\* makes a call on its connection or opens an SSH session,
CallBegins(k) ==
    /\ Alive /\ k \notin calls
    /\ k \in conns \cup (live \cap {"ssh"})
    /\ calls' = calls \cup {k}
    /\ UNCHANGED <<bootVars, daemonVars, conns, health>>

\* and it ends.
CallEnds(k) ==
    /\ Alive /\ k \in calls
    /\ calls' = calls \ {k}
    /\ UNCHANGED <<bootVars, daemonVars, conns, health>>

\* healthCheckLoop: a check without the lock fails, also one of a container that
\* is being stopped: select takes a tick although shutdownCh is closed,
HealthCheckFails ==
    /\ Alive /\ health = "idle"
    /\ health' = "unhealthy"
    /\ UNCHANGED <<bootVars, daemonVars, serveVars>>

\* and handleHealthFailure, under the lock, restarts it or not.
HandleHealthFailure ==
    /\ Alive /\ health = "unhealthy"
    /\ health' = "idle"
    /\ \/ /\ live' = live \cup {"pg"}
          /\ orphan' = IF "pg" \in held THEN orphan ELSE orphan \cup {"pg"}
       \/ UNCHANGED <<live, orphan>>
    /\ UNCHANGED <<bootVars, serveVars, cfg, at, held, failed, expired, late>>

StartStep ==
    \/ WritePIDFile \/ LoadIdentity \/ InitCertificates \/ StartStorage
    \/ NewHost \/ NewDiscovery \/ DiscoveryStart \/ DiscoveryDHT \/ StartMode
    \/ StartCluster \/ WaitForStorageReady \/ StartTCPListener \/ StartPipeListener
    \/ StartSSH

StopStep ==
    \/ Skip \/ StopSSH \/ GracefulStop \/ Drain \/ CloseListeners \/ StopCluster
    \/ StopMode \/ DiscoveryCancel \/ DiscoveryWait \/ BootstrapperCancel
    \/ BootstrapperWait \/ DiscoveryClose \/ StopHost \/ StopStore \/ StopPostgres
    \/ StopCertificates \/ RemovePIDFile

DaemonNext ==
    \/ StartStep \/ Signal \/ StopStep \/ Expire
    \/ \E k \in {"tcp", "unix"} : Connect(k)
    \/ \E k \in {"tcp", "unix", "ssh"} : CallBegins(k)
    \/ \E k \in {"tcp", "unix", "ssh", "cut"} : CallEnds(k)
    \/ HealthCheckFails \/ HandleHealthFailure
    \/ Alive /\ BootNext /\ UNCHANGED <<daemonVars, serveVars, health>>

DaemonSpec == DaemonInit /\ [][DaemonNext]_lifeVars

\* The main goroutine and those of the bootstrapper are not stopped for ever,
\* and time passes.
DaemonFairness ==
    /\ WF_lifeVars(StartStep) /\ WF_lifeVars(StopStep) /\ WF_lifeVars(Expire)
    /\ \A p \in Peers : WF_lifeVars(Alive /\ LoopStep(p) /\ UNCHANGED <<daemonVars, serveVars, health>>)
    /\ \A p \in Peers : WF_lifeVars(Alive /\ LoopEnds(p) /\ UNCHANGED <<daemonVars, serveVars, health>>)
    /\ WF_lifeVars(Alive /\ WaitForMinPeers /\ UNCHANGED <<daemonVars, serveVars, health>>)

FairDaemonSpec == DaemonSpec /\ DaemonFairness

-----------------------------------------------------------------------------
(***************************************************************************)
(* Properties                                                              *)
(***************************************************************************)

\* The store is closed after everything that uses it has stopped.  What may
\* still run is what Stop gave up waiting for (a cut off handler after the
\* grace period, an SSH session after the 30 s), a call that was accepted by a
\* gRPC server whose Start failed, and any call on a Unix socket connection.
StoreOutlivesUsers ==
    at \in {"pgStop", "certsStop", "pidStop"} \cup Exits =>
        /\ live \cap {"ssh", "tcp", "unix", "mode", "disc", "host"} = {}
        /\ "cluster" \in live => "cluster" \in orphan
        /\ "ssh" \in calls => expired
        /\ "cut" \in calls => late
        /\ "tcp" \in calls => "calls" \in orphan

\* When the process ends nothing is left but what a failed step left behind, a
\* PostgreSQL that could not be stopped or that the health check restarted
\* after it was, and, when Start failed, the PID file.
Released ==
    at \in Exits => live \subseteq orphan \cup (IF failed THEN {"pid"} ELSE {})

\* Stop, and the roll-back of Start, come to an end if enough bootstrap peers
\* can be reached in the end, none is configured, or P2P is not enabled.
StopReturnsOnceBootstrapped ==
    ("p2p" \notin cfg \/ peers = {} \/ <>[](Cardinality(up) >= MinPeers))
        => (at \in StopSteps ~> at \in Exits)

\* Stop comes to an end (Daemon.Stop: "gracefully shuts down all daemon
\* components in reverse order"; main gives it 30 seconds).
DaemonStopReturns == at \in StopSteps ~> at \in Exits
=============================================================================
