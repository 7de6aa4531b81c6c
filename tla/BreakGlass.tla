----------------------------- MODULE BreakGlass -----------------------------
(***************************************************************************)
(* The break glass manager of bibd: controlled emergency access to the     *)
(* database (internal/storage/breakglass/manager.go), driven by the gRPC   *)
(* service (internal/grpc/services/breakglass/server.go) and backed by     *)
(* PostgreSQL roles (internal/storage/breakglass/postgres.go).             *)
(*                                                                         *)
(* Every method of Manager holds m.mu for its whole body, so each is one   *)
(* action.  What interleaves is: RPCs that are between VerifyChallenge and *)
(* Enable, one monitorExpiry goroutine per session, the clock, and the     *)
(* process itself, whose restart loses everything but the database roles.  *)
(*                                                                         *)
(* Nothing under src/ calls SetDatabaseCallback, so both managers with and *)
(* without the callback are modelled; it is set, or not, when a process    *)
(* starts.                                                                 *)
(*                                                                         *)
(* Left out: users, keys and access levels (AllowedUsers is fixed, so      *)
(* findUser answers the same every time), calls that fail without changing *)
(* anything, recordings and notifications.                                 *)
(*                                                                         *)
(* A definition whose name ends in _Broken or the like is the definition   *)
(* that follows it with a plausible mistake; no specification uses it.     *)
(***************************************************************************)
EXTENDS Naturals, Sequences

CONSTANTS
    Sessions,      \* session identifiers (uuid.New in Enable)
    Challenges,    \* challenge identifiers (uuid.New in CreateChallenge)
    None,          \* m.session = nil
    MaxDuration,   \* config.MaxDuration
    ChallengeTTL,  \* five minutes, in ticks
    RoleLifetime,  \* VALID UNTIL two hours, in ticks
    MaxTime        \* bound on the clock

ASSUME ConstantsAssumption ==
    /\ None \notin Sessions \cup Challenges
    /\ MaxDuration \in Nat \ {0}
    /\ ChallengeTTL \in Nat
    /\ RoleLifetime \in Nat \ {0}
    /\ MaxTime \in Nat

VARIABLES
    now,         \* the clock
    requireAck,  \* config.RequireAcknowledgment of the running process
    dbCallback,  \* SetDatabaseCallback was called in the running process
    chState,     \* m.challenges: never created, present, deleted
    verified,    \* EnableSession RPCs between VerifyChallenge and Enable
    chExp,       \* Challenge.ExpiresAt
    session,     \* m.session
    state,       \* Session.State
    exp,         \* Session.ExpiresAt
    via,         \* the challenge whose verification led to the session
    pending,     \* m.pendingReports, as the session of each report
    monitor,     \* the monitorExpiry goroutine of each session
    roles,       \* sessions whose PostgreSQL role exists
    roleUntil,   \* rolvaliduntil of the role
    trail        \* events handed to LogBreakGlassEvent, per session

vars == <<now, requireAck, dbCallback, chState, verified, chExp, session, state, exp, via,
          pending, monitor, roles, roleUntil, trail>>

ChallengeStates == {"unused", "open", "gone"}
SessionStates == {"fresh", "active", "expired", "pending_ack", "lost"}
MonitorStates == {"none", "spawned", "waiting", "done"}
Events == {"started", "disabled", "expired", "acknowledged"}

TypeOK ==
    /\ now \in Nat
    /\ requireAck \in BOOLEAN
    /\ dbCallback \in BOOLEAN
    /\ chState \in [Challenges -> ChallengeStates]
    /\ verified \in SUBSET Challenges
    /\ chExp \in [Challenges -> Nat]
    /\ session \in Sessions \cup {None}
    /\ state \in [Sessions -> SessionStates]
    /\ exp \in [Sessions -> Nat]
    /\ via \in [Sessions -> Challenges \cup {None}]
    /\ pending \in Seq(Sessions)
    /\ monitor \in [Sessions -> MonitorStates]
    /\ roles \in SUBSET Sessions
    /\ roleUntil \in [Sessions -> Nat]
    /\ trail \in [Sessions -> Seq(Events)]

Init ==
    /\ now = 0
    /\ requireAck \in BOOLEAN
    /\ dbCallback \in BOOLEAN
    /\ chState = [c \in Challenges |-> "unused"]
    /\ verified = {}
    /\ chExp = [c \in Challenges |-> 0]
    /\ session = None
    /\ state = [s \in Sessions |-> "fresh"]
    /\ exp = [s \in Sessions |-> 0]
    /\ via = [s \in Sessions |-> None]
    /\ pending = <<>>
    /\ monitor = [s \in Sessions |-> "none"]
    /\ roles = {}
    /\ roleUntil = [s \in Sessions |-> 0]
    /\ trail = [s \in Sessions |-> <<>>]

sessionVars == <<session, state, exp, via, pending, monitor, roles, roleUntil, trail>>

-----------------------------------------------------------------------------
(* Challenges *)

ChallengeExpired(c) == now > chExp[c]

\* CreateChallenge stores the new challenge and then sweeps the expired ones.
CreateChallenge(c) ==
    /\ chState[c] = "unused"
    /\ chExp' = [chExp EXCEPT ![c] = now + ChallengeTTL]
    /\ chState' = [d \in Challenges |->
                     IF d = c THEN "open"
                     ELSE IF chState[d] = "open" /\ ChallengeExpired(d) THEN "gone"
                     ELSE chState[d]]
    /\ UNCHANGED <<now, requireAck, dbCallback, verified, sessionVars>>

VerifyChallenge_Broken(c) ==  \* the used challenge is not deleted
    /\ chState[c] = "open"
    /\ verified' = IF ChallengeExpired(c) THEN verified ELSE verified \cup {c}
    /\ UNCHANGED <<now, requireAck, dbCallback, chState, chExp, sessionVars>>

\* VerifyChallenge, called by EnableSession: an expired challenge is deleted,
\* a correctly signed one is deleted and the RPC goes on to Enable.  A wrong
\* signature changes nothing: the challenge may be tried again.
VerifyChallenge(c) ==
    /\ chState[c] = "open"
    /\ chState' = [chState EXCEPT ![c] = "gone"]
    /\ verified' = IF ChallengeExpired(c) THEN verified ELSE verified \cup {c}
    /\ UNCHANGED <<now, requireAck, dbCallback, chExp, sessionVars>>

-----------------------------------------------------------------------------
(* Sessions *)

IsActive(s) == state[s] = "active" /\ now < exp[s]

HasActiveSession_Broken == FALSE  \* a running session is not looked for

HasActiveSession == session # None /\ IsActive(session)

Granted(d) == IF d = 0 THEN MaxDuration ELSE d

\* CreateBreakGlassUser fails: either nothing was created, or the grants
\* failed and so did the DROP ROLE that was to clean up.
CreateUserFails(s) ==
    /\ dbCallback
    /\ \/ UNCHANGED <<roles, roleUntil>>
       \/ /\ roles' = roles \cup {s}
          /\ roleUntil' = [roleUntil EXCEPT ![s] = now + RoleLifetime]
    /\ state' = [state EXCEPT ![s] = "lost"]
    /\ UNCHANGED <<session, exp, via, pending, monitor, trail>>

StartSession_Unlimited(c, s, d) ==  \* the role is created without VALID UNTIL
    /\ roles' = IF dbCallback THEN roles \cup {s} ELSE roles
    /\ roleUntil' = [roleUntil EXCEPT ![s] = IF dbCallback THEN MaxTime + 1 ELSE @]
    /\ session' = s
    /\ state' = [state EXCEPT ![s] = "active"]
    /\ exp' = [exp EXCEPT ![s] = now + Granted(d)]
    /\ via' = [via EXCEPT ![s] = c]
    /\ monitor' = [monitor EXCEPT ![s] = "spawned"]
    /\ trail' = [trail EXCEPT ![s] = Append(@, "started")]
    /\ UNCHANGED pending

\* Without a database callback the session is started all the same, with no role.
StartSession(c, s, d) ==
    /\ roles' = IF dbCallback THEN roles \cup {s} ELSE roles
    /\ roleUntil' = [roleUntil EXCEPT ![s] = IF dbCallback THEN now + RoleLifetime ELSE @]
    /\ session' = s
    /\ state' = [state EXCEPT ![s] = "active"]
    /\ exp' = [exp EXCEPT ![s] = now + Granted(d)]
    /\ via' = [via EXCEPT ![s] = c]
    /\ monitor' = [monitor EXCEPT ![s] = "spawned"]
    /\ trail' = [trail EXCEPT ![s] = Append(@, "started")]
    /\ UNCHANGED pending

\* Enable, with the user VerifyChallenge returned for challenge c.  Refused
\* while a session is active, or when more than MaxDuration is asked for.
Enable(c, s, d) ==
    /\ c \in verified
    /\ verified' = verified \ {c}
    /\ state[s] = "fresh"
    /\ now + RoleLifetime <= MaxTime  \* bound: the role's end is in the model
    /\ IF HasActiveSession \/ d > MaxDuration
       THEN UNCHANGED sessionVars
       ELSE CreateUserFails(s) \/ StartSession(c, s, d)
    /\ UNCHANGED <<now, requireAck, dbCallback, chState, chExp>>

EndSession_Broken(s, event) ==  \* m.session is not cleared
    /\ state' = [state EXCEPT ![s] = IF requireAck THEN "pending_ack" ELSE "expired"]
    /\ roles' \in IF dbCallback THEN {roles \ {s}, roles} ELSE {roles}
    /\ pending' = IF requireAck THEN Append(pending, s) ELSE pending
    /\ trail' = [trail EXCEPT ![s] = Append(@, event)]
    /\ UNCHANGED <<now, requireAck, dbCallback, chState, verified, chExp, session, exp, via, roleUntil>>

\* endSession.  The role is dropped, but a failing drop is ignored.
EndSession(s, event) ==
    /\ state' = [state EXCEPT ![s] =
                   IF event = "expired" /\ ~requireAck THEN "expired" ELSE "pending_ack"]
    /\ roles' \in IF dbCallback THEN {roles \ {s}, roles} ELSE {roles}
    /\ pending' = IF requireAck THEN Append(pending, s) ELSE pending
    /\ session' = None
    /\ trail' = [trail EXCEPT ![s] = Append(@, event)]
    /\ UNCHANGED <<now, requireAck, dbCallback, chState, verified, chExp, exp, via, roleUntil>>

Disable ==
    /\ session # None
    /\ EndSession(session, "disabled")
    /\ UNCHANGED monitor

\* monitorExpiry up to the timer: the goroutine looks its session up again.
MonitorStart(s) ==
    /\ monitor[s] = "spawned"
    /\ monitor' = [monitor EXCEPT ![s] = IF session = s THEN "waiting" ELSE "done"]
    /\ UNCHANGED <<now, requireAck, dbCallback, chState, verified, chExp, session, state, exp, via,
                   pending, roles, roleUntil, trail>>

MayExpire_Broken(s) == session # None  \* whose timer fired is not compared

MayExpire(s) == session = s /\ state[s] = "active"

MonitorFire_Broken(s) ==  \* the goroutine returns without ending the session
    /\ monitor[s] = "waiting"
    /\ now >= exp[s]
    /\ monitor' = [monitor EXCEPT ![s] = "done"]
    /\ UNCHANGED <<now, requireAck, dbCallback, chState, verified, chExp, session, state, exp, via,
                   pending, roles, roleUntil, trail>>

\* monitorExpiry after the timer.
MonitorFire(s) ==
    /\ monitor[s] = "waiting"
    /\ now >= exp[s]
    /\ monitor' = [monitor EXCEPT ![s] = "done"]
    /\ IF MayExpire(s)
       THEN EndSession(session, "expired")
       ELSE UNCHANGED <<now, requireAck, dbCallback, chState, verified, chExp, session, state, exp, via,
                        pending, roles, roleUntil, trail>>

\* p without its element at i: append(p[:i], p[i+1:]...)
RemoveIndex(p, i) == [j \in 1..(Len(p) - 1) |-> IF j < i THEN p[j] ELSE p[j + 1]]

\* Acknowledge takes the first pending report of the session.
Acknowledge(s) ==
    /\ \E i \in 1..Len(pending) :
         /\ pending[i] = s
         /\ \A j \in 1..(i - 1) : pending[j] # s
         /\ pending' = RemoveIndex(pending, i)
    /\ trail' = [trail EXCEPT ![s] = Append(@, "acknowledged")]
    /\ UNCHANGED <<now, requireAck, dbCallback, chState, verified, chExp, session, state, exp, via,
                   monitor, roles, roleUntil>>

-----------------------------------------------------------------------------
(* The environment *)

Tick ==
    /\ now < MaxTime
    /\ now' = now + 1
    /\ UNCHANGED <<requireAck, dbCallback, chState, verified, chExp, sessionVars>>

\* All manager state is in memory; the roles are in PostgreSQL.  The
\* configuration is read again.
Restart ==
    /\ session' = None
    /\ chState' = [c \in Challenges |-> IF chState[c] = "unused" THEN "unused" ELSE "gone"]
    /\ verified' = {}
    /\ state' = [s \in Sessions |-> IF state[s] = "fresh" THEN "fresh" ELSE "lost"]
    /\ pending' = <<>>
    /\ monitor' = [s \in Sessions |-> IF monitor[s] = "none" THEN "none" ELSE "done"]
    /\ requireAck' \in BOOLEAN
    /\ dbCallback' \in BOOLEAN
    /\ UNCHANGED <<now, chExp, exp, via, roles, roleUntil, trail>>

Manager ==
    \/ \E c \in Challenges : CreateChallenge(c) \/ VerifyChallenge(c)
    \/ \E c \in Challenges, s \in Sessions, d \in 0..(MaxDuration + 1) : Enable(c, s, d)
    \/ Disable
    \/ \E s \in Sessions : MonitorStart(s) \/ MonitorFire(s) \/ Acknowledge(s)
    \/ Tick

Next == Manager \/ Restart

Spec == Init /\ [][Next]_vars

\* Time passes and the runtime schedules a runnable goroutine.
Fairness ==
    /\ WF_vars(Tick)
    /\ \A s \in Sessions : WF_vars(MonitorStart(s)) /\ WF_vars(MonitorFire(s))

FairSpec == Spec /\ Fairness

-----------------------------------------------------------------------------
(* Properties *)

\* Enable refuses while a session is active, so at most one session is active
\* at a time and it is the one Disable and the monitor can reach.
ActiveIsCurrent == \A s \in Sessions : IsActive(s) => session = s

\* While a manager with a database callback holds a session, the PostgreSQL role
\* of the session exists: no monitor of an older session, no failed Enable and no
\* Acknowledge takes it away.
CurrentSessionHasRole == dbCallback /\ session # None => session \in roles

Trails ==
    {<<>>, <<"started">>}
    \cup {<<"started", e>> : e \in {"disabled", "expired"}}
    \cup {<<"started", e, "acknowledged">> : e \in {"disabled", "expired"}}

\* The audit trail of a session is a prefix of start, one end, acknowledgment:
\* Disable racing monitorExpiry never ends a session twice, and nothing is
\* acknowledged that has not ended, or twice.
AuditTrailWellFormed == \A s \in Sessions : trail[s] \in Trails

\* A pending report is of a session that ended and was not acknowledged, and no
\* session has two, so Acknowledge, which removes one, settles it.
PendingReportsUnique ==
    /\ \A i, j \in 1..Len(pending) : pending[i] = pending[j] => i = j
    /\ \A i \in 1..Len(pending) : Len(trail[pending[i]]) = 2

\* Only its own timer expires a session: one that is recorded as expired has
\* reached its ExpiresAt, even when timers of earlier sessions fire meanwhile.
NoEarlyExpiry ==
    \A s \in Sessions :
        Len(trail[s]) >= 2 /\ trail[s][2] = "expired" => now >= exp[s]

\* A verified challenge opens at most one session, however many EnableSession
\* RPCs carry it.
ChallengeOpensOneSession ==
    \A s, t \in Sessions : via[s] # None /\ via[s] = via[t] => s = t

Ended(s) == Len(trail[s]) >= 2

\* An Enable came after ExpiresAt of the session and before its monitor.
Overwritten(s) == state[s] = "active" /\ now >= exp[s] /\ session \notin {s, None}

\* The end of every session is logged, by Disable or at the latest by monitorExpiry
\* after ExpiresAt.  There are two ways out: the process restarts, or the session
\* runs out and the next Enable overwrites it before its monitor gets the lock;
\* such a session is never ended or reported.
SessionEventuallyEnds ==
    \A s \in Sessions : session = s ~> Ended(s) \/ Overwritten(s) \/ state[s] = "lost"

RoleUsable(s) == s \in roles /\ now < roleUntil[s]

\* Whatever fails or restarts, the credential of a session stops working: the
\* role is dropped or its VALID UNTIL passes.
CredentialEventuallyInvalid == \A s \in Sessions : <>[]~RoleUsable(s)

=============================================================================
