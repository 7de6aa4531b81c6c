------------------------------ MODULE Accounts ------------------------------
(***************************************************************************)
(* User accounts, sessions and challenges: internal/auth, the gRPC         *)
(* services auth and user, the SSH key handler, and the user and session   *)
(* repositories of the SQLite store.                                       *)
(*                                                                         *)
(* Every statement of a repository is atomic and nothing wider is: no call *)
(* runs in a transaction.  A call is therefore a thread that takes a step  *)
(* per statement and keeps what it read in between.  Users().Update writes *)
(* the whole row as it was read, Sessions().Update writes ended_at as it   *)
(* was read.                                                               *)
(*                                                                         *)
(* A user is its public key (UserIDFromPublicKey).  Sessions are numbered  *)
(* in the order of started_at.  Names, mail addresses, locales, the audit  *)
(* entries and the read-only calls are left out; status "pending" is never *)
(* written by the code that runs.                                          *)
(*                                                                         *)
(* A definition whose name ends in _Skipped or the like is the definition  *)
(* that follows it with a plausible mistake; no specification uses it.     *)
(***************************************************************************)
EXTENDS Integers, FiniteSets, FiniteSetsExt

CONSTANTS
    Users,         \* public keys
    NoUser,        \* the user of a call, session or challenge that is not in use
    Challenges,    \* challenge ids
    NoChallenge,   \* a login that came over SSH
    Calls,         \* requests; each is served once, in any overlap with the others
    Existing,      \* the rows a user may have when the daemon starts
    NSessions,     \* bound on the sessions that are ever started
    MaxSessions,   \* cfg.MaxSessionsPerUser, 0 for no limit
    AutoRegister,  \* cfg.AllowAutoRegistration
    DefaultRole    \* cfg.DefaultRole

Statuses == {"none", "active", "suspended", "deleted"}
Roles == {"admin", "user", "readonly"}
Rows == [status : Statuses, role : Roles]

ASSUME AccountsAssumption ==
    /\ Existing \subseteq Rows
    /\ NoChallenge \notin Challenges /\ NoUser \notin Users
    /\ Calls # {} /\ Users # {}
    /\ NSessions \in Nat /\ MaxSessions \in Nat
    /\ AutoRegister \in BOOLEAN

Sessions == 1..NSessions

VARIABLES
    row,       \* users: status and role; status "none" when there is no row
    sess,      \* sessions: "unused", "active", "idle", "ended", "removed"
    owner,     \* sessions.user_id
    via,       \* the challenge a session was opened with
    started,   \* number of sessions that have a started_at
    chal,      \* ChallengeStore: "none", "open", "expired", "used"
    key,       \* Challenge.PublicKey
    call,      \* the requests in flight, see CallType
    want,      \* history: the row the calls asked for, in the order they wrote
    raced,     \* history: a call wrote a row that had changed since it read it
    crowded,   \* history: a login did not see another one, or evicted nobody
    missed,    \* history: the sessions of a suspended or deleted user were not ended
    late       \* history: sessions opened by a call that was overtaken

accountVars == <<row, want, raced>>
sessionVars == <<sess, owner, via, started, crowded, missed, late>>
challengeVars == <<chal, key>>
vars == <<accountVars, sessionVars, challengeVars, call>>

SessionStates == {"unused", "active", "idle", "ended", "removed"}

LoginPcs == {"lookup", "count", "create", "touch", "limit", "evict", "open"}
Admitted == {"touch", "limit", "evict", "open"}     \* past checkUserStatus
HoldsRow == {"touch", "suspend", "activate", "setrole", "profile"}
Pcs == LoginPcs \cup HoldsRow \cup {"idle", "done", "add", "endall", "list", "revoke", "refresh"}

\* What a handler keeps between two statements.
CallType == [
    pc : Pcs,
    user : Users \cup {NoUser},
    row : Rows,               \* the row it read, or is to write
    own : 0..NSessions,       \* the session it opens, presents or refreshes
    todo : SUBSET Sessions,   \* the sessions it is to end
    chal : Challenges \cup {NoChallenge},
    behind : BOOLEAN,   \* history: a row it depends on was written by another call
    late : BOOLEAN]     \* history: a session of its user was ended by another call

TypeOK ==
    /\ row \in [Users -> Rows] /\ want \in [Users -> Rows]
    /\ sess \in [Sessions -> SessionStates]
    /\ owner \in [Sessions -> Users \cup {NoUser}]
    /\ via \in [Sessions -> Challenges \cup {NoChallenge}]
    /\ started \in 0..NSessions
    /\ chal \in [Challenges -> {"none", "open", "expired", "used"}]
    /\ key \in [Challenges -> Users \cup {NoUser}]
    /\ call \in [Calls -> CallType]
    /\ raced \subseteq Users /\ crowded \subseteq Users /\ missed \subseteq Users
    /\ late \subseteq Sessions

NoRow == [status |-> "none", role |-> "user"]

Idle == [pc |-> "idle", user |-> NoUser, row |-> NoRow, own |-> 0,
         todo |-> {}, chal |-> NoChallenge, behind |-> FALSE, late |-> FALSE]

Done == [Idle EXCEPT !.pc = "done"]

\* The daemon starts on the accounts of earlier runs.
Init ==
    /\ row \in [Users -> Existing]
    /\ want = row
    /\ sess = [s \in Sessions |-> "unused"]
    /\ owner = [s \in Sessions |-> NoUser]
    /\ via = [s \in Sessions |-> NoChallenge]
    /\ started = 0
    /\ chal = [c \in Challenges |-> "none"]
    /\ key = [c \in Challenges |-> NoUser]
    /\ call = [t \in Calls |-> Idle]
    /\ raced = {} /\ crowded = {} /\ missed = {} /\ late = {}

-----------------------------------------------------------------------------
(***************************************************************************)
(* The repositories                                                        *)
(***************************************************************************)

\* Users().Get, GetByPublicKey and Exists pass over deleted rows.
Found(u) == row[u].status \notin {"none", "deleted"}

IsFirstUser == \A u \in Users : ~Found(u)

Open(s) == sess[s] \in {"active", "idle"}

\* Sessions().GetByUser
GetByUser(u) == {s \in Sessions : Open(s) /\ owner[s] = u}

\* Once t has written u: marks the other calls whose row, or whose count of
\* users, is out of date.
Overtaken(u, t) ==
    [x \in Calls |->
        IF x # t /\ row'[u] # row[u]
           /\ (call[x].pc = "create" \/ (call[x].user = u /\ call[x].pc \in HoldsRow))
        THEN [call[x] EXCEPT !.behind = TRUE]
        ELSE call[x]]

\* The row of u becomes r; asked is what the call meant it to become.
WriteRow(t, u, r, asked) ==
    /\ row' = [row EXCEPT ![u] = r]
    /\ raced' = IF call[t].behind THEN raced \cup {u} ELSE raced
    /\ want' = [want EXCEPT ![u] = IF u \in raced' THEN r ELSE asked]

\* Marks the other calls that go on although the sessions S, or all those of
\* the users V, are ended.
Outlived(S, V, t) ==
    [x \in Calls |->
        IF x # t /\ \/ call[x].pc = "refresh" /\ call[x].own \in S
                    \/ call[x].pc \in Admitted /\ call[x].user \in V
        THEN [call[x] EXCEPT !.late = TRUE]
        ELSE call[x]]

\* Sessions().End: sessions that have ended stay as they are.
End(S) == sess' = [s \in Sessions |-> IF s \in S /\ Open(s) THEN "ended" ELSE sess[s]]

Goto(t, calls, pc) == call' = [calls EXCEPT ![t].pc = pc]

Return(t, calls) == call' = [calls EXCEPT ![t] = Done]

-----------------------------------------------------------------------------
(***************************************************************************)
(* Challenges                                                              *)
(***************************************************************************)

\* Challenge
Challenge(c, u) ==
    /\ chal[c] = "none"
    /\ chal' = [chal EXCEPT ![c] = "open"]
    /\ key' = [key EXCEPT ![c] = u]
    /\ UNCHANGED <<accountVars, sessionVars, call>>

\* The time to live of a challenge runs out; the store keeps it for now.
ChallengeExpires(c) ==
    /\ chal[c] = "open"
    /\ chal' = [chal EXCEPT ![c] = "expired"]
    /\ UNCHANGED <<accountVars, sessionVars, call, key>>

\* ChallengeStore.cleanup
CleanupChallenges ==
    /\ \E c \in Challenges : chal[c] = "expired"
    /\ chal' = [c \in Challenges |-> IF chal[c] = "expired" THEN "used" ELSE chal[c]]
    /\ UNCHANGED <<accountVars, sessionVars, call, key>>

GetChallenge_Peek(c) == chal[c] \in {"open", "expired"} /\ UNCHANGED chal

\* ChallengeStore.Get: the challenge is gone, whatever comes of it.
GetChallenge(c) ==
    /\ chal[c] \in {"open", "expired"}
    /\ chal' = [chal EXCEPT ![c] = "used"]

\* VerifyChallenge up to Authenticate; the signature may be wrong.
VerifyChallenge(t, c) ==
    /\ call[t].pc = "idle"
    /\ GetChallenge(c)
    /\ \/ /\ chal[c] = "open"
          /\ call' = [call EXCEPT ![t] =
                         [Idle EXCEPT !.pc = "lookup", !.user = key[c], !.chal = c]]
       \/ Return(t, call)
    /\ UNCHANGED <<accountVars, sessionVars, key>>

\* publicKeyHandler of the SSH server
SSHLogin(t, u) ==
    /\ call[t].pc = "idle"
    /\ call' = [call EXCEPT ![t] = [Idle EXCEPT !.pc = "lookup", !.user = u]]
    /\ UNCHANGED <<accountVars, sessionVars, challengeVars>>

-----------------------------------------------------------------------------
(***************************************************************************)
(* Authenticate                                                            *)
(***************************************************************************)

\* GetByPublicKey, the checks before a registration, and checkUserStatus.
LoginLookup(t) ==
    LET u == call[t].user IN
    /\ call[t].pc = "lookup"
    /\ \/ /\ Found(u) /\ row[u].status = "active"
          /\ call' = [call EXCEPT ![t].pc = "touch", ![t].row = row[u]]
       \/ /\ Found(u) /\ row[u].status # "active"
          /\ Return(t, call)
       \/ /\ ~Found(u) /\ AutoRegister
          /\ Goto(t, call, "count")
       \/ /\ ~Found(u)                 \* no auto-registration, or no mail address given
          /\ Return(t, call)
    /\ UNCHANGED <<accountVars, sessionVars, challengeVars>>

\* The role of whom is not the first; a role that is not valid is passed over.
NewRole == IF DefaultRole \in Roles THEN DefaultRole ELSE "user"

LoginCount_DefaultForAll(t) ==  \* the default role goes to the first user, too
    /\ call[t].pc = "count"
    /\ call' = [call EXCEPT ![t].pc = "create",
                            ![t].row = [status |-> "active", role |-> NewRole]]
    /\ UNCHANGED <<accountVars, sessionVars, challengeVars>>

\* IsFirstUser and NewUser: the first user becomes an administrator, the others
\* get the default role.
LoginCount(t) ==
    /\ call[t].pc = "count"
    /\ call' = [call EXCEPT ![t].pc = "create",
           ![t].row = [status |-> "active", role |-> IF IsFirstUser THEN "admin" ELSE NewRole]]
    /\ UNCHANGED <<accountVars, sessionVars, challengeVars>>

\* Users().Create: the key of a deleted user is still taken.
LoginCreate(t) ==
    LET u == call[t].user IN
    /\ call[t].pc = "create"
    /\ \/ /\ row[u].status = "none"
          /\ row' = [row EXCEPT ![u] = call[t].row]
          /\ want' = [want EXCEPT ![u] = call[t].row]
          /\ call' = [Overtaken(u, t) EXCEPT ![t] =
                         [call[t] EXCEPT !.pc = "touch", !.behind = FALSE]]
          /\ UNCHANGED raced
       \/ /\ row[u].status # "none"
          /\ Return(t, call)
          /\ UNCHANGED accountVars
    /\ UNCHANGED <<sessionVars, challengeVars>>

LoginTouch_FreshRow(t) ==
    LET u == call[t].user IN
    /\ call[t].pc = "touch"
    /\ started < NSessions
    /\ started' = started + 1
    /\ WriteRow(t, u, [status |-> "active", role |-> "user"], want[u])
    /\ call' = [Overtaken(u, t) EXCEPT ![t] = [call[t] EXCEPT
                    !.pc = "open", !.row = NoRow, !.behind = FALSE, !.own = started + 1]]
    /\ UNCHANGED <<sess, owner, via, crowded, missed, late, challengeVars>>

\* Users().Update with the new LastLoginAt; an error is ignored.  The session
\* takes its started_at here.
LoginTouch(t) ==
    LET u == call[t].user IN
    /\ call[t].pc = "touch"
    /\ started < NSessions
    /\ started' = started + 1
    /\ \/ WriteRow(t, u, call[t].row, want[u])
       \/ UNCHANGED accountVars
    /\ call' = [Overtaken(u, t) EXCEPT ![t] = [call[t] EXCEPT
                    !.pc = IF MaxSessions > 0 THEN "limit" ELSE "open",
                    !.row = NoRow, !.behind = FALSE, !.own = started + 1]]
    /\ UNCHANGED <<sess, owner, via, crowded, missed, late, challengeVars>>

\* The check of the session limit; when GetByUser fails there is none.
LoginLimit(t) ==
    LET u == call[t].user
        active == GetByUser(u)
        alone == \A x \in Calls \ {t} : call[x].user = u => call[x].pc \notin {"evict", "open"} IN
    /\ call[t].pc = "limit"
    /\ \/ /\ Cardinality(active) >= MaxSessions
          /\ call' = [call EXCEPT ![t].pc = "evict", ![t].todo = {Min(active)}]
          /\ crowded' = IF alone THEN crowded ELSE crowded \cup {u}
       \/ /\ Cardinality(active) < MaxSessions
          /\ Goto(t, call, "open")
          /\ crowded' = IF alone THEN crowded ELSE crowded \cup {u}
       \/ /\ Goto(t, call, "open")
          /\ crowded' = crowded \cup {u}
    /\ UNCHANGED <<accountVars, challengeVars, sess, owner, via, started, missed, late>>

LoginEvict_Skipped(t) ==
    /\ call[t].pc = "evict"
    /\ call' = [call EXCEPT ![t].pc = "open", ![t].todo = {}]
    /\ UNCHANGED <<accountVars, challengeVars, sessionVars>>

\* Ending the oldest session; an error is ignored.
LoginEvict(t) ==
    /\ call[t].pc = "evict"
    /\ \/ /\ End(call[t].todo)
          /\ call' = [Outlived(call[t].todo, {}, t) EXCEPT ![t] =
                         [call[t] EXCEPT !.pc = "open", !.todo = {}]]
          /\ UNCHANGED crowded
       \/ /\ call' = [call EXCEPT ![t].pc = "open", ![t].todo = {}]
          /\ crowded' = crowded \cup {call[t].user}
          /\ UNCHANGED sess
    /\ UNCHANGED <<accountVars, challengeVars, owner, via, started, missed, late>>

\* Sessions().Create
LoginOpen(t) ==
    LET s == call[t].own IN
    /\ call[t].pc = "open"
    /\ sess' = [sess EXCEPT ![s] = "active"]
    /\ owner' = [owner EXCEPT ![s] = call[t].user]
    /\ via' = [via EXCEPT ![s] = call[t].chal]
    /\ late' = IF call[t].late THEN late \cup {s} ELSE late
    /\ Return(t, call)
    /\ UNCHANGED <<accountVars, challengeVars, started, crowded, missed>>

-----------------------------------------------------------------------------
(***************************************************************************)
(* The user service                                                        *)
(***************************************************************************)

\* CreateUser: Exists, then Create with the role asked for.
AddUser(t, u, r) ==
    /\ call[t].pc = "idle" /\ ~Found(u)
    /\ call' = [call EXCEPT ![t] = [Idle EXCEPT !.pc = "add", !.user = u,
                                     !.row = [status |-> "active", role |-> r]]]
    /\ UNCHANGED <<accountVars, sessionVars, challengeVars>>

AddUserCreate(t) ==
    LET u == call[t].user IN
    /\ call[t].pc = "add"
    /\ IF row[u].status = "none"
       THEN /\ row' = [row EXCEPT ![u] = call[t].row]
            /\ want' = [want EXCEPT ![u] = call[t].row]
            /\ Return(t, Overtaken(u, t))
            /\ UNCHANGED raced
       ELSE /\ Return(t, call)
            /\ UNCHANGED accountVars
    /\ UNCHANGED <<sessionVars, challengeVars>>

\* The calls that read a row, change a field and write the row back: what
\* each makes of a row.
Asked(pc, role, r) ==
    CASE pc = "suspend"  -> [r EXCEPT !.status = "suspended"]
      [] pc = "activate" -> [r EXCEPT !.status = "active"]
      [] pc = "setrole"  -> [r EXCEPT !.role = role]
      [] pc = "profile"  -> r

\* Users().Get
EditUser(t, u, pc) ==
    /\ call[t].pc = "idle" /\ Found(u)
    /\ call' = [call EXCEPT ![t] = [Idle EXCEPT !.pc = pc, !.user = u, !.row = row[u]]]
    /\ UNCHANGED <<accountVars, sessionVars, challengeVars>>

SuspendUser(t, u) == EditUser(t, u, "suspend")

ActivateUser(t, u) == EditUser(t, u, "activate")

SetUserRole(t, u) == EditUser(t, u, "setrole")

\* UpdateUser and UpdateCurrentUser
UpdateUser(t, u) == EditUser(t, u, "profile")

EditUserWrite_NoSignOut(t, role) ==
    LET u == call[t].user  pc == call[t].pc IN
    /\ pc \in HoldsRow \ {"touch"}
    /\ WriteRow(t, u, Asked(pc, role, call[t].row), Asked(pc, role, want[u]))
    /\ Return(t, Overtaken(u, t))
    /\ UNCHANGED <<sessionVars, challengeVars>>

\* Users().Update, and on to the sessions when the user was suspended.
EditUserWrite(t, role) ==
    LET u == call[t].user  pc == call[t].pc IN
    /\ pc \in HoldsRow \ {"touch"}
    /\ WriteRow(t, u, Asked(pc, role, call[t].row), Asked(pc, role, want[u]))
    /\ call' = [Overtaken(u, t) EXCEPT ![t] =
                   IF pc = "suspend" THEN [Idle EXCEPT !.pc = "endall", !.user = u] ELSE Done]
    /\ UNCHANGED <<sessionVars, challengeVars>>

\* DeleteUser: the row is marked whatever its status.
DeleteUser(t, u) ==
    /\ call[t].pc = "idle" /\ row[u].status # "none"
    /\ row' = [row EXCEPT ![u].status = "deleted"]
    /\ want' = [want EXCEPT ![u].status = "deleted"]
    /\ call' = [Overtaken(u, t) EXCEPT ![t] = [Idle EXCEPT !.pc = "endall", !.user = u]]
    /\ UNCHANGED <<raced, sessionVars, challengeVars>>

\* EndAllForUser; an error is ignored.
EndAll(t) ==
    LET u == call[t].user IN
    /\ call[t].pc = "endall"
    /\ \/ /\ End(GetByUser(u))
          /\ missed' = missed \ {u}
          /\ Return(t, Outlived(GetByUser(u), {u}, t))
       \/ /\ missed' = missed \cup {u}
          /\ Return(t, call)
          /\ UNCHANGED sess
    /\ UNCHANGED <<accountVars, challengeVars, owner, via, started, crowded, late>>

-----------------------------------------------------------------------------
(***************************************************************************)
(* Sessions                                                                *)
(***************************************************************************)

\* SessionTimeout passes without an activity.
SessionIdles(s) ==
    /\ sess[s] = "active"
    /\ sess' = [sess EXCEPT ![s] = "idle"]
    /\ UNCHANGED <<accountVars, challengeVars, call, owner, via, started, crowded, missed, late>>

EndSessions(t, S) ==
    /\ call[t].pc = "idle" /\ S # {}
    /\ End(S)
    /\ Return(t, Outlived(S, {}, t))
    /\ UNCHANGED <<accountVars, challengeVars, owner, via, started, crowded, missed, late>>

\* Logout, and EndUserSession of the user service
Logout(t, s) == Open(s) /\ EndSessions(t, {s})

EndAllUserSessions(t, u) == EndSessions(t, GetByUser(u))

\* GetSession finds a session that timed out; it ends it in its next step.
GetSessionExpired(t, s) ==
    /\ call[t].pc = "idle" /\ sess[s] = "idle"
    /\ call' = [call EXCEPT ![t] = [Idle EXCEPT !.pc = "revoke", !.todo = {s}]]
    /\ UNCHANGED <<accountVars, sessionVars, challengeVars>>

\* ValidateSession, and every other call that looks a session up; the lookup
\* of a session that is not to be expired changes nothing.
ValidateSession(t, s) == GetSessionExpired(t, s)

\* RevokeSession: GetSession of the current and of the other session.
RevokeSession(t, s, other) ==
    /\ call[t].pc = "idle"
    /\ sess[s] = "active" /\ sess[other] = "active" /\ owner[other] = owner[s]
    /\ call' = [call EXCEPT ![t] = [Idle EXCEPT !.pc = "revoke", !.todo = {other}]]
    /\ UNCHANGED <<accountVars, sessionVars, challengeVars>>

\* RevokeAllSessions: GetSession of the current session,
RevokeAllSessions(t, s) ==
    /\ call[t].pc = "idle" /\ sess[s] = "active"
    /\ call' = [call EXCEPT ![t] = [Idle EXCEPT !.pc = "list", !.own = s, !.user = owner[s]]]
    /\ UNCHANGED <<accountVars, sessionVars, challengeVars>>

\* the list of the user's sessions,
RevokeList(t, includeCurrent) ==
    LET found == GetByUser(call[t].user) IN
    /\ call[t].pc = "list"
    /\ call' = [call EXCEPT ![t] = [Idle EXCEPT !.pc = "revoke",
                   !.todo = IF includeCurrent THEN found ELSE found \ {call[t].own}]]
    /\ UNCHANGED <<accountVars, sessionVars, challengeVars>>

\* and one EndSession each, the latest first.
RevokeNext(t) ==
    LET todo == call[t].todo IN
    /\ call[t].pc = "revoke"
    /\ \/ /\ todo = {}
          /\ Return(t, call)
          /\ UNCHANGED sess
       \/ /\ todo # {}
          /\ End({Max(todo)})
          /\ call' = [Outlived({Max(todo)}, {}, t) EXCEPT ![t].todo = todo \ {Max(todo)}]
    /\ UNCHANGED <<accountVars, challengeVars, owner, via, started, crowded, missed, late>>

Refresh_AnySession(t, s) ==
    /\ call[t].pc = "idle" /\ sess[s] # "unused"
    /\ call' = [call EXCEPT ![t] = [Idle EXCEPT !.pc = "refresh", !.own = s]]
    /\ UNCHANGED <<accountVars, sessionVars, challengeVars>>

\* RefreshSession: Sessions().Get.  A session that has ended is written back
\* as it is, so only the others matter.
Refresh(t, s) ==
    /\ call[t].pc = "idle" /\ Open(s)
    /\ call' = [call EXCEPT ![t] = [Idle EXCEPT !.pc = "refresh", !.own = s]]
    /\ UNCHANGED <<accountVars, sessionVars, challengeVars>>

\* Sessions().Update: ended_at is written as it was read.
RefreshWrite(t) ==
    LET s == call[t].own IN
    /\ call[t].pc = "refresh"
    /\ IF sess[s] = "removed"
       THEN UNCHANGED <<sess, crowded, late>>
       ELSE /\ sess' = [sess EXCEPT ![s] = "active"]
            /\ crowded' = IF Open(s) THEN crowded ELSE crowded \cup {owner[s]}
            /\ late' = IF call[t].late THEN late \cup {s} ELSE late
    /\ Return(t, call)
    /\ UNCHANGED <<accountVars, challengeVars, owner, via, started, missed>>

\* CleanupExpiredSessions: those that ended long enough ago.
CleanupSessions(S) ==
    /\ S # {} /\ \A s \in S : sess[s] = "ended"
    /\ sess' = [s \in Sessions |-> IF s \in S THEN "removed" ELSE sess[s]]
    /\ UNCHANGED <<accountVars, challengeVars, call, owner, via, started, crowded, missed, late>>

\* The context of a call is cancelled: its next statement fails and it returns.
Abandon(t) ==
    /\ call[t].pc \notin {"idle", "done"}
    /\ missed' = IF call[t].pc = "endall" THEN missed \cup {call[t].user} ELSE missed
    /\ Return(t, call)
    /\ UNCHANGED <<accountVars, challengeVars, sess, owner, via, started, crowded, late>>

-----------------------------------------------------------------------------

Next ==
    \/ \E c \in Challenges :
        \/ \E u \in Users : Challenge(c, u)
        \/ ChallengeExpires(c)
        \/ \E t \in Calls : VerifyChallenge(t, c)
    \/ CleanupChallenges
    \/ \E t \in Calls :
        \/ LoginLookup(t) \/ LoginCount(t) \/ LoginCreate(t) \/ LoginTouch(t)
        \/ LoginLimit(t) \/ LoginEvict(t) \/ LoginOpen(t)
        \/ \E u \in Users :
            \/ SSHLogin(t, u)
            \/ \E r \in Roles : AddUser(t, u, r)
            \/ SuspendUser(t, u) \/ ActivateUser(t, u)
            \/ SetUserRole(t, u) \/ UpdateUser(t, u)
            \/ DeleteUser(t, u) \/ EndAllUserSessions(t, u)
        \/ AddUserCreate(t)
        \/ \E r \in Roles : EditUserWrite(t, r)
        \/ EndAll(t)
        \/ \E s \in Sessions :
            \/ Logout(t, s)
            \/ ValidateSession(t, s)
            \/ \E other \in Sessions : RevokeSession(t, s, other)
            \/ RevokeAllSessions(t, s)
            \/ Refresh(t, s)
        \/ \E all \in BOOLEAN : RevokeList(t, all)
        \/ RevokeNext(t) \/ RefreshWrite(t) \/ Abandon(t)
    \/ \E s \in Sessions : SessionIdles(s)
    \/ \E S \in SUBSET Sessions : CleanupSessions(S)

Spec == Init /\ [][Next]_vars

-----------------------------------------------------------------------------
(***************************************************************************)
(* Properties                                                              *)
(***************************************************************************)

\* Suspending, activating, deleting a user and setting a role all take effect
\* and stay in effect, in the order in which they are written, whatever logins
\* and profile updates go on beside them.  The exception is exact: some call
\* wrote back a row that another one had changed after it was read
\* (Users().Update writes every column).
AdminChangesStick == \A u \in Users : u \in raced \/ row[u] = want[u]

\* Once SuspendUser or DeleteUser of a user is over, the user has no open
\* session, except one opened or refreshed by a call that had been let in
\* before the sessions were ended, or when ending them failed.
SignedOut ==
    \A u \in Users :
        /\ row[u].status \in {"suspended", "deleted"}
        /\ \A t \in Calls : call[t].user = u => call[t].pc # "endall"
        => u \in raced \/ u \in missed \/ GetByUser(u) \subseteq late

\* A user has at most MaxSessionsPerUser open sessions, as long as no login
\* passed the check of the limit beside another one, no error hid the sessions
\* from the check, and no refresh brought an ended session back.
SessionLimit ==
    \A u \in Users :
        MaxSessions > 0 /\ u \notin crowded => Cardinality(GetByUser(u)) <= MaxSessions

\* A challenge opens at most one session: ChallengeStore.Get removes it under
\* the lock, before the signature is checked.
OneSessionPerChallenge ==
    \A c \in Challenges : \A s1, s2 \in Sessions :
        via[s1] = c /\ via[s2] = c => s1 = s2

\* Auto-registration gives the role that fits the accounts there are when it inserts
\* the user: an administrator's to the first, the configured one to everybody else,
\* unless an account changed between IsFirstUser and Create; then two users that
\* register at once may both be administrators.  Whatever overlaps, the account
\* that opens an empty database is an administrator's.
FirstUserIsAdmin ==
    [][\A t \in Calls : call[t].pc = "create" /\ call'[t].pc = "touch" =>
        LET role == row'[call[t].user].role
        IN  /\ call[t].behind \/ role = IF IsFirstUser THEN "admin" ELSE NewRole
            /\ (\A u \in Users : row[u].status = "none") => role = "admin"]_vars

\* A session that was ended stays ended, except when a refresh that had read it
\* while it was open writes it back.
EndedStaysEnded ==
    [][\A s \in Sessions :
        sess[s] = "ended" /\ sess'[s] \in {"active", "idle"}
        => \E t \in Calls : /\ call[t].pc = "refresh" /\ call[t].own = s
                            /\ call[t].late /\ call'[t].pc = "done"]_vars

====
