-------------------------- MODULE BreakGlassProofs --------------------------
(***************************************************************************)
(* The safety properties of the break glass manager, proved for any number *)
(* of sessions and challenges and any durations.                           *)
(***************************************************************************)
EXTENDS BreakGlass, SequenceTheorems, TLAPS

\* The current session is an active one, and a database callback has made its role.
SessionInv ==
    session # None => state[session] = "active" /\ (dbCallback => session \in roles)

\* A session the manager dropped without ending it has run out of time.
ActiveInv == \A s \in Sessions : state[s] = "active" => session = s \/ now >= exp[s]

\* What the state of a session says of its audit trail.
TrailInv ==
    \A s \in Sessions :
        /\ trail[s] \in Trails
        /\ state[s] = "fresh" => trail[s] = <<>> /\ via[s] = None
        /\ state[s] = "active" => trail[s] = <<"started">>

EndedTrails == {<<"started", "disabled">>, <<"started", "expired">>}

\* Pending reports are of different sessions, which have ended.
PendingInv ==
    /\ \A i, j \in 1..Len(pending) : pending[i] = pending[j] => i = j
    /\ \A i \in 1..Len(pending) :
         state[pending[i]] = "pending_ack" /\ trail[pending[i]] \in EndedTrails

ExpiryInv ==
    \A s \in Sessions :
        trail[s] \in {<<"started", "expired">>, <<"started", "expired", "acknowledged">>}
            => now >= exp[s]

\* A challenge is deleted when it is verified, before any session comes of it.
ChallengeInv ==
    /\ \A c \in verified : chState[c] = "gone"
    /\ \A s \in Sessions : via[s] # None => chState[via[s]] = "gone" /\ via[s] \notin verified
    /\ ChallengeOpensOneSession

IInv ==
    /\ TypeOK
    /\ SessionInv
    /\ ActiveInv
    /\ TrailInv
    /\ PendingInv
    /\ ExpiryInv
    /\ ChallengeInv

-----------------------------------------------------------------------------
\* What Append does to the trails of a session, as LogBreakGlassEvent calls
\* extend them.
LEMMA AppendEvents ==
    ASSUME NEW a \in Events, NEW b \in Events, NEW c \in Events
    PROVE  /\ Append(<<>>, a) = <<a>>
           /\ Append(<<a>>, b) = <<a, b>>
           /\ Append(<<a, b>>, c) = <<a, b, c>>
<1>1. Append(<<>>, a) = <<a>>
  OBVIOUS
<1>2. Append(<<a>>, b) = <<a, b>>
  <2>1. <<a, b>> \in Seq(Events) /\ Append(<<a>>, b) \in Seq(Events)
    OBVIOUS
  <2>2. Len(<<a, b>>) = 2 /\ Len(Append(<<a>>, b)) = 2
    OBVIOUS
  <2>3. \A i \in 1..2 : Append(<<a>>, b)[i] = <<a, b>>[i]
    <3>1. 1..2 = {1, 2}
      OBVIOUS
    <3> QED
      BY <3>1
  <2> QED
    BY <2>1, <2>2, <2>3, SeqEqual, Zenon
<1>3. Append(<<a, b>>, c) = <<a, b, c>>
  <2>1. <<a, b, c>> \in Seq(Events) /\ Append(<<a, b>>, c) \in Seq(Events)
    OBVIOUS
  <2>2. Len(<<a, b, c>>) = 3 /\ Len(Append(<<a, b>>, c)) = 3
    OBVIOUS
  <2>3. \A i \in 1..3 : Append(<<a, b>>, c)[i] = <<a, b, c>>[i]
    <3>1. 1..3 = {1, 2, 3}
      OBVIOUS
    <3> QED
      BY <3>1
  <2> QED
    BY <2>1, <2>2, <2>3, SeqEqual, Zenon
<1> QED
  BY <1>1, <1>2, <1>3, Zenon

\* Removing an index keeps a sequence a sequence, one shorter, and its elements
\* in place: the slice expression of Acknowledge.
LEMMA RemoveIndexProps ==
    ASSUME NEW S, NEW p \in Seq(S), NEW i \in 1..Len(p)
    PROVE  /\ RemoveIndex(p, i) \in Seq(S)
           /\ Len(RemoveIndex(p, i)) = Len(p) - 1
           /\ \A j \in 1..(Len(p) - 1) :
                RemoveIndex(p, i)[j] = IF j < i THEN p[j] ELSE p[j + 1]
  BY DEF RemoveIndex

\* The three kinds of trail differ in their length, so a session's trail says
\* whether it is running, ended or acknowledged.
LEMMA TrailShapes ==
    ASSUME NEW t \in Trails
    PROVE  /\ Len(t) = 2 <=> t \in EndedTrails
           /\ Len(t) >= 2 /\ t[2] = "expired"
                <=> t \in {<<"started", "expired">>, <<"started", "expired", "acknowledged">>}
           /\ t \in {<<>>, <<"started">>} => t \notin EndedTrails
<1> DEFINE e == "expired"  d == "disabled"  s == "started"  a == "acknowledged"
<1>1. t \in {<<>>, <<s>>, <<s, d>>, <<s, e>>, <<s, d, a>>, <<s, e, a>>}
  BY Zenon DEF Trails
<1>2. /\ Len(<<>>) = 0 /\ Len(<<s>>) = 1 /\ Len(<<s, d>>) = 2 /\ Len(<<s, e>>) = 2
      /\ Len(<<s, d, a>>) = 3 /\ Len(<<s, e, a>>) = 3
      /\ <<s, d>>[2] = d /\ <<s, e>>[2] = e /\ <<s, d, a>>[2] = d /\ <<s, e, a>>[2] = e
  BY Zenon
<1> QED
  BY <1>1, <1>2 DEF EndedTrails

-----------------------------------------------------------------------------
LEMMA InitIInv == Init => IInv
  BY ConstantsAssumption
  DEF Init, IInv, TypeOK, SessionInv, ActiveInv, TrailInv, PendingInv, ExpiryInv, ChallengeInv,
      ChallengeOpensOneSession, Trails, ChallengeStates, SessionStates, MonitorStates

\* Every step keeps the types.
LEMMA TypeStep == TypeOK /\ [Next]_vars => TypeOK'
<1> SUFFICES ASSUME TypeOK, [Next]_vars PROVE TypeOK'
  BY Zenon
<1> USE ConstantsAssumption
    DEF TypeOK, ChallengeStates, SessionStates, MonitorStates, Events, sessionVars
<1>1. ASSUME NEW c \in Challenges, CreateChallenge(c) PROVE TypeOK'
  BY <1>1 DEF CreateChallenge
<1>2. ASSUME NEW c \in Challenges, VerifyChallenge(c) PROVE TypeOK'
  BY <1>2, Zenon DEF VerifyChallenge
<1>3. ASSUME NEW c \in Challenges, NEW s \in Sessions, NEW d \in 0..(MaxDuration + 1),
             Enable(c, s, d)
      PROVE  TypeOK'
  <2>1. CASE UNCHANGED sessionVars
    BY <1>3, <2>1, Zenon DEF Enable
  <2>2. CASE CreateUserFails(s)
    <3>1. roleUntil' \in [Sessions -> Nat] /\ state' \in [Sessions -> SessionStates]
      BY <2>2 DEF CreateUserFails
    <3> QED
      BY <1>3, <2>2, <3>1, ZenonT(60) DEF Enable, CreateUserFails
  <2>3. CASE StartSession(c, s, d)
    <3>1. Granted(d) \in Nat
      BY DEF Granted
    <3>2. trail' \in [Sessions -> Seq(Events)]
      BY <2>3 DEF StartSession
    <3>3. /\ exp' \in [Sessions -> Nat] /\ roleUntil' \in [Sessions -> Nat]
          /\ via' \in [Sessions -> Challenges \cup {None}]
      BY <2>3, <3>1, SMTT(30) DEF StartSession
    <3>4. /\ session' \in Sessions \cup {None} /\ roles' \in SUBSET Sessions
          /\ state' \in [Sessions -> SessionStates] /\ monitor' \in [Sessions -> MonitorStates]
          /\ pending' \in Seq(Sessions)
      BY <2>3, Zenon DEF StartSession
    <3> QED
      BY <1>3, <3>2, <3>3, <3>4, ZenonT(60) DEF Enable
  <2> QED
    BY <1>3, <2>1, <2>2, <2>3, ZenonT(60) DEF Enable
<1>4. ASSUME NEW s \in Sessions, NEW e \in {"disabled", "expired"}, EndSession(s, e),
             monitor' \in [Sessions -> MonitorStates]
      PROVE  TypeOK'
  <2>1. roles' \in SUBSET Sessions
    BY <1>4, Zenon DEF EndSession
  <2>2. /\ state' \in [Sessions -> SessionStates] /\ session' \in Sessions \cup {None}
        /\ pending' \in Seq(Sessions)
    BY <1>4 DEF EndSession
  <2>3. trail' \in [Sessions -> Seq(Events)]
    BY <1>4 DEF EndSession
  <2> QED
    BY <1>4, <2>1, <2>2, <2>3, ZenonT(60) DEF EndSession
<1>5. CASE Disable
  BY <1>4, <1>5, Zenon DEF Disable
<1>6. ASSUME NEW s \in Sessions, MonitorStart(s) PROVE TypeOK'
  BY <1>6, Zenon DEF MonitorStart
<1>7. ASSUME NEW s \in Sessions, MonitorFire(s) PROVE TypeOK'
  <2>1. monitor' \in [Sessions -> MonitorStates]
    BY <1>7, Zenon DEF MonitorFire
  <2>2. CASE MayExpire(s)
    BY <1>4, <1>7, <2>1, <2>2, ZenonT(60) DEF MonitorFire, MayExpire
  <2>3. CASE ~MayExpire(s)
    BY <1>7, <2>1, <2>3, ZenonT(60) DEF MonitorFire
  <2> QED
    BY <2>2, <2>3, Zenon
<1>8. ASSUME NEW s \in Sessions, Acknowledge(s) PROVE TypeOK'
  <2>1. PICK i \in 1..Len(pending) : pending' = RemoveIndex(pending, i)
    BY <1>8, Zenon DEF Acknowledge
  <2>2. pending' \in Seq(Sessions)
    BY <2>1, RemoveIndexProps, Zenon
  <2>3. trail' \in [Sessions -> Seq(Events)]
    BY <1>8 DEF Acknowledge
  <2>4. UNCHANGED <<now, requireAck, dbCallback, chState, verified, chExp, session, state, exp, via,
                    monitor, roles, roleUntil>>
    BY <1>8, Zenon DEF Acknowledge
  <2> QED
    BY <2>2, <2>3, <2>4, Zenon
<1>9. CASE Tick
  BY <1>9 DEF Tick
<1>10. CASE Restart
  BY <1>10 DEF Restart
<1>11. CASE UNCHANGED vars
  BY <1>11, Zenon DEF vars
<1> QED
  BY <1>1, <1>2, <1>3, <1>5, <1>6, <1>7, <1>8, <1>9, <1>10, <1>11, ZenonT(60) DEF Next, Manager

\* The role of the current session: an Enable that has a database callback creates it
\* before it installs the session, and only the end of that session drops it.
LEMMA SessionStep == IInv /\ [Next]_vars => SessionInv'
<1> SUFFICES ASSUME IInv, [Next]_vars PROVE SessionInv'
  BY Zenon
<1> USE ConstantsAssumption DEF IInv, TypeOK, SessionInv, sessionVars
<1>1. ASSUME NEW c \in Challenges, CreateChallenge(c) \/ VerifyChallenge(c) PROVE SessionInv'
  BY <1>1 DEF CreateChallenge, VerifyChallenge
<1>2. ASSUME NEW c \in Challenges, NEW s \in Sessions, NEW d \in 0..(MaxDuration + 1),
             Enable(c, s, d)
      PROVE  SessionInv'
  BY <1>2 DEF Enable, CreateUserFails, StartSession
<1>3. CASE Disable
  BY <1>3, Zenon DEF Disable, EndSession
<1>4. ASSUME NEW s \in Sessions, MonitorStart(s) \/ MonitorFire(s) PROVE SessionInv'
  BY <1>4 DEF MonitorStart, MonitorFire, EndSession
<1>5. ASSUME NEW s \in Sessions, Acknowledge(s) PROVE SessionInv'
  BY <1>5, Zenon DEF Acknowledge
<1>6. CASE Tick \/ Restart \/ UNCHANGED vars
  BY <1>6 DEF Tick, Restart, vars
<1> QED
  BY <1>1, <1>2, <1>3, <1>4, <1>5, <1>6, ZenonT(60) DEF Next, Manager

\* Enable replaces only a session that is no longer active.
LEMMA ActiveStep == IInv /\ [Next]_vars => ActiveInv'
<1> SUFFICES ASSUME IInv, [Next]_vars PROVE ActiveInv'
  BY Zenon
<1> USE ConstantsAssumption DEF IInv, TypeOK, ActiveInv, sessionVars
<1>1. ASSUME NEW c \in Challenges, CreateChallenge(c) \/ VerifyChallenge(c) PROVE ActiveInv'
  BY <1>1 DEF CreateChallenge, VerifyChallenge
<1>2. ASSUME NEW c \in Challenges, NEW s \in Sessions, NEW d \in 0..(MaxDuration + 1),
             Enable(c, s, d)
      PROVE  ActiveInv'
  <2>1. CASE UNCHANGED sessionVars
    BY <1>2, <2>1, Zenon DEF Enable
  <2>2. CASE CreateUserFails(s)
    BY <1>2, <2>2, Zenon DEF Enable, CreateUserFails
  <2>3. CASE ~HasActiveSession /\ StartSession(c, s, d)
    <3>1. \A t \in Sessions : state[t] = "active" => now >= exp[t]
      BY <2>3 DEF HasActiveSession, IsActive
    <3> QED
      BY <1>2, <2>3, <3>1, Zenon DEF Enable, StartSession
  <2> QED
    BY <1>2, <2>1, <2>2, <2>3, Zenon DEF Enable
<1>3. CASE Disable
  BY <1>3, Zenon DEF Disable, EndSession
<1>4. ASSUME NEW s \in Sessions, MonitorStart(s) \/ MonitorFire(s) PROVE ActiveInv'
  BY <1>4 DEF MonitorStart, MonitorFire, MayExpire, EndSession
<1>5. ASSUME NEW s \in Sessions, Acknowledge(s) PROVE ActiveInv'
  BY <1>5, Zenon DEF Acknowledge
<1>6. CASE Tick
  <2>1. \A s \in Sessions : now >= exp[s] => now + 1 >= exp[s]
    OBVIOUS
  <2> QED
    BY <1>6, <2>1, Zenon DEF Tick
<1>7. CASE Restart
  BY <1>7, Zenon DEF Restart
<1>8. CASE UNCHANGED vars
  BY <1>8, Zenon DEF vars
<1> QED
  BY <1>1, <1>2, <1>3, <1>4, <1>5, <1>6, <1>7, <1>8, ZenonT(60) DEF Next, Manager

\* A challenge is gone before a session comes of it, and stays gone.
LEMMA ChallengeStep == IInv /\ [Next]_vars => ChallengeInv'
<1> SUFFICES ASSUME IInv, [Next]_vars PROVE ChallengeInv'
  BY Zenon
<1> USE ConstantsAssumption
    DEF IInv, TypeOK, ChallengeInv, ChallengeOpensOneSession, sessionVars
<1>1. ASSUME NEW c \in Challenges, CreateChallenge(c) PROVE ChallengeInv'
  BY <1>1, Zenon DEF CreateChallenge
<1>2. ASSUME NEW c \in Challenges, VerifyChallenge(c) PROVE ChallengeInv'
  BY <1>2 DEF VerifyChallenge
<1>3. ASSUME NEW c \in Challenges, NEW s \in Sessions, NEW d \in 0..(MaxDuration + 1),
             Enable(c, s, d)
      PROVE  ChallengeInv'
  <2>1. CASE via' = via
    BY <1>3, <2>1, Zenon DEF Enable
  <2>2. CASE via' = [via EXCEPT ![s] = c]
    <3>1. c \in verified /\ verified' = verified \ {c} /\ UNCHANGED <<chState, chExp>>
      BY <1>3, Zenon DEF Enable
    <3>2. \A x \in Sessions : via'[x] = IF x = s THEN c ELSE via[x]
      BY <2>2, Zenon
    <3>3. \A x \in Sessions : via'[x] # None => chState'[via'[x]] = "gone" /\ via'[x] \notin verified'
      BY <3>1, <3>2, ZenonT(60)
    <3>4. c # None
      OBVIOUS
    <3>5. \A x \in Sessions : via[x] # c
      BY <3>1, <3>4
    <3>6. ChallengeOpensOneSession'
      BY <3>2, <3>4, <3>5, Zenon
    <3> QED
      BY <3>1, <3>3, <3>6, ZenonT(60)
  <2> QED
    BY <1>3, <2>1, <2>2, ZenonT(60) DEF Enable, CreateUserFails, StartSession
<1>4. CASE Disable
  BY <1>4, Zenon DEF Disable, EndSession
<1>5. ASSUME NEW s \in Sessions, MonitorStart(s) \/ MonitorFire(s) PROVE ChallengeInv'
  BY <1>5 DEF MonitorStart, MonitorFire, EndSession
<1>6. ASSUME NEW s \in Sessions, Acknowledge(s) PROVE ChallengeInv'
  BY <1>6, Zenon DEF Acknowledge
<1>7. CASE Restart
  BY <1>7, Zenon DEF Restart
<1>8. CASE Tick \/ UNCHANGED vars
  BY <1>8, Zenon DEF Tick, vars
<1> QED
  BY <1>1, <1>2, <1>3, <1>4, <1>5, <1>6, <1>7, <1>8, ZenonT(60) DEF Next, Manager

\* The three steps that log an event, and what they make of the trail.
LEMMA StartEffect ==
    ASSUME IInv, NEW c \in Challenges, NEW s \in Sessions, NEW d, state[s] = "fresh",
           StartSession(c, s, d)
    PROVE  trail' = [trail EXCEPT ![s] = <<"started">>]
<1>1. trail[s] = <<>>
  BY Zenon DEF IInv, TrailInv
<1> QED
  BY <1>1, AppendEvents, Zenon DEF StartSession, Events

LEMMA EndEffect ==
    ASSUME IInv, session # None, NEW e \in {"disabled", "expired"}, EndSession(session, e)
    PROVE  /\ session \in Sessions
           /\ trail' = [trail EXCEPT ![session] = <<"started", e>>]
<1>1. session \in Sessions /\ trail[session] = <<"started">>
  BY Zenon DEF IInv, TypeOK, SessionInv, TrailInv
<1> QED
  BY <1>1, AppendEvents, Zenon DEF EndSession, Events

LEMMA AckEffect ==
    ASSUME IInv, NEW s \in Sessions, Acknowledge(s)
    PROVE  /\ trail[s] \in EndedTrails
           /\ state[s] = "pending_ack"
           /\ trail' = [trail EXCEPT ![s] = <<"started", trail[s][2], "acknowledged">>]
<1>1. trail[s] \in EndedTrails /\ state[s] = "pending_ack"
  BY Zenon DEF IInv, PendingInv, Acknowledge
<1>2. \A e \in {"disabled", "expired"} :
        Append(<<"started", e>>, "acknowledged") = <<"started", e, "acknowledged">>
  BY AppendEvents, Zenon DEF Events
<1>3. Append(trail[s], "acknowledged") = <<"started", trail[s][2], "acknowledged">>
  <2>1. <<"started", "disabled">>[2] = "disabled" /\ <<"started", "expired">>[2] = "expired"
    BY Zenon
  <2>2. CASE trail[s] = <<"started", "disabled">>
    BY <1>2, <2>1, <2>2, Zenon
  <2>3. CASE trail[s] = <<"started", "expired">>
    BY <1>2, <2>1, <2>3, Zenon
  <2> QED
    BY <1>1, <2>2, <2>3, Zenon DEF EndedTrails
<1> QED
  BY <1>1, <1>3, Zenon DEF Acknowledge

\* A session starts once, ends once and is acknowledged once.
LEMMA TrailStep == IInv /\ [Next]_vars => TrailInv'
<1> SUFFICES ASSUME IInv, [Next]_vars PROVE TrailInv'
  BY Zenon
<1> USE DEF IInv, TypeOK, TrailInv, sessionVars
<1>1. ASSUME NEW c \in Challenges, CreateChallenge(c) \/ VerifyChallenge(c) PROVE TrailInv'
  BY <1>1, Zenon DEF CreateChallenge, VerifyChallenge
<1>2. ASSUME NEW c \in Challenges, NEW s \in Sessions, NEW d \in 0..(MaxDuration + 1),
             Enable(c, s, d)
      PROVE  TrailInv'
  <2>1. CASE UNCHANGED sessionVars
    BY <2>1, Zenon
  <2>2. CASE CreateUserFails(s)
    BY <2>2, Zenon DEF CreateUserFails
  <2>3. CASE StartSession(c, s, d)
    <3>1. trail' = [trail EXCEPT ![s] = <<"started">>]
      BY <1>2, <2>3, StartEffect, Zenon DEF Enable
    <3>2. <<"started">> \in Trails
      BY Zenon DEF Trails
    <3> QED
      BY <2>3, <3>1, <3>2, ZenonT(60) DEF StartSession
  <2> QED
    BY <1>2, <2>1, <2>2, <2>3, ZenonT(60) DEF Enable
<1>3. ASSUME session # None, NEW e \in {"disabled", "expired"}, EndSession(session, e)
      PROVE  TrailInv'
  <2>1. <<"started", e>> \in Trails
    BY Zenon DEF Trails
  <2> QED
    BY <1>3, <2>1, EndEffect, ZenonT(40) DEF EndSession
<1>4. CASE Disable
  BY <1>3, <1>4, Zenon DEF Disable
<1>5. ASSUME NEW s \in Sessions, MonitorStart(s) PROVE TrailInv'
  BY <1>5, Zenon DEF MonitorStart
<1>6. ASSUME NEW s \in Sessions, MonitorFire(s) PROVE TrailInv'
  <2>1. CASE MayExpire(s)
    BY <1>3, <1>6, <2>1, ConstantsAssumption, ZenonT(60) DEF MonitorFire, MayExpire
  <2>2. CASE ~MayExpire(s)
    BY <1>6, <2>2, Zenon DEF MonitorFire
  <2> QED
    BY <2>1, <2>2, Zenon
<1>7. ASSUME NEW s \in Sessions, Acknowledge(s) PROVE TrailInv'
  <2>1. <<"started", trail[s][2], "acknowledged">> \in Trails
    BY <1>7, AckEffect, SMTT(30) DEF Trails, EndedTrails
  <2> QED
    BY <1>7, <2>1, AckEffect, ZenonT(90) DEF Acknowledge
<1>8. CASE Tick
  BY <1>8, Zenon DEF Tick
<1>9. CASE Restart
  BY <1>9, Zenon DEF Restart
<1>10. CASE UNCHANGED vars
  BY <1>10, Zenon DEF vars
<1> QED
  BY <1>1, <1>2, <1>4, <1>5, <1>6, <1>7, <1>8, <1>9, <1>10, ZenonT(60) DEF Next, Manager

\* A report is added when its session ends and leaves when it is acknowledged.
LEMMA PendingStep == IInv /\ [Next]_vars => PendingInv'
<1> SUFFICES ASSUME IInv, [Next]_vars PROVE PendingInv'
  BY Zenon
<1>a. \A i \in 1..Len(pending) : pending[i] \in Sessions
  BY DEF IInv, TypeOK
<1> USE <1>a DEF IInv, PendingInv, sessionVars
<1>1. ASSUME NEW c \in Challenges, CreateChallenge(c) \/ VerifyChallenge(c) PROVE PendingInv'
  BY <1>1, Zenon DEF CreateChallenge, VerifyChallenge
<1>2. ASSUME NEW c \in Challenges, NEW s \in Sessions, NEW d \in 0..(MaxDuration + 1),
             Enable(c, s, d)
      PROVE  PendingInv'
  <2>1. \A i \in 1..Len(pending) : pending[i] # s
    BY <1>2, Zenon DEF Enable
  <2>2. pending' = pending
    BY <1>2, Zenon DEF Enable, CreateUserFails, StartSession
  <2>3. \A t \in Sessions \ {s} : state'[t] = state[t] /\ trail'[t] = trail[t]
    BY <1>2 DEF Enable, CreateUserFails, StartSession, TypeOK
  <2> QED
    BY <2>1, <2>2, <2>3, Zenon
<1>3. ASSUME session # None, NEW e \in {"disabled", "expired"}, EndSession(session, e)
      PROVE  PendingInv'
  <2>1. session \in Sessions /\ trail'[session] \in EndedTrails
    BY <1>3, EndEffect, Zenon DEF TypeOK, EndedTrails
  <2>2. \A i \in 1..Len(pending) : pending[i] # session
    BY <1>3, Zenon DEF SessionInv
  <2>3. \A t \in Sessions \ {session} : state'[t] = state[t] /\ trail'[t] = trail[t]
    BY <1>3, Zenon DEF EndSession, TypeOK
  <2>4. CASE ~requireAck
    BY <1>3, <2>2, <2>3, <2>4 DEF EndSession
  <2>5. CASE requireAck
    <3>1. pending' = Append(pending, session)
      BY <1>3, <2>5, Zenon DEF EndSession
    <3>2. /\ Len(pending') = Len(pending) + 1
          /\ \A i \in 1..Len(pending) : pending'[i] = pending[i]
          /\ pending'[Len(pending) + 1] = session
      BY <3>1, <2>1 DEF TypeOK
    <3>3. state'[session] = "pending_ack"
      BY <1>3, <2>1, <2>5, ZenonT(60) DEF EndSession, TypeOK
    <3>4. Len(pending) \in Nat
      BY DEF TypeOK
    <3>5. \A i \in 1..Len(pending') : i \in 1..Len(pending) \/ i = Len(pending) + 1
      BY <3>2, <3>4, SMTT(30)
    <3> QED
      BY <2>1, <2>2, <2>3, <3>2, <3>3, <3>5, SMTT(30)
  <2> QED
    BY <2>4, <2>5, Zenon DEF TypeOK
<1>4. CASE Disable
  BY <1>3, <1>4, Zenon DEF Disable
<1>5. ASSUME NEW s \in Sessions, MonitorStart(s) PROVE PendingInv'
  BY <1>5, Zenon DEF MonitorStart
<1>6. ASSUME NEW s \in Sessions, MonitorFire(s) PROVE PendingInv'
  <2>1. CASE MayExpire(s)
    BY <1>3, <1>6, <2>1, ConstantsAssumption, ZenonT(60) DEF MonitorFire, MayExpire
  <2>2. CASE ~MayExpire(s)
    BY <1>6, <2>2, Zenon DEF MonitorFire
  <2> QED
    BY <2>1, <2>2, Zenon
<1>7. ASSUME NEW s \in Sessions, Acknowledge(s) PROVE PendingInv'
  <2>1. PICK i \in 1..Len(pending) : pending[i] = s /\ pending' = RemoveIndex(pending, i)
    BY <1>7, Zenon DEF Acknowledge
  <2>2. /\ Len(pending') = Len(pending) - 1
        /\ \A j \in 1..(Len(pending) - 1) :
             pending'[j] = IF j < i THEN pending[j] ELSE pending[j + 1]
    BY <2>1, RemoveIndexProps, ZenonT(30) DEF TypeOK
  <2>3. Len(pending) \in Nat
    BY DEF TypeOK
  <2>4. \A j, k \in 1..Len(pending') : pending'[j] = pending'[k] => j = k
    <3> DEFINE old(j) == IF j < i THEN j ELSE j + 1
    <3>1. \A j \in 1..Len(pending') : old(j) \in 1..Len(pending) /\ pending'[j] = pending[old(j)]
      BY <2>2, <2>3, SMTT(30)
    <3>2. \A j, k \in 1..Len(pending') : old(j) = old(k) => j = k
      BY <2>2, <2>3, SMTT(30)
    <3> HIDE DEF old
    <3> QED
      BY <3>1, <3>2, SMTT(30)
  <2>5. \A j \in 1..Len(pending') : pending'[j] # s /\ \E k \in 1..Len(pending) : pending'[j] = pending[k]
    BY <2>1, <2>2, <2>3
  <2>6. state' = state /\ \A t \in Sessions \ {s} : trail'[t] = trail[t]
    BY <1>7, Zenon DEF Acknowledge, TypeOK
  <2> QED
    BY <2>4, <2>5, <2>6
<1>8. CASE Tick
  BY <1>8, Zenon DEF Tick
<1>9. CASE Restart
  <2>1. 1..Len(pending') = {}
    BY <1>9 DEF Restart
  <2> QED
    BY <2>1, SMTT(30)
<1>10. CASE UNCHANGED vars
  BY <1>10, Zenon DEF vars
<1> QED
  BY <1>1, <1>2, <1>4, <1>5, <1>6, <1>7, <1>8, <1>9, <1>10, ZenonT(60) DEF Next, Manager

\* A session is logged as expired only by its own timer.
LEMMA ExpiryStep == IInv /\ [Next]_vars => ExpiryInv'
<1> SUFFICES ASSUME IInv, [Next]_vars PROVE ExpiryInv'
  BY Zenon
<1> DEFINE Expired == {<<"started", "expired">>, <<"started", "expired", "acknowledged">>}
<1>a. \A s \in Sessions : trail[s] \in Expired => now >= exp[s]
  BY Zenon DEF IInv, ExpiryInv
<1>b. SUFFICES ASSUME NEW s \in Sessions, trail'[s] \in Expired PROVE now' >= exp'[s]
  BY Zenon DEF ExpiryInv
<1>c. now \in Nat /\ exp[s] \in Nat /\ trail \in [Sessions -> Seq(Events)] /\ exp \in [Sessions -> Nat]
  BY Zenon DEF IInv, TypeOK
<1>d. <<"started">> \notin Expired /\ <<"started", "disabled">> \notin Expired
  BY Zenon
<1>1. CASE trail'[s] = trail[s] /\ exp'[s] = exp[s] /\ now' >= now /\ now' \in Nat
  <2>1. trail[s] \in Expired
    BY <1>b, <1>1, Zenon
  <2>2. now >= exp[s]
    BY <2>1, <1>a, Zenon
  <2> QED
    BY <2>2, <1>c, <1>1
<1>2. ASSUME NEW c \in Challenges, CreateChallenge(c) \/ VerifyChallenge(c) PROVE now' >= exp'[s]
  BY <1>1, <1>2, <1>c DEF CreateChallenge, VerifyChallenge, sessionVars
<1>3. ASSUME NEW c \in Challenges, NEW t \in Sessions, NEW d \in 0..(MaxDuration + 1),
             Enable(c, t, d)
      PROVE  now' >= exp'[s]
  <2>1. CASE t = s /\ StartSession(c, t, d)
    <3>1. trail' = [trail EXCEPT ![s] = <<"started">>]
      BY <1>3, <2>1, StartEffect, Zenon DEF Enable
    <3> QED
      BY <1>b, <1>c, <1>d, <3>1, ZenonT(60)
  <2>2. CASE t # s /\ StartSession(c, t, d)
    BY <1>1, <1>3, <1>c, <2>2 DEF Enable, StartSession
  <2>3. CASE CreateUserFails(t) \/ UNCHANGED sessionVars
    BY <1>1, <1>3, <1>c, <2>3 DEF Enable, CreateUserFails, sessionVars
  <2> QED
    BY <1>3, <2>1, <2>2, <2>3, ZenonT(60) DEF Enable
<1>4. CASE Disable
  <2>1. EndSession(session, "disabled") /\ session # None
    BY <1>4, Zenon DEF Disable
  <2>2. session \in Sessions /\ trail' = [trail EXCEPT ![session] = <<"started", "disabled">>]
    BY <2>1, EndEffect, Zenon
  <2>3. s # session
    BY <2>2, <1>b, <1>c, <1>d, ZenonT(60)
  <2> QED
    BY <1>1, <1>c, <2>1, <2>2, <2>3 DEF EndSession
<1>5. ASSUME NEW t \in Sessions, MonitorStart(t) PROVE now' >= exp'[s]
  BY <1>1, <1>5, <1>c DEF MonitorStart
<1>6. ASSUME NEW t \in Sessions, MonitorFire(t) PROVE now' >= exp'[s]
  <2>1. CASE MayExpire(t) /\ t = s
    BY <1>6, <1>c, <2>1, Zenon DEF MonitorFire, MayExpire, EndSession
  <2>2. CASE MayExpire(t) /\ t # s
    BY <1>1, <1>6, <1>c, <2>2 DEF MonitorFire, MayExpire, EndSession
  <2>3. CASE ~MayExpire(t)
    BY <1>1, <1>6, <1>c, <2>3 DEF MonitorFire
  <2> QED
    BY <2>1, <2>2, <2>3, Zenon
<1>7. ASSUME NEW t \in Sessions, Acknowledge(t) PROVE now' >= exp'[s]
  <2>1. UNCHANGED <<now, exp>>
    BY <1>7, Zenon DEF Acknowledge
  <2>2. CASE t # s
    BY <1>1, <1>7, <1>c, <2>1, <2>2 DEF Acknowledge
  <2>3. CASE t = s
    <3>1. trail[s] \in EndedTrails /\ trail'[s] = <<"started", trail[s][2], "acknowledged">>
      BY <1>7, <1>c, <2>3, AckEffect, ZenonT(60)
    <3>2. trail[s] = <<"started", "expired">>
      BY <1>b, <3>1 DEF EndedTrails
    <3> QED
      BY <1>a, <2>1, <3>2, Zenon
  <2> QED
    BY <2>2, <2>3, Zenon
<1>8. CASE Tick
  BY <1>1, <1>8, <1>c DEF Tick, sessionVars
<1>9. CASE Restart \/ UNCHANGED vars
  BY <1>1, <1>9, <1>c DEF Restart, vars
<1> QED
  BY <1>2, <1>3, <1>4, <1>5, <1>6, <1>7, <1>8, <1>9, ZenonT(60) DEF Next, Manager

-----------------------------------------------------------------------------
\* IInv is an inductive invariant of the manager, restarts included.
THEOREM Invariance == Spec => []IInv
<1>1. IInv /\ [Next]_vars => IInv'
  BY TypeStep, SessionStep, ActiveStep, TrailStep, PendingStep, ExpiryStep, ChallengeStep, ZenonT(60) DEF IInv
<1> QED
  BY <1>1, InitIInv, PTL DEF Spec

\* Every variable keeps its type, for every number of sessions and challenges.
THEOREM TypeCorrect == Spec => []TypeOK
  BY Invariance, PTL DEF IInv

\* Manager.Enable never lets a second session become active, and an active
\* session is always the one Disable and monitorExpiry can reach.
THEOREM OneActiveSession == Spec => []ActiveIsCurrent
<1>1. IInv => ActiveIsCurrent
  BY DEF IInv, TypeOK, ActiveInv, ActiveIsCurrent, IsActive
<1> QED
  BY <1>1, Invariance, PTL

\* While a manager with a database callback holds a session, the PostgreSQL role of
\* the session exists.
THEOREM CurrentRoleExists == Spec => []CurrentSessionHasRole
<1>1. IInv => CurrentSessionHasRole
  BY Zenon DEF IInv, SessionInv, CurrentSessionHasRole
<1> QED
  BY <1>1, Invariance, PTL

\* Disable racing monitorExpiry ends a session once; nothing is acknowledged
\* before its end, or twice.
THEOREM AuditTrail == Spec => []AuditTrailWellFormed
<1>1. IInv => AuditTrailWellFormed
  BY Zenon DEF IInv, TrailInv, AuditTrailWellFormed
<1> QED
  BY <1>1, Invariance, PTL

\* Acknowledge settles a session: there is no second report of it.
THEOREM ReportsUnique == Spec => []PendingReportsUnique
<1>1. IInv => PendingReportsUnique
  <2>1. Len(<<"started", "disabled">>) = 2 /\ Len(<<"started", "expired">>) = 2
    BY Zenon
  <2> QED
    BY <2>1, Zenon DEF IInv, PendingInv, PendingReportsUnique, EndedTrails
<1> QED
  BY <1>1, Invariance, PTL

\* No timer of another session expires a session before its time.
THEOREM ExpiryOnTime == Spec => []NoEarlyExpiry
<1>1. IInv => NoEarlyExpiry
  BY TrailShapes, Zenon DEF IInv, TrailInv, ExpiryInv, NoEarlyExpiry
<1> QED
  BY <1>1, Invariance, PTL

\* However often a signed challenge is delivered, it opens one session.
THEOREM ChallengeUsedOnce == Spec => []ChallengeOpensOneSession
  BY Invariance, PTL DEF IInv, ChallengeInv

=============================================================================
