--------------------------- MODULE AccountsProofs ---------------------------
(***************************************************************************)
(* Proofs about Accounts: changes of an account stick, suspended users are *)
(* signed out, sessions are limited, a challenge opens one session, the    *)
(* first user is the administrator, an ended session stays ended.          *)
(***************************************************************************)
EXTENDS Accounts, FiniteSetTheorems, TLAPS

-----------------------------------------------------------------------------
(* The inductive invariant *)

Opening == {"limit", "evict", "open"}   \* points at which a login has its session
Passing == {"evict", "open"}            \* and is past the check of the limit

\* What a call has in hand at each of its points.
Shape(c) ==
    /\ c \in CallType
    /\ c.pc \in LoginPcs \cup HoldsRow \cup {"add", "endall"} => c.user \in Users
    /\ c.pc \in {"create", "add"} => c.row.status = "active"
    /\ c.pc \in HoldsRow => c.row.status # "none"
    /\ c.pc \in Opening \cup {"refresh"} => c.own \in Sessions
    /\ c.pc = "limit" => MaxSessions > 0

ShapeInv ==
    /\ TypeOK
    /\ \A t \in Calls : Shape(call[t])
    /\ \A c \in Challenges : chal[c] = "open" => key[c] \in Users
    /\ \A s \in Sessions : sess[s] # "unused" => owner[s] \in Users

\* The role of a user that registers now, and whether there ever was a user.
FitRole == IF IsFirstUser THEN "admin" ELSE NewRole
Inhabited == \E u \in Users : row[u].status # "none"

\* A call that was not overtaken still has the row of its user, and still adds a
\* user with the role that fits; who is not to be an administrator has seen a row.
Fresh(c) ==
    /\ c.pc \in HoldsRow => c.behind \/ row[c.user] = c.row
    /\ c.pc = "create" => c.behind \/ c.row.role = FitRole
    /\ c.pc = "create" => c.row.role = "admin" \/ Inhabited

RowInv == AdminChangesStick /\ \A t \in Calls : Fresh(call[t])

\* A login has a session number that nobody has used, and a refresh one that is in
\* use, which ended only if the refresh was marked.
Numbered(c) ==
    /\ c.pc \in Opening => c.own <= started /\ sess[c.own] = "unused"
    /\ c.pc = "refresh" => sess[c.own] # "unused" /\ (sess[c.own] = "ended" => c.late)

SessInv ==
    /\ \A t \in Calls : Numbered(call[t])
    /\ \A t, x \in Calls :
        call[t].pc \in Opening /\ call[x].pc \in Opening /\ call[t].own = call[x].own => t = x
    /\ \A s \in Sessions : s > started => sess[s] = "unused"

\* A challenge that a call or a session has is used up, and only one has it.
ChalInv ==
    \A c \in Challenges :
        /\ \A t \in Calls : call[t].chal = c => chal[c] = "used"
        /\ \A s \in Sessions : via[s] = c => chal[c] = "used"
        /\ \A t, x \in Calls : call[t].chal = c /\ call[x].chal = c => t = x
        /\ \A t \in Calls, s \in Sessions : ~(call[t].chal = c /\ via[s] = c)
        /\ \A s1, s2 \in Sessions : via[s1] = c /\ via[s2] = c => s1 = s2

\* Suspending or deleting u is over, and nothing went wrong with it.
Out(u) ==
    /\ row[u].status \in {"suspended", "deleted"}
    /\ \A t \in Calls : call[t].user = u => call[t].pc # "endall"
    /\ u \notin raced /\ u \notin missed

\* Then what is left of u, sessions and logins, was overtaken.
SignInv ==
    \A u \in Users : Out(u) =>
        /\ GetByUser(u) \subseteq late
        /\ \A t \in Calls : call[t].pc \in Admitted /\ call[t].user = u => call[t].late

\* One login of u at a time is past the check of the limit, and there is room for
\* its session once it has ended the one it is to end.
Limited(u) ==
    /\ \A t, x \in Calls : /\ call[t].pc \in Passing /\ call[t].user = u
                           /\ call[x].pc \in Passing /\ call[x].user = u
                           => t = x
    /\ Cardinality(GetByUser(u)) <= MaxSessions
    /\ \A t \in Calls : call[t].pc = "open" /\ call[t].user = u
                        => Cardinality(GetByUser(u)) < MaxSessions
    /\ \A t \in Calls : call[t].pc = "evict" /\ call[t].user = u
                        => \/ Cardinality(GetByUser(u)) < MaxSessions
                           \/ \E m \in GetByUser(u) : call[t].todo = {m}

LimitInv == MaxSessions > 0 => \A u \in Users \ crowded : Limited(u)

IInv == ShapeInv /\ RowInv /\ SessInv /\ ChalInv /\ SignInv /\ LimitInv

-----------------------------------------------------------------------------
(* Facts about calls *)

\* A call as it was, but that it may have been overtaken.
SameCall(d, c) ==
    /\ d \in CallType
    /\ d.pc = c.pc /\ d.user = c.user /\ d.row = c.row /\ d.own = c.own
    /\ d.todo = c.todo /\ d.chal = c.chal
    /\ c.behind => d.behind
    /\ c.late => d.late

\* The step is one of t, which is at d after it.
Moved(t, d) ==
    /\ call' \in [Calls -> CallType]
    /\ call'[t] = d
    /\ \A x \in Calls \ {t} : SameCall(call'[x], call[x])

LEMMA IdleType ==
    /\ Idle \in CallType /\ Idle.pc = "idle" /\ Idle.chal = NoChallenge
    /\ Done \in CallType /\ Done.pc = "done" /\ Done.chal = NoChallenge /\ Done.user = NoUser
<1>1. 0 \in 0..NSessions /\ NoRow \in Rows
  BY AccountsAssumption DEF NoRow, Rows, Statuses, Roles
<1> QED
  BY <1>1, Zenon DEF Idle, Done, CallType, Pcs

LEMMA Begins == {"lookup", "add", "list", "revoke", "refresh", "endall"} \subseteq Pcs
  BY Zenon DEF Pcs, LoginPcs

LEMMA SameSelf == ASSUME NEW c \in CallType PROVE SameCall(c, c)
  BY Zenon DEF SameCall

LEMMA SameBehind ==
    ASSUME NEW c \in CallType
    PROVE  SameCall([c EXCEPT !.behind = TRUE], c) /\ [c EXCEPT !.behind = TRUE].behind
  BY Zenon DEF SameCall, CallType

LEMMA SameLate ==
    ASSUME NEW c \in CallType
    PROVE  SameCall([c EXCEPT !.late = TRUE], c) /\ [c EXCEPT !.late = TRUE].late
  BY Zenon DEF SameCall, CallType

\* The calls, some of them marked.
Marked(calls) ==
    /\ calls \in [Calls -> CallType]
    /\ \A x \in Calls : SameCall(calls[x], call[x])

LEMMA CallsMarked == ASSUME ShapeInv PROVE Marked(call) /\ call \in [Calls -> CallType]
<1>1. call \in [Calls -> CallType]
  BY Zenon DEF ShapeInv, TypeOK
<1>2. \A x \in Calls : call[x] \in CallType
  BY <1>1, Zenon
<1> QED
  BY <1>1, <1>2, SameSelf, Zenon DEF Marked

LEMMA OvertakenMarks ==
    ASSUME ShapeInv, NEW u, NEW t \in Calls
    PROVE  /\ Marked(Overtaken(u, t)) /\ Overtaken(u, t)[t] = call[t]
           /\ \A x \in Calls \ {t} :
                /\ row'[u] # row[u]
                /\ call[x].pc = "create" \/ (call[x].user = u /\ call[x].pc \in HoldsRow)
                => Overtaken(u, t)[x].behind
<1> DEFINE Hit(x) == x # t /\ row'[u] # row[u]
              /\ (call[x].pc = "create" \/ (call[x].user = u /\ call[x].pc \in HoldsRow))
<1>1. \A x \in Calls : call[x] \in CallType
  BY CallsMarked, Zenon
<1>2. \A x \in Calls : Overtaken(u, t)[x] = IF Hit(x) THEN [call[x] EXCEPT !.behind = TRUE] ELSE call[x]
  BY Zenon DEF Overtaken
<1>3. Overtaken(u, t) = [x \in Calls |-> Overtaken(u, t)[x]]
  BY Zenon DEF Overtaken
<1> HIDE DEF Overtaken
<1>4. ASSUME NEW x \in Calls
      PROVE  SameCall(Overtaken(u, t)[x], call[x]) /\ (Hit(x) => Overtaken(u, t)[x].behind)
  <2>1. CASE Hit(x)
    BY <1>1, <1>2, <2>1, SameBehind, Zenon
  <2>2. CASE ~Hit(x)
    BY <1>1, <1>2, <2>2, SameSelf, Zenon
  <2> QED
    BY <2>1, <2>2, Zenon
<1>5. Overtaken(u, t) \in [Calls -> CallType]
  <2>1. \A x \in Calls : Overtaken(u, t)[x] \in CallType
    BY <1>4, Zenon DEF SameCall
  <2> QED
    BY <1>3, <2>1, Zenon
<1> QED
  BY <1>2, <1>4, <1>5, Zenon DEF Marked

LEMMA OutlivedMarks ==
    ASSUME ShapeInv, NEW S, NEW V, NEW t \in Calls
    PROVE  /\ Marked(Outlived(S, V, t)) /\ Outlived(S, V, t)[t] = call[t]
           /\ \A x \in Calls \ {t} :
                \/ call[x].pc = "refresh" /\ call[x].own \in S
                \/ call[x].pc \in Admitted /\ call[x].user \in V
                => Outlived(S, V, t)[x].late
<1> DEFINE Hit(x) == x # t /\ \/ call[x].pc = "refresh" /\ call[x].own \in S
                              \/ call[x].pc \in Admitted /\ call[x].user \in V
<1>1. \A x \in Calls : call[x] \in CallType
  BY CallsMarked, Zenon
<1>2. \A x \in Calls : Outlived(S, V, t)[x] = IF Hit(x) THEN [call[x] EXCEPT !.late = TRUE] ELSE call[x]
  BY Zenon DEF Outlived
<1>3. Outlived(S, V, t) = [x \in Calls |-> Outlived(S, V, t)[x]]
  BY Zenon DEF Outlived
<1> HIDE DEF Outlived
<1>4. ASSUME NEW x \in Calls
      PROVE  SameCall(Outlived(S, V, t)[x], call[x]) /\ (Hit(x) => Outlived(S, V, t)[x].late)
  <2>1. CASE Hit(x)
    BY <1>1, <1>2, <2>1, SameLate, Zenon
  <2>2. CASE ~Hit(x)
    BY <1>1, <1>2, <2>2, SameSelf, Zenon
  <2> QED
    BY <2>1, <2>2, Zenon
<1>5. Outlived(S, V, t) \in [Calls -> CallType]
  <2>1. \A x \in Calls : Outlived(S, V, t)[x] \in CallType
    BY <1>4, Zenon DEF SameCall
  <2> QED
    BY <1>3, <2>1, Zenon
<1> QED
  BY <1>2, <1>4, <1>5, Zenon DEF Marked

LEMMA Moves ==
    ASSUME NEW t \in Calls, NEW calls, Marked(calls), NEW d \in CallType,
           call' = [calls EXCEPT ![t] = d]
    PROVE  Moved(t, d) /\ \A x \in Calls \ {t} : call'[x] = calls[x]
<1>1. /\ call'[t] = d /\ call' \in [Calls -> CallType]
      /\ \A x \in Calls \ {t} : call'[x] = calls[x]
  BY Zenon DEF Marked
<1> QED
  BY <1>1, Zenon DEF Moved, Marked

LEMMA Returns ==
    ASSUME NEW t \in Calls, NEW calls, Marked(calls), Return(t, calls)
    PROVE  Moved(t, Done) /\ \A x \in Calls \ {t} : call'[x] = calls[x]
  BY Moves, IdleType, Zenon DEF Return

-----------------------------------------------------------------------------
(* What a move does to the invariant *)

RestTyped ==
    /\ row \in [Users -> Rows] /\ want \in [Users -> Rows]
    /\ sess \in [Sessions -> SessionStates]
    /\ owner \in [Sessions -> Users \cup {NoUser}]
    /\ via \in [Sessions -> Challenges \cup {NoChallenge}]
    /\ started \in 0..NSessions
    /\ chal \in [Challenges -> {"none", "open", "expired", "used"}]
    /\ key \in [Challenges -> Users \cup {NoUser}]
    /\ raced \subseteq Users /\ crowded \subseteq Users /\ missed \subseteq Users
    /\ late \subseteq Sessions
    /\ \A c \in Challenges : chal[c] = "open" => key[c] \in Users
    /\ \A s \in Sessions : sess[s] # "unused" => owner[s] \in Users

LEMMA Typed == ASSUME ShapeInv PROVE RestTyped
  BY Zenon DEF ShapeInv, TypeOK, RestTyped

LEMMA ShapeFrame ==
    ASSUME ShapeInv, NEW t \in Calls, NEW d, Moved(t, d), Shape(d), RestTyped'
    PROVE  ShapeInv'
<1>1. TypeOK'
  BY Zenon DEF TypeOK, RestTyped, Moved
<1>2. ASSUME NEW x \in Calls PROVE Shape(call'[x])
  <2>1. CASE x = t
    BY <2>1, Zenon DEF Moved
  <2>2. CASE x # t
    BY <2>2, Zenon DEF Moved, ShapeInv, Shape, SameCall
  <2> QED
    BY <2>1, <2>2, Zenon
<1> QED
  BY <1>1, <1>2, Zenon DEF ShapeInv, Shape, RestTyped

LEMMA RowFrame ==
    ASSUME RowInv, NEW t \in Calls, NEW d, Moved(t, d), UNCHANGED accountVars, Fresh(d)
    PROVE  RowInv'
<1>1. row' = row /\ want' = want /\ raced' = raced
  BY Zenon DEF accountVars
<1>2. FitRole' = FitRole /\ (Inhabited' <=> Inhabited)
  BY <1>1, Zenon DEF FitRole, IsFirstUser, Found, Inhabited
<1>3. ASSUME NEW x \in Calls PROVE Fresh(call[x])'
  <2>1. CASE x = t
    BY <1>1, <1>2, <2>1, Zenon DEF Moved, Fresh
  <2>2. CASE x # t
    <3>1. Fresh(call[x])
      BY Zenon DEF RowInv
    <3> QED
      BY <1>1, <1>2, <2>2, <3>1, Zenon DEF Moved, SameCall, Fresh
  <2> QED
    BY <2>1, <2>2, Zenon
<1> QED
  BY <1>1, <1>3, Zenon DEF RowInv, AdminChangesStick

\* A step that writes the row of u keeps RowInv if it tells the calls that have it.
LEMMA RowWritten ==
    ASSUME ShapeInv, RowInv, NEW t \in Calls, NEW d, Moved(t, d), NEW u \in Users,
           \A v \in Users \ {u} : row'[v] = row[v] /\ want'[v] = want[v],
           raced \subseteq raced', u \in raced' \/ row'[u] = want'[u],
           row[u].status # "none" => row'[u].status # "none",
           \A x \in Calls \ {t} :
                /\ row'[u] # row[u]
                /\ call[x].pc = "create" \/ (call[x].user = u /\ call[x].pc \in HoldsRow)
                => call'[x].behind,
           Fresh(call[t])'
    PROVE  RowInv'
<1>1. AdminChangesStick'
  BY Zenon DEF RowInv, AdminChangesStick
<1>2. ASSUME NEW x \in Calls PROVE Fresh(call[x])'
  <2>1. CASE x = t
    BY <2>1, Zenon
  <2>2. CASE x # t
    <3>1. Fresh(call[x]) /\ SameCall(call'[x], call[x])
      BY <2>2, Zenon DEF RowInv, Moved
    <3>2. call'[x].pc \in HoldsRow => call'[x].behind \/ row'[call'[x].user] = call'[x].row
      <4> SUFFICES ASSUME call'[x].pc \in HoldsRow, ~call'[x].behind
                   PROVE  row'[call[x].user] = call[x].row
        BY <3>1, Zenon DEF SameCall
      <4>1. call[x].user \in Users /\ row[call[x].user] = call[x].row /\ call[x].pc \in HoldsRow
        BY <3>1, Zenon DEF Fresh, SameCall, ShapeInv, Shape
      <4>2. CASE call[x].user = u
        BY <2>2, <4>1, <4>2, Zenon
      <4>3. CASE call[x].user # u
        BY <4>1, <4>3, Zenon
      <4> QED
        BY <4>2, <4>3, Zenon
    <3>3. call'[x].pc = "create" => call'[x].behind \/ call'[x].row.role = FitRole'
      <4> SUFFICES ASSUME call'[x].pc = "create", ~call'[x].behind
                   PROVE  call'[x].row.role = FitRole'
        BY Zenon
      <4>1. call'[x].row.role = FitRole /\ call[x].pc = "create"
        BY <3>1, Zenon DEF Fresh, SameCall
      <4>2. \A v \in Users : row'[v] = row[v]
        BY <2>2, <4>1, Zenon
      <4>3. IsFirstUser' <=> IsFirstUser
        BY <4>2, Zenon DEF IsFirstUser, Found
      <4> QED
        BY <4>1, <4>3, Zenon DEF FitRole
    <3>4. call'[x].pc = "create" => call'[x].row.role = "admin" \/ Inhabited'
      <4>1. Inhabited => Inhabited'
        BY Zenon DEF Inhabited
      <4> QED
        BY <3>1, <4>1, Zenon DEF Fresh, SameCall
    <3> QED
      BY <3>2, <3>3, <3>4, Zenon DEF Fresh
  <2> QED
    BY <2>1, <2>2, Zenon
<1> QED
  BY <1>1, <1>2, Zenon DEF RowInv

\* A step keeps SessInv if it tells the refreshes of a session that it has ended.
LEMMA SessFrame ==
    ASSUME ShapeInv, SessInv, NEW t \in Calls, NEW d, Moved(t, d),
           started' \in Nat, started <= started',
           \A s \in Sessions :
                sess[s] = "unused" => sess'[s] = "unused" \/ (call[t].pc = "open" /\ call[t].own = s),
           \A s \in Sessions : sess[s] # "unused" => sess'[s] # "unused",
           \A x \in Calls \ {t} : call[x].pc = "refresh" /\ sess'[call[x].own] = "ended"
                => sess[call[x].own] = "ended" \/ call'[x].late,
           d.pc \in Opening => \/ call[t].pc \in Opening /\ d.own = call[t].own
                               \/ d.own \in Sessions /\ d.own > started,
           Numbered(call[t])'
    PROVE  SessInv'
<1>1. /\ started \in Nat /\ Sessions \subseteq Nat
      /\ \A x \in Calls : call[x].pc \in Opening \cup {"refresh"} => call[x].own \in Sessions
  <2>1. started \in Nat
    BY DEF ShapeInv, TypeOK
  <2>2. Sessions \subseteq Nat
    BY AccountsAssumption DEF Sessions
  <2> QED
    BY <2>1, <2>2, Zenon DEF ShapeInv, Shape
<1>2. call'[t] = d /\ \A x \in Calls \ {t} : SameCall(call'[x], call[x])
  BY Zenon DEF Moved
<1>3. ASSUME NEW x \in Calls \ {t} PROVE Numbered(call[x])'
  <2>1. Numbered(call[x]) /\ SameCall(call'[x], call[x])
    BY <1>2, Zenon DEF SessInv
  <2>2. ASSUME call[x].pc \in Opening PROVE call[x].own <= started' /\ sess'[call[x].own] = "unused"
    <3>1. call[x].own <= started /\ sess[call[x].own] = "unused" /\ call[x].own \in Sessions
      BY <1>1, <2>1, <2>2, Zenon DEF Numbered
    <3>2. ~(call[t].pc = "open" /\ call[t].own = call[x].own)
      BY <2>2, Zenon DEF SessInv, Opening
    <3>3. sess'[call[x].own] = "unused"
      BY <3>1, <3>2, Zenon
    <3>4. PICK n \in Nat : n = call[x].own /\ n <= started
      BY <1>1, <3>1, Zenon
    <3>5. n <= started'
      BY <1>1, <3>4
    <3> QED
      BY <3>3, <3>4, <3>5, Zenon
  <2>3. ASSUME call[x].pc = "refresh"
        PROVE  sess'[call[x].own] # "unused" /\ (sess'[call[x].own] = "ended" => call'[x].late)
    BY <1>1, <2>1, <2>3, Zenon DEF Numbered, SameCall
  <2> QED
    BY <2>1, <2>2, <2>3, Zenon DEF Numbered, SameCall
<1>4. ASSUME NEW x \in Calls \ {t}, call[x].pc \in Opening, d.pc \in Opening PROVE d.own # call[x].own
  <2>1. call[x].own <= started /\ call[x].own \in Nat
    BY <1>1, <1>4, Zenon DEF SessInv, Numbered
  <2>2. CASE call[t].pc \in Opening /\ d.own = call[t].own
    BY <1>4, <2>2, Zenon DEF SessInv
  <2>3. CASE d.own \in Sessions /\ d.own > started
    BY <1>1, <2>1, <2>3
  <2> QED
    BY <1>4, <2>2, <2>3, Zenon
<1>5. ASSUME NEW x \in Calls, NEW y \in Calls, call'[x].pc \in Opening, call'[y].pc \in Opening,
             call'[x].own = call'[y].own
      PROVE  x = y
  <2>1. CASE x # t /\ y # t
    <3>1. call[x].pc \in Opening /\ call[y].pc \in Opening /\ call[x].own = call[y].own
      BY <1>2, <1>5, <2>1, Zenon DEF SameCall
    <3> QED
      BY <3>1, Zenon DEF SessInv
  <2>2. CASE x = t /\ y # t
    BY <1>2, <1>4, <1>5, <2>2, Zenon DEF SameCall
  <2>3. CASE x # t /\ y = t
    BY <1>2, <1>4, <1>5, <2>3, Zenon DEF SameCall
  <2> QED
    BY <2>1, <2>2, <2>3, Zenon
<1>6. ASSUME NEW s \in Sessions, s > started' PROVE sess'[s] = "unused"
  <2>1. s > started
    BY <1>1, <1>6
  <2>2. sess[s] = "unused"
    BY <2>1, Zenon DEF SessInv
  <2>3. ~(call[t].pc = "open" /\ call[t].own = s)
    <3> SUFFICES ASSUME call[t].pc = "open", call[t].own = s PROVE FALSE
      BY Zenon
    <3>1. s <= started
      BY Zenon DEF SessInv, Numbered, Opening
    <3> QED
      BY <1>1, <2>1, <3>1
  <2> QED
    BY <2>2, <2>3, Zenon
<1>7. \A x \in Calls : Numbered(call[x])'
  BY <1>3, Zenon
<1> QED
  BY <1>5, <1>6, <1>7, Zenon DEF SessInv

LEMMA ChalFrame ==
    ASSUME ChalInv, NEW t \in Calls, NEW d, Moved(t, d), via' = via,
           \A c \in Challenges : chal[c] = "used" => chal'[c] = "used",
           d.chal = call[t].chal \/ d.chal \notin Challenges
    PROVE  ChalInv'
<1>1. ASSUME NEW c \in Challenges, NEW x \in Calls, call'[x].chal = c PROVE call[x].chal = c
  <2>1. CASE x = t
    BY <1>1, <2>1, Zenon DEF Moved
  <2>2. CASE x # t
    BY <1>1, <2>2, Zenon DEF Moved, SameCall
  <2> QED
    BY <2>1, <2>2, Zenon
<1> SUFFICES ASSUME NEW c \in Challenges
             PROVE  /\ \A x \in Calls : call'[x].chal = c => chal'[c] = "used"
                    /\ \A s \in Sessions : via[s] = c => chal'[c] = "used"
                    /\ \A x, y \in Calls : call'[x].chal = c /\ call'[y].chal = c => x = y
                    /\ \A x \in Calls, s \in Sessions : ~(call'[x].chal = c /\ via[s] = c)
                    /\ \A s1, s2 \in Sessions : via[s1] = c /\ via[s2] = c => s1 = s2
  BY Zenon DEF ChalInv
<1> QED
  BY <1>1, ZenonT(60) DEF ChalInv

LEMMA SignFrame ==
    ASSUME SignInv, NEW t \in Calls, NEW d, Moved(t, d), late \subseteq late',
           \A u \in Users : Out(u)' =>
                /\ Out(u) /\ GetByUser(u)' \subseteq GetByUser(u) \cup late'
                /\ d.pc \in Admitted /\ d.user = u => d.late
    PROVE  SignInv'
<1> SUFFICES ASSUME NEW u \in Users, Out(u)'
             PROVE  /\ GetByUser(u)' \subseteq late'
                    /\ \A x \in Calls : call'[x].pc \in Admitted /\ call'[x].user = u => call'[x].late
  BY Zenon DEF SignInv
<1>1. GetByUser(u) \subseteq late
  BY Zenon DEF SignInv
<1>2. GetByUser(u)' \subseteq late'
  BY <1>1, Zenon
<1>3. ASSUME NEW x \in Calls, call'[x].pc \in Admitted, call'[x].user = u PROVE call'[x].late
  <2>1. CASE x = t
    BY <1>3, <2>1, Zenon DEF Moved
  <2>2. CASE x # t
    BY <1>3, <2>2, Zenon DEF Moved, SameCall, SignInv
  <2> QED
    BY <2>1, <2>2, Zenon
<1> QED
  BY <1>2, <1>3, Zenon

\* What is over stays over, but for a call that ends sessions of all of u.
LEMMA OutBefore ==
    ASSUME NEW t \in Calls, NEW d, Moved(t, d), NEW u \in Users, Out(u)',
           row'[u].status \in {"suspended", "deleted"} /\ u \notin raced'
                => row[u].status \in {"suspended", "deleted"},
           raced \subseteq raced', missed \subseteq missed' \/ u \notin missed,
           call[t].pc # "endall" \/ call[t].user # u
    PROVE  Out(u)
<1>1. ASSUME NEW x \in Calls, call[x].user = u PROVE call[x].pc # "endall"
  <2>1. CASE x = t
    BY <1>1, <2>1, Zenon
  <2>2. CASE x # t
    BY <1>1, <2>2, Zenon DEF Out, Moved, SameCall
  <2> QED
    BY <2>1, <2>2, Zenon
<1> QED
  BY <1>1, Zenon DEF Out

LEMMA Fewer ==
    ASSUME NEW u, NEW T \in SUBSET GetByUser(u)
    PROVE  /\ IsFiniteSet(GetByUser(u)) /\ Cardinality(GetByUser(u)) \in Nat
           /\ Cardinality(T) \in Nat /\ Cardinality(T) <= Cardinality(GetByUser(u))
           /\ T # GetByUser(u) => Cardinality(T) < Cardinality(GetByUser(u))
<1>1. IsFiniteSet(Sessions)
  BY AccountsAssumption, FS_Interval DEF Sessions
<1>2. GetByUser(u) \in SUBSET Sessions
  BY Zenon DEF GetByUser
<1>3. IsFiniteSet(GetByUser(u))
  BY <1>1, <1>2, FS_Subset, Zenon
<1>4. /\ IsFiniteSet(T) /\ Cardinality(T) <= Cardinality(GetByUser(u))
      /\ Cardinality(GetByUser(u)) = Cardinality(T) => GetByUser(u) = T
  BY <1>3, FS_Subset, Zenon
<1>5. Cardinality(T) \in Nat /\ Cardinality(GetByUser(u)) \in Nat
  BY <1>3, <1>4, FS_CardinalityType, Zenon
<1> QED
  BY <1>3, <1>4, <1>5

\* A step by which u gets no session keeps its limit, unless its login passes the
\* check now.
LEMMA LimitedFrame ==
    ASSUME NEW t \in Calls, NEW d, Moved(t, d), NEW u \in Users, Limited(u),
           GetByUser(u)' \subseteq GetByUser(u),
           d.pc \in Passing /\ d.user = u =>
                call[t].pc = d.pc /\ call[t].user = u /\ call[t].todo = d.todo
    PROVE  Limited(u)'
<1> DEFINE S == GetByUser(u)
           T == GetByUser(u)'
<1>1. ASSUME NEW x \in Calls, call'[x].pc \in Passing, call'[x].user = u
      PROVE  call[x].pc = call'[x].pc /\ call[x].user = u /\ call[x].todo = call'[x].todo
  <2>1. CASE x = t
    BY <1>1, <2>1, Zenon DEF Moved
  <2>2. CASE x # t
    BY <1>1, <2>2, Zenon DEF Moved, SameCall
  <2> QED
    BY <2>1, <2>2, Zenon
<1>2. /\ Cardinality(S) \in Nat /\ Cardinality(T) \in Nat /\ Cardinality(T) <= Cardinality(S)
      /\ T # S => Cardinality(T) < Cardinality(S)
  BY Fewer, Zenon
<1>3. Cardinality(S) <= MaxSessions /\ MaxSessions \in Nat
  BY AccountsAssumption, Zenon DEF Limited
<1> HIDE DEF S, T
<1>4. /\ Cardinality(T) <= MaxSessions
      /\ Cardinality(S) < MaxSessions => Cardinality(T) < MaxSessions
      /\ T # S => Cardinality(T) < MaxSessions
  BY <1>2, <1>3
<1> USE DEF S, T
<1>5. ASSUME NEW x \in Calls, NEW y \in Calls, call'[x].pc \in Passing, call'[x].user = u,
             call'[y].pc \in Passing, call'[y].user = u
      PROVE  x = y
  BY <1>1, <1>5, Zenon DEF Limited
<1>6. ASSUME NEW x \in Calls, call'[x].pc = "open", call'[x].user = u
      PROVE  Cardinality(T) < MaxSessions
  BY <1>1, <1>4, <1>6, Zenon DEF Limited, Passing
<1>7. ASSUME NEW x \in Calls, call'[x].pc = "evict", call'[x].user = u
      PROVE  Cardinality(T) < MaxSessions \/ \E m \in T : call'[x].todo = {m}
  <2>1. call[x].pc = "evict" /\ call[x].user = u /\ call[x].todo = call'[x].todo
    BY <1>1, <1>7, Zenon DEF Passing
  <2>2. Cardinality(S) < MaxSessions \/ \E m \in S : call[x].todo = {m}
    BY <2>1, Zenon DEF Limited
  <2> HIDE DEF S, T
  <2> QED
    BY <1>4, <2>1, <2>2, Zenon
<1> QED
  BY <1>4, <1>5, <1>6, <1>7, Zenon DEF Limited

LEMMA LimitFrame ==
    ASSUME LimitInv, NEW t \in Calls, NEW d, Moved(t, d),
           \A u \in Users \ crowded' :
                /\ u \notin crowded /\ GetByUser(u)' \subseteq GetByUser(u)
                /\ d.pc \in Passing /\ d.user = u =>
                        call[t].pc = d.pc /\ call[t].user = u /\ call[t].todo = d.todo
    PROVE  LimitInv'
<1> SUFFICES ASSUME MaxSessions > 0, NEW u \in Users, u \notin crowded' PROVE Limited(u)'
  BY Zenon DEF LimitInv
<1>1. Limited(u)
  BY Zenon DEF LimitInv
<1> QED
  BY <1>1, LimitedFrame, Zenon

-----------------------------------------------------------------------------
(* The steps that only read, and those of no call *)

\* A step that writes neither accounts nor sessions.
LEMMA QuietStep ==
    ASSUME IInv, NEW t \in Calls, NEW d, Moved(t, d), UNCHANGED <<accountVars, sessionVars>>,
           RestTyped', ChalInv', Shape(d), Fresh(d), Numbered(d),
           d.pc \notin Opening, call[t].pc # "endall",
           d.pc = "touch" => row[d.user].status = "active"
    PROVE  IInv'
<1> USE DEF IInv
<1>1. /\ UNCHANGED accountVars /\ row' = row /\ raced' = raced
      /\ sess' = sess /\ owner' = owner /\ started' = started /\ crowded' = crowded
      /\ missed' = missed /\ late' = late
  BY Zenon DEF accountVars, sessionVars
<1>2. ShapeInv' /\ RowInv'
  BY <1>1, ShapeFrame, RowFrame, Zenon
<1>3. SessInv'
  <2>1. started' \in Nat /\ started <= started'
    BY <1>1, Typed DEF RestTyped
  <2>2. Numbered(call[t])'
    BY <1>1, Zenon DEF Moved, Numbered
  <2> QED
    BY <1>1, <2>1, <2>2, SessFrame, Zenon
<1>4. \A u : GetByUser(u)' = GetByUser(u)
  BY <1>1, Zenon DEF GetByUser, Open
<1>5. SignInv'
  <2>1. ASSUME NEW u \in Users, Out(u)'
        PROVE  Out(u) /\ (d.pc \in Admitted /\ d.user = u => d.late)
    <3>1. Out(u)
      BY <1>1, <2>1, OutBefore, Zenon
    <3>2. ~(d.pc \in Admitted /\ d.user = u)
      BY <3>1, Zenon DEF Out, Admitted, Opening
    <3> QED
      BY <3>1, <3>2, Zenon
  <2> QED
    BY <1>1, <1>4, <2>1, SignFrame, Zenon
<1>6. LimitInv'
  <2>1. d.pc \notin Passing
    BY Zenon DEF Passing, Opening
  <2> QED
    BY <1>1, <1>4, <2>1, LimitFrame, Zenon
<1> QED
  BY <1>2, <1>3, <1>5, <1>6, Zenon

\* Points at which a call has nothing that others can make out of date.
Plain == {"lookup", "count", "done", "add", "endall", "list", "revoke"}

LEMMA PlainFits ==
    ASSUME NEW d, d.pc \in Plain
    PROVE  Fresh(d) /\ Numbered(d) /\ d.pc \notin Opening \cup Admitted \cup Passing
  BY Zenon DEF Fresh, Numbered, Opening, HoldsRow, Plain, Admitted, Passing

\* Such a step is one that reads and goes on to d.
LEMMA ReadStep ==
    ASSUME IInv, NEW t \in Calls, NEW d, Moved(t, d),
           UNCHANGED <<accountVars, sessionVars, challengeVars>>,
           Shape(d), Fresh(d), Numbered(d), d.pc \notin Opening, call[t].pc # "endall",
           d.pc = "touch" => row[d.user].status = "active",
           d.chal = call[t].chal \/ d.chal \notin Challenges
    PROVE  IInv'
<1>1. UNCHANGED <<accountVars, sessionVars>> /\ chal' = chal /\ via' = via
  BY Zenon DEF challengeVars, sessionVars
<1>2. RestTyped'
  BY Typed, Zenon DEF IInv, RestTyped, accountVars, sessionVars, challengeVars
<1>3. ChalInv'
  BY <1>1, ChalFrame, Zenon DEF IInv
<1> QED
  BY <1>1, <1>2, <1>3, QuietStep, Zenon

LEMMA DoneFits ==
    /\ Shape(Done) /\ Fresh(Done) /\ Numbered(Done) /\ Done.pc \in Plain
    /\ Done.pc \notin Opening \cup Admitted \cup Passing \cup HoldsRow
    /\ Done.pc \notin {"touch", "create", "refresh", "endall"}
    /\ Done.chal \notin Challenges
<1>1. Done.chal \notin Challenges
  BY IdleType, AccountsAssumption, Zenon
<1>2. Done.pc \in Plain
  BY IdleType, Zenon DEF Plain
<1>3. Shape(Done) /\ Done.pc \notin HoldsRow \cup {"touch", "create", "refresh", "endall"}
  BY IdleType, Zenon DEF Shape, LoginPcs, HoldsRow, Opening
<1> QED
  BY <1>1, <1>2, <1>3, PlainFits, Zenon

LEMMA ReturnStep ==
    ASSUME IInv, NEW t \in Calls, Return(t, call), call[t].pc # "endall",
           UNCHANGED <<accountVars, sessionVars, challengeVars>>
    PROVE  IInv'
<1>1. Moved(t, Done)
  BY CallsMarked, Returns, Zenon DEF IInv
<1> QED
  BY <1>1, DoneFits, ReadStep, Zenon

\* A call begins.
LEMMA BeginStep ==
    ASSUME IInv, NEW t \in Calls, NEW d, call' = [call EXCEPT ![t] = d], call[t].pc # "endall",
           UNCHANGED <<accountVars, sessionVars, challengeVars>>,
           Shape(d), Fresh(d), Numbered(d), d.pc \notin Opening \cup {"touch"}, d.chal = NoChallenge
    PROVE  IInv'
<1>1. Moved(t, d)
  BY CallsMarked, Moves, Zenon DEF IInv, Shape
<1>2. d.chal \notin Challenges
  BY AccountsAssumption, Zenon
<1> QED
  BY <1>1, <1>2, ReadStep, Zenon

LEMMA SSHLoginKeeps == ASSUME IInv, NEW t \in Calls, NEW u \in Users, SSHLogin(t, u) PROVE IInv'
<1>1. PICK d : d = [Idle EXCEPT !.pc = "lookup", !.user = u]
  BY Zenon
<1>2. d \in CallType /\ d.pc = "lookup" /\ d.user = u /\ d.chal = NoChallenge
  BY <1>1, IdleType, Begins, Zenon DEF CallType
<1>3. Shape(d) /\ d.pc \in Plain
  BY <1>2, Zenon DEF Shape, Opening, Plain, HoldsRow
<1>4. /\ call' = [call EXCEPT ![t] = d] /\ call[t].pc # "endall"
      /\ UNCHANGED <<accountVars, sessionVars, challengeVars>> /\ d.pc # "touch"
  BY <1>1, <1>2, Zenon DEF SSHLogin
<1> QED
  BY <1>2, <1>3, <1>4, PlainFits, BeginStep, Zenon

LEMMA AddUserKeeps ==
    ASSUME IInv, NEW t \in Calls, NEW u \in Users, NEW r \in Roles, AddUser(t, u, r) PROVE IInv'
<1>1. PICK d : d = [Idle EXCEPT !.pc = "add", !.user = u, !.row = [status |-> "active", role |-> r]]
  BY Zenon
<1>2. d \in CallType /\ d.pc = "add" /\ d.user = u /\ d.chal = NoChallenge /\ d.row.status = "active"
  <2>0. LET w == [status |-> "active", role |-> r] IN w \in Rows /\ w.status = "active"
    BY DEF Rows, Statuses
  <2>1. PICK w \in Rows : w = [status |-> "active", role |-> r] /\ w.status = "active"
    BY <2>0, Zenon
  <2>2. d = [Idle EXCEPT !.pc = "add", !.user = u, !.row = w]
    BY <1>1, <2>1, Zenon
  <2>3. d \in CallType /\ d.pc = "add" /\ d.user = u /\ d.chal = NoChallenge /\ d.row = w
    BY <2>2, IdleType, Begins, Zenon DEF CallType
  <2> QED
    BY <2>1, <2>3, Zenon
<1>3. Shape(d) /\ d.pc \in Plain
  BY <1>2, Zenon DEF Shape, Opening, Plain
<1>4. /\ call' = [call EXCEPT ![t] = d] /\ call[t].pc # "endall"
      /\ UNCHANGED <<accountVars, sessionVars, challengeVars>> /\ d.pc # "touch"
  BY <1>1, <1>2, Zenon DEF AddUser
<1> QED
  BY <1>2, <1>3, <1>4, PlainFits, BeginStep, Zenon

LEMMA EditUserKeeps ==
    ASSUME IInv, NEW t \in Calls, NEW u \in Users,
           NEW p \in {"suspend", "activate", "setrole", "profile"}, EditUser(t, u, p)
    PROVE  IInv'
<1>1. PICK d : d = [Idle EXCEPT !.pc = p, !.user = u, !.row = row[u]]
  BY Zenon
<1>2. row[u] \in Rows /\ p \in Pcs
  BY Zenon DEF IInv, ShapeInv, TypeOK, Pcs, HoldsRow
<1>3. /\ d \in CallType /\ d.pc = p /\ d.user = u /\ d.chal = NoChallenge /\ d.row = row[u]
      /\ d.row.status # "none"
  BY <1>1, <1>2, IdleType, Zenon DEF CallType, EditUser, Found
<1>4. d.pc \notin Opening \cup {"touch", "refresh", "create", "add", "limit"}
  BY <1>3, Zenon DEF Opening
<1>5. Shape(d) /\ Fresh(d) /\ Numbered(d)
  BY <1>3, <1>4, Zenon DEF Shape, Fresh, Numbered
<1>6. /\ call' = [call EXCEPT ![t] = d] /\ call[t].pc # "endall"
      /\ UNCHANGED <<accountVars, sessionVars, challengeVars>>
  BY <1>1, Zenon DEF EditUser
<1> QED
  BY <1>3, <1>4, <1>5, <1>6, BeginStep, Zenon

\* GetSession and the other calls about sessions begin; the list of sessions is read.
LEMMA SessionCallKeeps ==
    ASSUME IInv, NEW t \in Calls,
           \/ \E s \in Sessions : \/ ValidateSession(t, s)
                                  \/ \E other \in Sessions : RevokeSession(t, s, other)
                                  \/ RevokeAllSessions(t, s)
           \/ \E all \in BOOLEAN : RevokeList(t, all)
    PROVE  IInv'
<1>0. call \in [Calls -> CallType] /\ owner \in [Sessions -> Users \cup {NoUser}]
  BY Zenon DEF IInv, ShapeInv, TypeOK
<1>1. PICK d : /\ call' = [call EXCEPT ![t] = d] /\ d \in CallType /\ d.pc \in {"revoke", "list"}
               /\ d.chal = NoChallenge
  <2>1. ASSUME NEW S \in SUBSET Sessions
        PROVE  LET d == [Idle EXCEPT !.pc = "revoke", !.todo = S]
               IN  d \in CallType /\ d.pc = "revoke" /\ d.chal = NoChallenge
    BY IdleType, Begins, Zenon DEF CallType
  <2>2. ASSUME NEW s \in Sessions, RevokeAllSessions(t, s)
        PROVE  LET d == [Idle EXCEPT !.pc = "list", !.own = s, !.user = owner[s]]
               IN  d \in CallType /\ d.pc = "list" /\ d.chal = NoChallenge
    <3>1. owner[s] \in Users \cup {NoUser} /\ s \in 0..NSessions
      BY <1>0 DEF Sessions
    <3> QED
      BY <3>1, IdleType, Begins, Zenon DEF CallType
  <2>3. CASE \E s \in Sessions : RevokeAllSessions(t, s)
    BY <2>2, <2>3, Zenon DEF RevokeAllSessions
  <2>4. CASE \E s \in Sessions : ValidateSession(t, s) \/ \E other \in Sessions : RevokeSession(t, s, other)
    <3>1. PICK s \in Sessions : call' = [call EXCEPT ![t] = [Idle EXCEPT !.pc = "revoke", !.todo = {s}]]
      BY <2>4, Zenon DEF ValidateSession, GetSessionExpired, RevokeSession
    <3>2. {s} \in SUBSET Sessions
      BY Zenon
    <3> QED
      BY <2>1, <3>1, <3>2, Zenon
  <2>5. CASE \E all \in BOOLEAN : RevokeList(t, all)
    <3>1. PICK all \in BOOLEAN : RevokeList(t, all)
      BY <2>5, Zenon
    <3>2. PICK S : S = IF all THEN GetByUser(call[t].user) ELSE GetByUser(call[t].user) \ {call[t].own}
      BY Zenon
    <3>3. call' = [call EXCEPT ![t] = [Idle EXCEPT !.pc = "revoke", !.todo = S]]
      BY <3>1, <3>2, Zenon DEF RevokeList
    <3>4. S \in SUBSET Sessions
      <4>1. GetByUser(call[t].user) \subseteq Sessions
        BY Zenon DEF GetByUser
      <4> QED
        BY <3>2, <4>1, Zenon
    <3> QED
      BY <2>1, <3>3, <3>4, Zenon
  <2> QED
    BY <2>3, <2>4, <2>5, Zenon
<1>2. Shape(d) /\ d.pc \in Plain /\ d.pc # "touch"
  BY <1>1, Zenon DEF Shape, LoginPcs, HoldsRow, Opening, Plain
<1>3. call[t].pc # "endall" /\ UNCHANGED <<accountVars, sessionVars, challengeVars>>
  BY Zenon DEF ValidateSession, GetSessionExpired, RevokeSession, RevokeAllSessions, RevokeList
<1> QED
  BY <1>1, <1>2, <1>3, PlainFits, BeginStep, Zenon

LEMMA RefreshKeeps == ASSUME IInv, NEW t \in Calls, NEW s \in Sessions, Refresh(t, s) PROVE IInv'
<1>1. PICK d : d = [Idle EXCEPT !.pc = "refresh", !.own = s]
  BY Zenon
<1>2. s \in 0..NSessions
  BY DEF Sessions
<1>3. d \in CallType /\ d.pc = "refresh" /\ d.own = s /\ d.chal = NoChallenge
  BY <1>1, <1>2, IdleType, Begins, Zenon DEF CallType
<1>4. Shape(d) /\ Fresh(d) /\ d.pc \notin Opening \cup {"touch"}
  BY <1>3, Zenon DEF Shape, Fresh, Opening, LoginPcs, HoldsRow
<1>5. Numbered(d)
  BY <1>3, Zenon DEF Numbered, Opening, Refresh, Open
<1>6. /\ call' = [call EXCEPT ![t] = d] /\ call[t].pc # "endall"
      /\ UNCHANGED <<accountVars, sessionVars, challengeVars>>
  BY <1>1, Zenon DEF Refresh
<1> QED
  BY <1>3, <1>4, <1>5, <1>6, BeginStep, Zenon

LEMMA LoginLookupKeeps == ASSUME IInv, NEW t \in Calls, LoginLookup(t) PROVE IInv'
<1>0. /\ call \in [Calls -> CallType] /\ call[t] \in CallType /\ Shape(call[t])
      /\ call[t].pc = "lookup" /\ call[t].pc # "endall"
      /\ UNCHANGED <<accountVars, sessionVars, challengeVars>>
  BY Zenon DEF IInv, ShapeInv, TypeOK, LoginLookup
<1>1. call[t].user \in Users
  BY <1>0, Zenon DEF Shape, LoginPcs
<1>2. row[call[t].user] \in Rows
  BY <1>1, Zenon DEF IInv, ShapeInv, TypeOK
<1>3. CASE Return(t, call)
  BY <1>0, <1>3, ReturnStep, Zenon
<1>4. CASE Goto(t, call, "count")
  <2>1. PICK d : d = [call[t] EXCEPT !.pc = "count"]
    BY Zenon
  <2>2. d \in CallType /\ d.pc = "count" /\ d.user = call[t].user /\ d.chal = call[t].chal
    BY <1>0, <2>1 DEF CallType, Pcs, LoginPcs
  <2>3. call' = [call EXCEPT ![t] = d]
    BY <1>4, <2>1, Zenon DEF Goto
  <2>4. Moved(t, d)
    BY <2>2, <2>3, CallsMarked, Moves, Zenon DEF IInv
  <2>5. Shape(d) /\ d.pc \in Plain /\ d.pc # "touch"
    BY <1>1, <2>2, Zenon DEF Shape, Opening, Plain, HoldsRow
  <2> QED
    BY <1>0, <2>2, <2>4, <2>5, PlainFits, ReadStep, Zenon
<1>5. CASE /\ row[call[t].user].status = "active"
           /\ call' = [call EXCEPT ![t].pc = "touch", ![t].row = row[call[t].user]]
  <2>1. PICK d : d = [call[t] EXCEPT !.pc = "touch", !.row = row[call[t].user]]
    BY Zenon
  <2>2. /\ d \in CallType /\ d.pc = "touch" /\ d.user = call[t].user /\ d.chal = call[t].chal
        /\ d.row = row[d.user]
    BY <1>0, <1>2, <2>1, Zenon DEF CallType, Pcs, LoginPcs
  <2>3. call' = [call EXCEPT ![t] = d]
    BY <1>0, <1>5, <2>1, Zenon
  <2>4. Moved(t, d)
    BY <2>2, <2>3, CallsMarked, Moves, Zenon DEF IInv
  <2>5. Shape(d) /\ Fresh(d) /\ Numbered(d) /\ d.pc \notin Opening
    BY <1>1, <1>5, <2>2, Zenon DEF Shape, Fresh, Numbered, Opening
  <2> QED
    BY <1>0, <1>5, <2>2, <2>4, <2>5, ReadStep, Zenon
<1> QED
  BY <1>3, <1>4, <1>5, Zenon DEF LoginLookup

LEMMA LoginCountKeeps == ASSUME IInv, NEW t \in Calls, LoginCount(t) PROVE IInv'
<1>0. /\ call \in [Calls -> CallType] /\ call[t] \in CallType /\ Shape(call[t])
      /\ call[t].pc = "count" /\ call[t].pc # "endall"
      /\ UNCHANGED <<accountVars, sessionVars, challengeVars>>
  BY Zenon DEF IInv, ShapeInv, TypeOK, LoginCount
<1>1. call[t].user \in Users
  BY <1>0, Zenon DEF Shape, LoginPcs
<1>2. PICK r \in Rows : /\ r.status = "active" /\ r.role = FitRole
                        /\ call' = [call EXCEPT ![t].pc = "create", ![t].row = r]
  <2>1. PICK g \in Roles : g = IF IsFirstUser THEN "admin" ELSE NewRole
    BY Zenon DEF Roles, NewRole
  <2>2. LET r == [status |-> "active", role |-> g]
        IN  r \in Rows /\ r.status = "active" /\ r.role = g
    BY DEF Rows, Statuses
  <2>3. g = FitRole
    BY <2>1, Zenon DEF FitRole
  <2> QED
    BY <2>1, <2>2, <2>3, Zenon DEF LoginCount
<1>3. PICK d : d = [call[t] EXCEPT !.pc = "create", !.row = r]
  BY Zenon
<1>4. /\ d \in CallType /\ d.pc = "create" /\ d.user = call[t].user /\ d.chal = call[t].chal
      /\ d.row = r
  BY <1>0, <1>3, Zenon DEF CallType, Pcs, LoginPcs
<1>5. call' = [call EXCEPT ![t] = d]
  BY <1>0, <1>2, <1>3, Zenon
<1>6. Moved(t, d)
  BY <1>4, <1>5, CallsMarked, Moves, Zenon DEF IInv
<1>7. FitRole = "admin" \/ Inhabited
  BY Zenon DEF FitRole, Inhabited, IsFirstUser, Found
<1>8. Shape(d) /\ Fresh(d) /\ Numbered(d) /\ d.pc \notin Opening /\ d.pc # "touch"
  BY <1>1, <1>2, <1>4, <1>7, Zenon DEF Shape, Fresh, Numbered, Opening, HoldsRow
<1> QED
  BY <1>0, <1>4, <1>6, <1>8, ReadStep, Zenon

LEMMA VerifyChallengeKeeps ==
    ASSUME IInv, NEW t \in Calls, NEW c \in Challenges, VerifyChallenge(t, c) PROVE IInv'
<1> USE DEF IInv
<1>0. /\ UNCHANGED <<accountVars, sessionVars>> /\ key' = key /\ via' = via
      /\ call[t].pc # "endall" /\ chal[c] \in {"open", "expired"}
      /\ chal' = [chal EXCEPT ![c] = "used"]
  BY Zenon DEF VerifyChallenge, GetChallenge, sessionVars
<1>1. /\ chal' \in [Challenges -> {"none", "open", "expired", "used"}] /\ chal'[c] = "used"
      /\ \A b \in Challenges \ {c} : chal'[b] = chal[b]
  BY <1>0, Zenon DEF ShapeInv, TypeOK
<1>2. RestTyped'
  <2>1. \A b \in Challenges : chal'[b] = "open" => key[b] \in Users
    BY <1>1, Zenon DEF ShapeInv
  <2> QED
    BY <1>0, <1>1, <2>1, Typed, Zenon DEF RestTyped, accountVars, sessionVars
<1>3. \A b \in Challenges : chal[b] = "used" => chal'[b] = "used"
  BY <1>1, Zenon
<1>4. CASE Return(t, call)
  <2>1. Moved(t, Done)
    BY <1>4, CallsMarked, Returns, Zenon
  <2>2. ChalInv'
    BY <1>0, <1>3, <2>1, DoneFits, ChalFrame, Zenon
  <2> QED
    BY <1>0, <1>2, <2>1, <2>2, DoneFits, QuietStep, Zenon
<1>5. CASE /\ chal[c] = "open"
           /\ call' = [call EXCEPT ![t] = [Idle EXCEPT !.pc = "lookup", !.user = key[c], !.chal = c]]
  <2>1. PICK d : d = [Idle EXCEPT !.pc = "lookup", !.user = key[c], !.chal = c]
    BY Zenon
  <2>2. key[c] \in Users
    BY <1>5, Zenon DEF ShapeInv
  <2>3. d \in CallType /\ d.pc = "lookup" /\ d.user = key[c] /\ d.chal = c
    BY <2>1, <2>2, IdleType, Begins, Zenon DEF CallType
  <2>4. Moved(t, d)
    BY <1>5, <2>1, <2>3, CallsMarked, Moves, Zenon
  <2>5. Shape(d) /\ d.pc \in Plain /\ d.pc # "touch"
    BY <2>2, <2>3, Zenon DEF Shape, Opening, Plain, HoldsRow
  <2>6. ChalInv'
    <3>1. /\ \A x \in Calls : call[x].chal # c
          /\ \A s \in Sessions : via[s] # c
      BY <1>5, Zenon DEF ChalInv
    <3>2. ASSUME NEW x \in Calls \ {t} PROVE call'[x].chal = call[x].chal
      BY <2>4, Zenon DEF Moved, SameCall
    <3>3. call'[t].chal = c
      BY <2>3, <2>4, Zenon DEF Moved
    <3>4. ASSUME NEW b \in Challenges
          PROVE  /\ \A x \in Calls : call'[x].chal = b => chal'[b] = "used"
                 /\ \A s \in Sessions : via[s] = b => chal'[b] = "used"
                 /\ \A x, y \in Calls : call'[x].chal = b /\ call'[y].chal = b => x = y
                 /\ \A x \in Calls, s \in Sessions : ~(call'[x].chal = b /\ via[s] = b)
                 /\ \A s1, s2 \in Sessions : via[s1] = b /\ via[s2] = b => s1 = s2
      <4>1. CASE b = c
        BY <1>1, <3>1, <3>2, <4>1, Zenon
      <4>2. CASE b # c
        <5>1. \A x \in Calls : call'[x].chal = b => x # t /\ call[x].chal = b
          BY <3>2, <3>3, <4>2, Zenon
        <5> QED
          BY <1>3, <5>1, Zenon DEF ChalInv
      <4> QED
        BY <4>1, <4>2, Zenon
    <3>5. via' = via
      BY <1>0, Zenon
    <3> HIDE DEF IInv
    <3> QED
      BY <3>4, <3>5, Zenon DEF ChalInv
  <2> QED
    BY <1>0, <1>2, <2>4, <2>5, <2>6, PlainFits, QuietStep, Zenon
<1> QED
  BY <1>4, <1>5, Zenon DEF VerifyChallenge

\* A step of no call.
LEMMA StillStep ==
    ASSUME IInv, RestTyped', call' = call, UNCHANGED accountVars,
           owner' = owner, via' = via, started' = started, crowded' = crowded,
           missed' = missed, late' = late,
           \A c \in Challenges : chal[c] = "used" => chal'[c] = "used",
           \A s \in Sessions : \/ sess'[s] = sess[s]
                               \/ sess[s] = "active" /\ sess'[s] = "idle"
                               \/ sess[s] = "ended" /\ sess'[s] = "removed"
    PROVE  IInv'
<1> USE DEF IInv
<1>1. PICK t : t \in Calls
  BY AccountsAssumption, Zenon
<1>2. PICK d : d = call[t]
  BY Zenon
<1>3. Moved(t, d)
  BY <1>2, CallsMarked, Zenon DEF Moved, Marked
<1>4. Shape(d) /\ Fresh(d) /\ Numbered(d) /\ row' = row /\ raced' = raced
  BY <1>1, <1>2, Zenon DEF ShapeInv, RowInv, SessInv, accountVars
<1>5. ShapeInv' /\ RowInv' /\ ChalInv'
  BY <1>1, <1>2, <1>3, <1>4, ShapeFrame, RowFrame, ChalFrame, Zenon
<1>6. SessInv'
  <2>1. started' \in Nat /\ started <= started'
    BY Typed DEF RestTyped
  <2>2. d.pc \in Opening \cup {"refresh"} => d.own \in Sessions
    BY <1>4, Zenon DEF Shape
  <2>3. Numbered(call[t])'
    BY <1>2, <1>4, <2>2, Zenon DEF Numbered
  <2>4. \A x \in Calls \ {t} : call[x].pc = "refresh" /\ sess'[call[x].own] = "ended"
            => sess[call[x].own] = "ended"
    BY Zenon DEF ShapeInv, Shape
  <2> QED
    BY <1>1, <1>2, <1>3, <2>1, <2>3, <2>4, SessFrame, Zenon
<1>7. \A u : GetByUser(u)' = GetByUser(u)
  BY Zenon DEF GetByUser, Open
<1>8. SignInv'
  BY <1>4, <1>7, Zenon DEF SignInv, Out
<1>9. LimitInv'
  BY <1>1, <1>2, <1>3, <1>7, LimitFrame, Zenon
<1> QED
  BY <1>5, <1>6, <1>8, <1>9, Zenon

LEMMA ChallengesKeep ==
    ASSUME IInv,
           \/ CleanupChallenges
           \/ \E c \in Challenges : ChallengeExpires(c) \/ \E u \in Users : Challenge(c, u)
    PROVE  IInv'
<1>1. /\ UNCHANGED <<accountVars, sessionVars, call>> /\ sess' = sess
      /\ owner' = owner /\ via' = via /\ started' = started /\ crowded' = crowded
      /\ missed' = missed /\ late' = late
  BY Zenon DEF CleanupChallenges, ChallengeExpires, Challenge, sessionVars
<1>2. RestTyped
  BY Typed, Zenon DEF IInv
<1> DEFINE Kept == /\ chal' \in [Challenges -> {"none", "open", "expired", "used"}]
                   /\ key' \in [Challenges -> Users \cup {NoUser}]
                   /\ \A b \in Challenges : chal'[b] = "open" => key'[b] \in Users
                   /\ \A b \in Challenges : chal[b] = "used" => chal'[b] = "used"
<1>3. Kept
  <2>1. CASE CleanupChallenges
    BY <1>2, <2>1, Zenon DEF RestTyped, CleanupChallenges
  <2>2. ASSUME NEW c \in Challenges, ChallengeExpires(c)
        PROVE  Kept
    BY <1>2, <2>2, Zenon DEF RestTyped, ChallengeExpires
  <2>3. ASSUME NEW c \in Challenges, NEW u \in Users, Challenge(c, u)
        PROVE  Kept
    BY <1>2, <2>3, Zenon DEF RestTyped, Challenge
  <2> QED
    BY <2>1, <2>2, <2>3, Zenon
<1>4. RestTyped'
  BY <1>1, <1>2, <1>3, Zenon DEF RestTyped, accountVars
<1> QED
  BY <1>1, <1>3, <1>4, StillStep, Zenon

LEMMA SessionsKeep ==
    ASSUME IInv,
           \/ \E s \in Sessions : SessionIdles(s)
           \/ \E S \in SUBSET Sessions : CleanupSessions(S)
    PROVE  IInv'
<1>1. /\ UNCHANGED <<accountVars, challengeVars, call>> /\ chal' = chal
      /\ owner' = owner /\ via' = via /\ started' = started /\ crowded' = crowded
      /\ missed' = missed /\ late' = late
  BY Zenon DEF SessionIdles, CleanupSessions, challengeVars
<1>2. RestTyped
  BY Typed, Zenon DEF IInv
<1>3. /\ sess' \in [Sessions -> SessionStates]
      /\ \A s \in Sessions : \/ sess'[s] = sess[s]
                             \/ sess[s] = "active" /\ sess'[s] = "idle"
                             \/ sess[s] = "ended" /\ sess'[s] = "removed"
  <2>1. "idle" \in SessionStates /\ "removed" \in SessionStates
    BY Zenon DEF SessionStates
  <2>2. CASE \E s \in Sessions : SessionIdles(s)
    BY <1>2, <2>1, <2>2, Zenon DEF RestTyped, SessionIdles
  <2>3. CASE \E S \in SUBSET Sessions : CleanupSessions(S)
    BY <1>2, <2>1, <2>3, Zenon DEF RestTyped, CleanupSessions
  <2> QED
    BY <2>2, <2>3, Zenon
<1>4. RestTyped'
  BY <1>1, <1>2, <1>3, Zenon DEF RestTyped, accountVars, challengeVars
<1> QED
  BY <1>1, <1>3, <1>4, StillStep, Zenon

-----------------------------------------------------------------------------
(* The steps that write an account *)

\* A step that writes the row of u and moves t to d.
LEMMA RowStep ==
    ASSUME IInv, NEW t \in Calls, NEW d, Moved(t, d), NEW u \in Users,
           row' \in [Users -> Rows], want' \in [Users -> Rows], raced' \subseteq Users,
           UNCHANGED <<sess, owner, via, crowded, missed, late, challengeVars>>,
           started' \in 0..NSessions, started <= started',
           RowInv', Shape(d), Numbered(call[t])', raced \subseteq raced',
           d.pc \in Opening => d.own \in Sessions /\ d.own > started,
           d.chal = call[t].chal \/ d.chal \notin Challenges,
           MaxSessions > 0 => d.pc \notin Passing,
           \A v \in Users \ {u} : row'[v] = row[v],
           d.user \in {u, NoUser}, call[t].pc # "endall",
           Out(u)' => Out(u) /\ (d.pc \in Admitted => d.late)
    PROVE  IInv'
<1> USE DEF IInv
<1>1. /\ sess' = sess /\ owner' = owner /\ via' = via /\ crowded' = crowded
      /\ missed' = missed /\ late' = late /\ chal' = chal /\ key' = key
  BY Zenon DEF challengeVars
<1>2. RestTyped'
  BY <1>1, Typed, Zenon DEF RestTyped
<1>3. ShapeInv' /\ ChalInv'
  BY <1>1, <1>2, ShapeFrame, ChalFrame, Zenon
<1>4. SessInv'
  <2>1. started' \in Nat
    OBVIOUS
  <2> QED
    BY <1>1, <2>1, SessFrame, Zenon
<1>5. \A v : GetByUser(v)' = GetByUser(v)
  BY <1>1, Zenon DEF GetByUser, Open
<1>6. SignInv'
  <2>1. ASSUME NEW v \in Users, Out(v)'
        PROVE  Out(v) /\ (d.pc \in Admitted /\ d.user = v => d.late)
    <3>1. CASE v = u
      BY <2>1, <3>1, Zenon
    <3>2. CASE v # u
      <4>1. Out(v)
        BY <1>1, <2>1, <3>2, OutBefore, Zenon
      <4>2. d.user # v
        BY <3>2, AccountsAssumption, Zenon
      <4> QED
        BY <4>1, <4>2, Zenon
    <3> QED
      BY <3>1, <3>2, Zenon
  <2> QED
    BY <1>1, <1>5, <2>1, SignFrame, Zenon
<1>7. LimitInv'
  <2>1. CASE MaxSessions > 0
    BY <1>1, <1>5, <2>1, LimitFrame, Zenon
  <2>2. CASE ~(MaxSessions > 0)
    BY <2>2, Zenon DEF LimitInv
  <2> QED
    BY <2>1, <2>2, Zenon
<1> QED
  BY <1>3, <1>4, <1>6, <1>7, Zenon

\* Users().Create by a login or by the user service: the row is one of an active user.
LEMMA CreatedStep ==
    ASSUME IInv, NEW t \in Calls, NEW d, Moved(t, d), Shape(call[t]),
           call[t].pc \in {"create", "add"},
           UNCHANGED <<raced, sessionVars, challengeVars>>,
           row' = [row EXCEPT ![call[t].user] = call[t].row],
           want' = [want EXCEPT ![call[t].user] = call[t].row],
           \A x \in Calls \ {t} : call'[x] = Overtaken(call[t].user, t)[x],
           Shape(d), d.pc \notin Opening \cup {"refresh", "create"},
           d.pc \in HoldsRow => d.user = call[t].user /\ d.row = call[t].row,
           d.chal = call[t].chal \/ d.chal \notin Challenges,
           d.user \in {call[t].user, NoUser}
    PROVE  IInv'
<1> USE DEF IInv
<1>1. PICK u \in Users : u = call[t].user
  BY Zenon DEF Shape, LoginPcs
<1>2. call[t].row \in Rows /\ call[t].row.status = "active"
  BY DEF Shape, CallType
<1>3. /\ row' \in [Users -> Rows] /\ want' \in [Users -> Rows]
      /\ row'[u] = call[t].row /\ want'[u] = call[t].row
      /\ \A v \in Users \ {u} : row'[v] = row[v] /\ want'[v] = want[v]
  BY <1>1, <1>2, Zenon DEF ShapeInv, TypeOK
<1>4. /\ raced' = raced /\ raced \subseteq Users /\ started' = started
      /\ UNCHANGED <<sess, owner, via, crowded, missed, late, challengeVars>> /\ sess' = sess
  BY Zenon DEF sessionVars, ShapeInv, TypeOK
<1>5. Fresh(call[t])'
  BY <1>1, <1>3, Zenon DEF Fresh, Moved
<1>6. \A x \in Calls \ {t} :
        /\ row'[u] # row[u]
        /\ call[x].pc = "create" \/ (call[x].user = u /\ call[x].pc \in HoldsRow)
        => call'[x].behind
  <2>1. \A x \in Calls \ {t} : call'[x] = Overtaken(u, t)[x]
    BY <1>1, Zenon
  <2>2. \A x \in Calls \ {t} :
            /\ row'[u] # row[u]
            /\ call[x].pc = "create" \/ (call[x].user = u /\ call[x].pc \in HoldsRow)
            => Overtaken(u, t)[x].behind
    BY OvertakenMarks, Zenon
  <2> QED
    BY <2>1, <2>2, Zenon
<1>7. RowInv'
  <2>1. raced \subseteq raced'
    BY <1>4, Zenon
  <2>2. u \in raced' \/ row'[u] = want'[u]
    BY <1>3, Zenon
  <2>3. row'[u].status # "none"
    BY <1>2, <1>3, Zenon
  <2> QED
    BY <1>3, <1>5, <1>6, <2>1, <2>2, <2>3, RowWritten, Zenon
<1>8. Numbered(call[t])' /\ call[t].pc # "endall" /\ d.pc \notin Passing
  BY Zenon DEF Numbered, Moved, Opening, Passing
<1>9. ~Out(u)'
  BY <1>2, <1>3, Zenon DEF Out
<1>10. started' \in 0..NSessions /\ started <= started'
  BY <1>4 DEF ShapeInv, TypeOK
<1> QED
  BY <1>1, <1>3, <1>4, <1>7, <1>8, <1>9, <1>10, RowStep, Zenon

LEMMA LoginCreateKeeps == ASSUME IInv, NEW t \in Calls, LoginCreate(t) PROVE IInv'
<1>0. /\ call \in [Calls -> CallType] /\ call[t] \in CallType /\ Shape(call[t])
      /\ call[t].pc = "create" /\ UNCHANGED <<sessionVars, challengeVars>>
  BY Zenon DEF IInv, ShapeInv, TypeOK, LoginCreate
<1>1. CASE Return(t, call) /\ UNCHANGED accountVars
  BY <1>0, <1>1, ReturnStep, Zenon
<1>2. CASE /\ row' = [row EXCEPT ![call[t].user] = call[t].row]
           /\ want' = [want EXCEPT ![call[t].user] = call[t].row]
           /\ call' = [Overtaken(call[t].user, t) EXCEPT ![t] =
                          [call[t] EXCEPT !.pc = "touch", !.behind = FALSE]]
           /\ UNCHANGED raced
  <2>1. PICK d : d = [call[t] EXCEPT !.pc = "touch", !.behind = FALSE]
    BY Zenon
  <2>2. /\ d \in CallType /\ d.pc = "touch" /\ d.user = call[t].user /\ d.row = call[t].row
        /\ d.chal = call[t].chal
    BY <1>0, <2>1, Zenon DEF CallType, Pcs, LoginPcs
  <2>3. Marked(Overtaken(call[t].user, t))
    BY OvertakenMarks, Zenon DEF IInv
  <2>4. Moved(t, d) /\ \A x \in Calls \ {t} : call'[x] = Overtaken(call[t].user, t)[x]
    BY <1>2, <2>1, <2>2, <2>3, Moves, Zenon
  <2>5. Shape(d) /\ d.pc \notin Opening \cup {"refresh", "create"}
    BY <1>0, <2>2, Zenon DEF Shape, Opening, LoginPcs
  <2>6. call[t].pc \in {"create", "add"} /\ UNCHANGED <<raced, sessionVars, challengeVars>>
    BY <1>0, <1>2, Zenon
  <2> QED
    BY <1>0, <1>2, <2>2, <2>4, <2>5, <2>6, CreatedStep, Zenon
<1> QED
  BY <1>1, <1>2, Zenon DEF LoginCreate

LEMMA AddUserCreateKeeps == ASSUME IInv, NEW t \in Calls, AddUserCreate(t) PROVE IInv'
<1>0. /\ Shape(call[t]) /\ call[t].pc \in {"create", "add"} /\ call[t].pc # "endall"
      /\ UNCHANGED <<sessionVars, challengeVars>>
  BY Zenon DEF IInv, ShapeInv, AddUserCreate
<1>1. CASE Return(t, call) /\ UNCHANGED accountVars
  BY <1>0, <1>1, ReturnStep, Zenon
<1>2. CASE /\ row' = [row EXCEPT ![call[t].user] = call[t].row]
           /\ want' = [want EXCEPT ![call[t].user] = call[t].row]
           /\ Return(t, Overtaken(call[t].user, t))
           /\ UNCHANGED raced
  <2>1. Marked(Overtaken(call[t].user, t))
    BY OvertakenMarks, Zenon DEF IInv
  <2>2. Moved(t, Done) /\ \A x \in Calls \ {t} : call'[x] = Overtaken(call[t].user, t)[x]
    BY <1>2, <2>1, Returns, Zenon
  <2>3. /\ Shape(Done) /\ Done.pc \notin Opening \cup {"refresh", "create"}
        /\ Done.pc \notin HoldsRow /\ Done.chal \notin Challenges /\ Done.user = NoUser
    BY DoneFits, IdleType, Zenon
  <2>4. UNCHANGED <<raced, sessionVars, challengeVars>>
    BY <1>0, <1>2, Zenon
  <2> QED
    BY <1>0, <1>2, <2>2, <2>3, <2>4, CreatedStep, Zenon
<1> QED
  BY <1>1, <1>2, Zenon DEF AddUserCreate

\* t has the row of u in hand, which is to become r; asked for was a.
Holding(t, u) == u = call[t].user /\ call[t].pc \in HoldsRow
AsAsked(t, u, r, a) == call[t].row = row[u] /\ row[u] = want[u] => r = a

\* What Users().Update does: a call that was not overtaken has the row, and writes
\* what it was asked to.
Updated(t, u, r) ==
    /\ row' \in [Users -> Rows] /\ want' \in [Users -> Rows]
    /\ raced' \subseteq Users /\ raced \subseteq raced'
    /\ \A v \in Users \ {u} : row'[v] = row[v] /\ want'[v] = want[v]
    /\ row'[u] = r
    /\ u \in raced' \/ (row'[u] = want'[u] /\ row'[u] = r /\ call[t].row = row[u])

LEMMA RowUpdated ==
    ASSUME IInv, NEW t \in Calls, NEW u \in Users, Holding(t, u),
           NEW r \in Rows, NEW a \in Rows, WriteRow(t, u, r, a), AsAsked(t, u, r, a)
    PROVE  Updated(t, u, r)
<1>1. row \in [Users -> Rows] /\ want \in [Users -> Rows] /\ raced \subseteq Users
  BY Zenon DEF IInv, ShapeInv, TypeOK
<1>2. raced \subseteq raced' /\ raced' \subseteq Users /\ (call[t].behind => u \in raced')
  BY <1>1, Zenon DEF WriteRow
<1>3. PICK w \in Rows : w = IF u \in raced' THEN r ELSE a
  BY Zenon
<1>4. /\ row' = [row EXCEPT ![u] = r] /\ want' = [want EXCEPT ![u] = w]
  BY <1>3, Zenon DEF WriteRow
<1>5. /\ row' \in [Users -> Rows] /\ want' \in [Users -> Rows] /\ row'[u] = r /\ want'[u] = w
      /\ \A v \in Users \ {u} : row'[v] = row[v] /\ want'[v] = want[v]
  BY <1>1, <1>4, Zenon
<1>6. ASSUME u \notin raced' PROVE row'[u] = want'[u] /\ row'[u] = r /\ call[t].row = row[u]
  <2>1. u \notin raced /\ ~call[t].behind /\ w = a
    BY <1>2, <1>3, <1>6, Zenon
  <2>2. Fresh(call[t]) /\ row[u] = want[u]
    BY <2>1, Zenon DEF IInv, RowInv, AdminChangesStick
  <2>3. call[t].row = row[u]
    BY <2>1, <2>2, Zenon DEF Fresh, Holding
  <2> QED
    BY <1>5, <2>1, <2>2, <2>3, Zenon DEF AsAsked
<1> QED
  BY <1>2, <1>5, <1>6, Zenon DEF Updated

LEMMA LoginTouchKeeps == ASSUME IInv, NEW t \in Calls, LoginTouch(t) PROVE IInv'
<1>0. /\ call \in [Calls -> CallType] /\ call[t] \in CallType /\ Shape(call[t])
      /\ call[t].pc = "touch" /\ call[t].pc # "endall" /\ call[t].pc \in HoldsRow
      /\ UNCHANGED <<sess, owner, via, crowded, missed, late, challengeVars>>
  BY Zenon DEF IInv, ShapeInv, TypeOK, LoginTouch, HoldsRow
<1>1. PICK u \in Users : u = call[t].user
  BY <1>0, Zenon DEF Shape, LoginPcs
<1>2. /\ started \in 0..NSessions /\ NSessions \in Nat /\ started < NSessions
      /\ started' = started + 1
  BY AccountsAssumption, Zenon DEF IInv, ShapeInv, TypeOK, LoginTouch
<1>3. PICK n : n = started + 1
  BY Zenon
<1>4. /\ n \in 0..NSessions /\ n \in Sessions /\ n > started /\ n <= n /\ started <= n
      /\ started' = n
  BY <1>2, <1>3 DEF Sessions
<1>5. /\ row' \in [Users -> Rows] /\ want' \in [Users -> Rows]
      /\ raced' \subseteq Users /\ raced \subseteq raced'
      /\ \A v \in Users \ {u} : row'[v] = row[v] /\ want'[v] = want[v]
      /\ u \in raced' \/ (row'[u] = want'[u] /\ row'[u] = row[u])
      /\ row[u].status # "none" => row'[u].status # "none"
  <2>1. CASE WriteRow(t, u, call[t].row, want[u])
    <3>1. call[t].row \in Rows
      BY <1>0 DEF CallType
    <3>2. want[u] \in Rows
      BY Zenon DEF IInv, ShapeInv, TypeOK
    <3>3. AsAsked(t, u, call[t].row, want[u]) /\ Holding(t, u)
      BY <1>0, <1>1, Zenon DEF AsAsked, Holding
    <3>4. Updated(t, u, call[t].row)
      BY <2>1, <3>1, <3>2, <3>3, RowUpdated, Zenon
    <3>5. call[t].row.status # "none"
      BY <1>0, Zenon DEF Shape
    <3> QED
      BY <3>4, <3>5, Zenon DEF Updated
  <2>2. CASE UNCHANGED accountVars
    <3>1. row' = row /\ want' = want /\ raced' = raced
      BY <2>2, Zenon DEF accountVars
    <3> QED
      BY <3>1, Zenon DEF IInv, ShapeInv, TypeOK, RowInv, AdminChangesStick
  <2> QED
    BY <1>1, <2>1, <2>2, Zenon DEF LoginTouch
<1>6. PICK p \in {"limit", "open"} : p = IF MaxSessions > 0 THEN "limit" ELSE "open"
  BY Zenon
<1>7. PICK d : d = [call[t] EXCEPT !.pc = p, !.row = NoRow, !.behind = FALSE, !.own = n]
  BY Zenon
<1>8. /\ d \in CallType /\ d.pc = p /\ d.user = u /\ d.own = n /\ d.chal = call[t].chal
      /\ d.late = call[t].late
  <2>1. NoRow \in Rows
    BY DEF NoRow, Rows, Statuses, Roles
  <2>2. p \in Pcs
    BY Zenon DEF Pcs, LoginPcs
  <2> QED
    BY <1>0, <1>1, <1>4, <1>7, <2>1, <2>2, Zenon DEF CallType
<1>9. call' = [Overtaken(u, t) EXCEPT ![t] = d]
  BY <1>1, <1>3, <1>6, <1>7, Zenon DEF LoginTouch
<1>10. /\ Marked(Overtaken(u, t))
       /\ \A x \in Calls \ {t} :
            /\ row'[u] # row[u]
            /\ call[x].pc = "create" \/ (call[x].user = u /\ call[x].pc \in HoldsRow)
            => Overtaken(u, t)[x].behind
  BY OvertakenMarks, Zenon DEF IInv
<1>11. Moved(t, d) /\ \A x \in Calls \ {t} : call'[x] = Overtaken(u, t)[x]
  BY <1>8, <1>9, <1>10, Moves, Zenon
<1>12. Shape(d) /\ d.pc \notin HoldsRow \cup {"create", "refresh"}
  <2>1. p = "limit" => MaxSessions > 0
    BY <1>6
  <2> QED
    BY <1>4, <1>8, <2>1, Zenon DEF Shape, HoldsRow
<1>13. RowInv'
  <2>1. Fresh(call[t])'
    BY <1>11, <1>12, Zenon DEF Fresh, Moved
  <2>2. \A x \in Calls \ {t} :
            /\ row'[u] # row[u]
            /\ call[x].pc = "create" \/ (call[x].user = u /\ call[x].pc \in HoldsRow)
            => call'[x].behind
    BY <1>10, <1>11, Zenon
  <2> QED
    BY <1>5, <1>11, <2>1, <2>2, RowWritten, Zenon DEF IInv
<1>14. Numbered(call[t])'
  <2>1. sess[n] = "unused" /\ sess' = sess
    BY <1>0, <1>4, Zenon DEF IInv, SessInv
  <2> QED
    BY <1>4, <1>8, <1>11, <1>12, <2>1, Zenon DEF Numbered, Moved
<1>15. Out(u)' => Out(u) /\ (d.pc \in Admitted => d.late)
  <2> SUFFICES ASSUME Out(u)' PROVE Out(u) /\ d.late
    BY Zenon
  <2>1. row'[u].status \in {"suspended", "deleted"} /\ u \notin raced'
          => row[u].status \in {"suspended", "deleted"}
    BY <1>5, Zenon
  <2>2. missed' = missed
    BY <1>0, Zenon
  <2>3. Out(u)
    BY <1>0, <1>5, <1>11, <2>1, <2>2, OutBefore, Zenon
  <2>4. call[t].late
    BY <1>0, <1>1, <2>3, Zenon DEF IInv, SignInv, Admitted
  <2> QED
    BY <1>8, <2>3, <2>4, Zenon
<1>16. MaxSessions > 0 => d.pc \notin Passing
  <2>1. MaxSessions > 0 => p = "limit"
    BY <1>6, Zenon
  <2> QED
    BY <1>8, <2>1, Zenon DEF Passing
<1>17. started' \in 0..NSessions /\ started <= started'
  BY <1>4, Zenon
<1> QED
  BY <1>0, <1>4, <1>5, <1>8, <1>11, <1>12, <1>13, <1>14, <1>15, <1>16, <1>17, RowStep, ZenonT(60)

\* What the administrators and the user change of a row.
LEMMA AskedRow ==
    ASSUME NEW pc \in HoldsRow \ {"touch"}, NEW g \in Roles, NEW r \in Rows
    PROVE  /\ Asked(pc, g, r) \in Rows
           /\ pc # "suspend" => Asked(pc, g, r).status \in {r.status, "active"}
           /\ r.status # "none" => Asked(pc, g, r).status # "none"
<1>1. CASE pc = "suspend"
  BY <1>1 DEF Asked, Rows, Statuses
<1>2. CASE pc = "activate"
  BY <1>2 DEF Asked, Rows, Statuses
<1>3. CASE pc = "setrole"
  BY <1>3 DEF Asked, Rows, Statuses
<1>4. CASE pc = "profile"
  BY <1>4 DEF Asked
<1> QED
  BY <1>1, <1>2, <1>3, <1>4, Zenon DEF HoldsRow

\* The call that goes on to the sessions of u.
LEMMA EndallCall ==
    ASSUME NEW u \in Users, NEW d, d = [Idle EXCEPT !.pc = "endall", !.user = u]
    PROVE  /\ d \in CallType /\ d.pc = "endall" /\ d.user = u /\ d.chal \notin Challenges
           /\ Shape(d) /\ d.pc \notin HoldsRow \cup {"create", "refresh"}
           /\ d.pc \notin Opening \cup Passing \cup Admitted
<1>1. d \in CallType /\ d.pc = "endall" /\ d.user = u /\ d.chal = NoChallenge
  BY IdleType, Begins, Zenon DEF CallType
<1>2. d.pc \notin HoldsRow \cup {"create", "refresh"} /\ d.pc \notin Opening \cup Passing \cup Admitted
  BY <1>1, Zenon DEF HoldsRow, Opening, Passing, Admitted
<1> QED
  BY <1>1, <1>2, AccountsAssumption, Zenon DEF Shape

\* d ends no account, or is to end the sessions of u.
Settled(u, d) ==
    \/ d.pc = "done" /\ (u \in raced' \/ row'[u].status \in {row[u].status, "active"})
    \/ d.pc = "endall" /\ d.user = u

\* A call that is not a login has written the row of u; it is done, or goes on to
\* the sessions of u.
LEMMA ChangedStep ==
    ASSUME IInv, NEW t \in Calls, NEW u \in Users, NEW d \in CallType,
           call' = [Overtaken(u, t) EXCEPT ![t] = d],
           row' \in [Users -> Rows], want' \in [Users -> Rows], raced' \subseteq Users,
           raced \subseteq raced',
           \A v \in Users \ {u} : row'[v] = row[v] /\ want'[v] = want[v],
           u \in raced' \/ row'[u] = want'[u],
           row[u].status # "none" => row'[u].status # "none",
           UNCHANGED <<sessionVars, challengeVars>>, call[t].pc # "endall",
           Shape(d), d.chal \notin Challenges, d.user \in {u, NoUser}, Settled(u, d)
    PROVE  IInv'
<1>1. /\ d.pc \notin HoldsRow \cup {"create", "refresh"}
      /\ d.pc \notin Opening /\ d.pc \notin Passing /\ d.pc \notin Admitted
  BY Zenon DEF Settled, HoldsRow, Opening, Passing, Admitted
<1>2. /\ Marked(Overtaken(u, t))
      /\ \A x \in Calls \ {t} :
            /\ row'[u] # row[u]
            /\ call[x].pc = "create" \/ (call[x].user = u /\ call[x].pc \in HoldsRow)
            => Overtaken(u, t)[x].behind
  BY OvertakenMarks, Zenon DEF IInv
<1>3. Moved(t, d) /\ \A x \in Calls \ {t} : call'[x] = Overtaken(u, t)[x]
  BY <1>2, Moves, ZenonT(60)
<1>4. RowInv'
  <2>1. Fresh(call[t])'
    BY <1>1, <1>3, Zenon DEF Fresh, Moved
  <2>2. \A x \in Calls \ {t} :
            /\ row'[u] # row[u]
            /\ call[x].pc = "create" \/ (call[x].user = u /\ call[x].pc \in HoldsRow)
            => call'[x].behind
    BY <1>2, <1>3, Zenon
  <2> QED
    BY <1>3, <2>1, <2>2, RowWritten, Zenon DEF IInv
<1>5. Numbered(call[t])'
  BY <1>1, <1>3, Zenon DEF Numbered, Moved
<1>6. /\ UNCHANGED <<sess, owner, via, crowded, missed, late, challengeVars>>
      /\ started' = started /\ missed' = missed
  BY Zenon DEF sessionVars
<1>7. Out(u)' => Out(u)
  <2> SUFFICES ASSUME Out(u)' PROVE Out(u)
    BY Zenon
  <2>1. ~(d.pc = "endall" /\ d.user = u)
    BY <1>3, Zenon DEF Out, Moved
  <2>2. u \in raced' \/ row'[u].status \in {row[u].status, "active"}
    BY <2>1, Zenon DEF Settled
  <2>3. row'[u].status \in {"suspended", "deleted"} /\ u \notin raced'
          => row[u].status \in {"suspended", "deleted"}
    BY <2>2, Zenon
  <2> QED
    BY <1>3, <1>6, <2>3, OutBefore, Zenon
<1>8. started' \in 0..NSessions /\ started <= started'
  BY <1>6 DEF IInv, ShapeInv, TypeOK
<1> QED
  BY <1>1, <1>3, <1>4, <1>5, <1>6, <1>7, <1>8, RowStep, Zenon

LEMMA EditUserWriteKeeps ==
    ASSUME IInv, NEW t \in Calls, NEW g \in Roles, EditUserWrite(t, g) PROVE IInv'
<1>0. /\ call[t] \in CallType /\ Shape(call[t]) /\ call[t].pc \in HoldsRow
      /\ call[t].pc \in HoldsRow \ {"touch"} /\ call[t].pc # "endall"
      /\ UNCHANGED <<sessionVars, challengeVars>>
  BY Zenon DEF IInv, ShapeInv, TypeOK, EditUserWrite, HoldsRow
<1>1. PICK u \in Users : u = call[t].user
  BY <1>0, Zenon DEF Shape
<1>2. call[t].row \in Rows
  BY <1>0 DEF CallType
<1>3. want[u] \in Rows
  BY Zenon DEF IInv, ShapeInv, TypeOK
<1>4. PICK r \in Rows, a \in Rows : r = Asked(call[t].pc, g, call[t].row) /\ a = Asked(call[t].pc, g, want[u])
  BY <1>0, <1>2, <1>3, AskedRow, Zenon
<1>5. /\ row' \in [Users -> Rows] /\ want' \in [Users -> Rows]
      /\ raced' \subseteq Users /\ raced \subseteq raced'
      /\ \A v \in Users \ {u} : row'[v] = row[v] /\ want'[v] = want[v]
      /\ u \in raced' \/ (row'[u] = want'[u] /\ row'[u] = r /\ call[t].row = row[u])
      /\ row'[u] = r
  <2>1. WriteRow(t, u, r, a)
    BY <1>1, <1>4, Zenon DEF EditUserWrite
  <2>2. AsAsked(t, u, r, a) /\ Holding(t, u)
    BY <1>0, <1>1, <1>4, Zenon DEF AsAsked, Holding
  <2>3. Updated(t, u, r)
    BY <2>1, <2>2, RowUpdated, Zenon
  <2> QED
    BY <2>3, Zenon DEF Updated
<1>6. PICK d \in CallType :
        /\ call' = [Overtaken(u, t) EXCEPT ![t] = d]
        /\ Shape(d) /\ d.chal \notin Challenges /\ d.user \in {u, NoUser}
        /\ \/ d.pc = "done" /\ call[t].pc # "suspend"
           \/ d.pc = "endall" /\ d.user = u
  <2>1. CASE call[t].pc = "suspend"
    <3>1. PICK d : d = [Idle EXCEPT !.pc = "endall", !.user = u]
      BY Zenon
    <3>2. call' = [Overtaken(u, t) EXCEPT ![t] = d]
      BY <1>1, <2>1, <3>1, ZenonT(60) DEF EditUserWrite
    <3>3. d \in CallType /\ d.pc = "endall" /\ d.user = u /\ d.chal \notin Challenges /\ Shape(d)
      BY <3>1, EndallCall, Zenon
    <3> QED
      BY <3>2, <3>3, Zenon
  <2>2. CASE call[t].pc # "suspend"
    <3>1. call' = [Overtaken(u, t) EXCEPT ![t] = Done]
      BY <1>1, <2>2, Zenon DEF EditUserWrite
    <3> QED
      BY <2>2, <3>1, IdleType, DoneFits, Zenon
  <2> QED
    BY <2>1, <2>2, Zenon
<1>7. call[t].pc # "suspend" => u \in raced' \/ row'[u].status \in {row[u].status, "active"}
  BY <1>0, <1>2, <1>4, <1>5, AskedRow, Zenon
<1>8. Settled(u, d)
  BY <1>6, <1>7, Zenon DEF Settled
<1>9. u \in raced' \/ row'[u] = want'[u]
  BY <1>5, Zenon
<1>10. row'[u].status # "none"
  <2>1. call[t].row.status # "none"
    BY <1>0, Zenon DEF Shape
  <2>2. Asked(call[t].pc, g, call[t].row).status # "none"
    BY <1>0, <1>2, <2>1, AskedRow, Zenon
  <2> QED
    BY <1>4, <1>5, <2>2, Zenon
<1> QED
  BY <1>0, <1>5, <1>6, <1>8, <1>9, <1>10, ChangedStep, Zenon

LEMMA DeleteUserKeeps == ASSUME IInv, NEW t \in Calls, NEW u \in Users, DeleteUser(t, u) PROVE IInv'
<1>1. row \in [Users -> Rows] /\ want \in [Users -> Rows] /\ raced \subseteq Users
  BY Zenon DEF IInv, ShapeInv, TypeOK
<1>2. ASSUME NEW r \in Rows PROVE [r EXCEPT !.status = "deleted"] \in Rows
  BY DEF Rows, Statuses
<1>3. /\ row' = [row EXCEPT ![u] = [row[u] EXCEPT !.status = "deleted"]]
      /\ want' = [want EXCEPT ![u] = [want[u] EXCEPT !.status = "deleted"]]
      /\ raced' = raced /\ UNCHANGED <<sessionVars, challengeVars>> /\ call[t].pc # "endall"
  BY Zenon DEF DeleteUser
<1>4. /\ row' \in [Users -> Rows] /\ want' \in [Users -> Rows]
      /\ row'[u] = [row[u] EXCEPT !.status = "deleted"]
      /\ want'[u] = [want[u] EXCEPT !.status = "deleted"]
      /\ \A v \in Users \ {u} : row'[v] = row[v] /\ want'[v] = want[v]
  BY <1>1, <1>2, <1>3, Zenon
<1>5. u \in raced' \/ row'[u] = want'[u]
  BY <1>3, <1>4, Zenon DEF IInv, RowInv, AdminChangesStick
<1>6. PICK d : d = [Idle EXCEPT !.pc = "endall", !.user = u]
  BY Zenon
<1>7. call' = [Overtaken(u, t) EXCEPT ![t] = d]
  BY <1>6, ZenonT(60) DEF DeleteUser
<1>8. d \in CallType /\ d.pc = "endall" /\ d.user = u /\ d.chal \notin Challenges /\ Shape(d)
  BY <1>6, EndallCall, Zenon
<1>9. d.user \in {u, NoUser} /\ raced \subseteq raced' /\ raced' \subseteq Users /\ Settled(u, d)
  BY <1>1, <1>3, <1>8, Zenon DEF Settled
<1>10. row'[u].status # "none"
  BY <1>1, <1>4 DEF Rows
<1> QED
  BY <1>3, <1>4, <1>5, <1>7, <1>8, <1>9, <1>10, ChangedStep, Zenon

-----------------------------------------------------------------------------
(* The steps that end sessions *)

LEMMA MinIn == ASSUME NEW T \in SUBSET Nat, T # {} PROVE Min(T) \in T
<1>1. PICK R : R = OpToRel(<, Nat)
  BY Zenon
<1>2. \E x \in T : \A y \in T : ~ (<<y, x>> \in R)
  BY <1>1, NatLessThanWellFounded, WFMin, Zenon
<1>3. \A x, y \in Nat : <<y, x>> \in R <=> y < x
  BY <1>1 DEF OpToRel
<1>4. PICK x \in T : \A y \in T : ~ (y < x)
  BY <1>2, <1>3, Zenon
<1>5. \A y \in T : x =< y
  BY <1>4
<1> QED
  BY <1>5, Zenon DEF Min

LEMMA Ends ==
    ASSUME ShapeInv, NEW S, End(S)
    PROVE  /\ sess' \in [Sessions -> SessionStates]
           /\ \A s \in Sessions : sess[s] = "unused" => sess'[s] = "unused"
           /\ \A s \in Sessions : sess[s] # "unused" => sess'[s] # "unused"
           /\ \A s \in Sessions : sess'[s] = "ended" => sess[s] = "ended" \/ s \in S
           /\ owner' = owner => \A u : GetByUser(u)' = GetByUser(u) \ S
<1>1. sess \in [Sessions -> SessionStates] /\ "ended" \in SessionStates
  BY Zenon DEF ShapeInv, TypeOK, SessionStates
<1>2. \A s \in Sessions : sess'[s] = IF s \in S /\ Open(s) THEN "ended" ELSE sess[s]
  BY Zenon DEF End
<1>3. sess' \in [Sessions -> SessionStates]
  <2>1. \A s \in Sessions : (IF s \in S /\ Open(s) THEN "ended" ELSE sess[s]) \in SessionStates
    BY <1>1, Zenon
  <2> QED
    BY <2>1, Zenon DEF End
<1>4. ASSUME NEW s \in Sessions
      PROVE  /\ sess[s] = "unused" => sess'[s] = "unused"
             /\ sess[s] # "unused" => sess'[s] # "unused"
             /\ sess'[s] = "ended" => sess[s] = "ended" \/ s \in S
             /\ Open(s)' <=> Open(s) /\ s \notin S
  <2>1. CASE s \in S /\ Open(s)
    BY <1>2, <2>1, Zenon DEF Open
  <2>2. CASE ~(s \in S /\ Open(s))
    <3>1. sess'[s] = sess[s]
      BY <1>2, <2>2, Zenon
    <3> QED
      BY <2>2, <3>1, Zenon DEF Open
  <2> QED
    BY <2>1, <2>2, Zenon
<1>5. ASSUME owner' = owner, NEW u PROVE GetByUser(u)' = GetByUser(u) \ S
  BY <1>4, <1>5, Zenon DEF GetByUser
<1> QED
  BY <1>3, <1>4, <1>5, Zenon

LEMMA NoEnd == ASSUME ShapeInv, sess' = sess PROVE End({})
<1>1. sess = [s \in Sessions |-> sess[s]]
  BY Zenon DEF ShapeInv, TypeOK
<1> QED
  BY <1>1, Zenon DEF End

\* A call ends the sessions S and tells the refreshes that have one of them.
EndsFor(t, d, S) ==
    /\ Moved(t, d) /\ End(S)
    /\ UNCHANGED <<accountVars, challengeVars, owner, via, started, late>>
    /\ crowded' \subseteq Users /\ missed' \subseteq Users
    /\ Shape(d) /\ d.pc \notin HoldsRow \cup {"create", "refresh"}
    /\ d.pc \in Opening => call[t].pc \in Opening /\ d.own = call[t].own
    /\ \A x \in Calls \ {t} : call[x].pc = "refresh" /\ call[x].own \in S => call'[x].late
    /\ d.chal = call[t].chal \/ d.chal \notin Challenges

LEMMA EndFrame ==
    ASSUME IInv, NEW t \in Calls, NEW d, NEW S, EndsFor(t, d, S)
    PROVE  /\ ShapeInv' /\ RowInv' /\ SessInv' /\ ChalInv'
           /\ \A u : GetByUser(u)' = GetByUser(u) \ S
<1>0. ShapeInv /\ RowInv /\ SessInv /\ ChalInv
  BY Zenon DEF IInv
<1>1. /\ UNCHANGED accountVars /\ row' = row /\ want' = want /\ raced' = raced
      /\ chal' = chal /\ key' = key /\ owner' = owner /\ via' = via
      /\ started' = started /\ late' = late /\ End(S) /\ Moved(t, d) /\ Shape(d)
      /\ d.pc \notin HoldsRow \cup {"create", "refresh"}
  BY Zenon DEF EndsFor, accountVars, challengeVars
<1>2. /\ sess' \in [Sessions -> SessionStates]
      /\ \A s \in Sessions : sess[s] = "unused" => sess'[s] = "unused"
      /\ \A s \in Sessions : sess[s] # "unused" => sess'[s] # "unused"
      /\ \A s \in Sessions : sess'[s] = "ended" => sess[s] = "ended" \/ s \in S
      /\ \A u : GetByUser(u)' = GetByUser(u) \ S
  BY <1>0, <1>1, Ends, Zenon
<1>3. RestTyped'
  <2>1. \A s \in Sessions : sess'[s] # "unused" => owner'[s] \in Users
    BY <1>0, <1>1, <1>2, Zenon DEF ShapeInv
  <2>2. crowded' \subseteq Users /\ missed' \subseteq Users
    BY Zenon DEF EndsFor
  <2> QED
    BY <1>0, <1>1, <1>2, <2>1, <2>2, Typed, Zenon DEF RestTyped
<1>4. ShapeInv'
  BY <1>0, <1>1, <1>3, ShapeFrame, Zenon
<1>5. RowInv'
  <2>1. Fresh(d)
    BY <1>1, Zenon DEF Fresh
  <2> QED
    BY <1>0, <1>1, <2>1, RowFrame, Zenon
<1>6. ChalInv'
  <2>1. d.chal = call[t].chal \/ d.chal \notin Challenges
    BY Zenon DEF EndsFor
  <2> QED
    BY <1>0, <1>1, <2>1, ChalFrame, Zenon
<1>7. SessInv'
  <2>1. started' \in Nat /\ started <= started'
    BY <1>0, <1>1, Typed DEF RestTyped
  <2>2. d.pc \in Opening => call[t].pc \in Opening /\ d.own = call[t].own
    BY Zenon DEF EndsFor
  <2>3. Numbered(call[t])'
    <3>1. d.pc \in Opening => d.own <= started' /\ sess'[d.own] = "unused"
      BY <1>0, <1>1, <1>2, <2>2, Zenon DEF SessInv, Numbered, ShapeInv, Shape
    <3> QED
      BY <1>1, <3>1, Zenon DEF Numbered, Moved
  <2>4. \A x \in Calls \ {t} : call[x].pc = "refresh" /\ sess'[call[x].own] = "ended"
            => sess[call[x].own] = "ended" \/ call'[x].late
    BY <1>0, <1>2, Zenon DEF EndsFor, ShapeInv, Shape
  <2> QED
    BY <1>0, <1>1, <1>2, <2>1, <2>2, <2>3, <2>4, SessFrame, ZenonT(60)
<1> QED
  BY <1>2, <1>4, <1>5, <1>6, <1>7, Zenon

\* What is over stays over, unless the call was to end the sessions of the user.
LEMMA EndSign ==
    ASSUME IInv, NEW t \in Calls, NEW d, NEW S, EndsFor(t, d, S), missed \subseteq missed',
           call[t].pc # "endall" \/ call[t].user \in missed',
           d.pc \in Admitted =>
                call[t].pc \in Admitted /\ d.user = call[t].user /\ (call[t].late => d.late)
    PROVE  SignInv'
<1>1. /\ SignInv /\ Moved(t, d) /\ row' = row /\ raced' = raced /\ late' = late
      /\ \A u : GetByUser(u)' = GetByUser(u) \ S
  BY EndFrame, Zenon DEF IInv, EndsFor, accountVars
<1>2. ASSUME NEW u \in Users, Out(u)'
      PROVE  /\ Out(u) /\ GetByUser(u)' \subseteq GetByUser(u) \cup late'
             /\ d.pc \in Admitted /\ d.user = u => d.late
  <2>1. call[t].pc # "endall" \/ call[t].user # u
    BY <1>2, Zenon DEF Out
  <2>2. Out(u)
    BY <1>1, <1>2, <2>1, OutBefore, Zenon
  <2>3. d.pc \in Admitted /\ d.user = u => d.late
    BY <1>1, <2>2, Zenon DEF SignInv
  <2> QED
    BY <1>1, <2>2, <2>3, Zenon
<1>3. late \subseteq late'
  BY <1>1, Zenon
<1> QED
  BY <1>1, <1>2, <1>3, SignFrame, Zenon

LEMMA EndLimit ==
    ASSUME IInv, NEW t \in Calls, NEW d, NEW S, EndsFor(t, d, S), crowded' = crowded,
           d.pc \notin Passing
    PROVE  LimitInv'
<1>1. LimitInv /\ Moved(t, d) /\ \A u : GetByUser(u)' = GetByUser(u) \ S
  BY EndFrame, Zenon DEF IInv, EndsFor
<1> QED
  BY <1>1, LimitFrame, Zenon

\* The call is done, or has other sessions to end.
LEMMA EndStep ==
    ASSUME IInv, NEW t \in Calls, NEW d, NEW S, EndsFor(t, d, S), missed \subseteq missed',
           call[t].pc # "endall" \/ call[t].user \in missed', crowded' = crowded,
           d.pc \in {"done", "revoke"}
    PROVE  IInv'
<1>1. d.pc \notin Passing /\ d.pc \notin Admitted
  BY Zenon DEF Passing, Admitted
<1>2. ShapeInv' /\ RowInv' /\ SessInv' /\ ChalInv'
  BY EndFrame, Zenon
<1>3. SignInv'
  BY <1>1, EndSign, Zenon
<1>4. LimitInv'
  BY <1>1, EndLimit, Zenon
<1> QED
  BY <1>2, <1>3, <1>4, Zenon DEF IInv

\* Logout, EndUserSession and EndAllUserSessions.
LEMMA EndSessionsKeep ==
    ASSUME IInv, NEW t \in Calls, NEW S, EndSessions(t, S) PROVE IInv'
<1>0. ShapeInv /\ Done.pc \in {"done", "revoke"} /\ call[t].pc # "endall"
      /\ missed \subseteq missed' /\ crowded' = crowded
  BY IdleType, Zenon DEF IInv, EndSessions
<1>1. /\ Marked(Outlived(S, {}, t))
      /\ \A x \in Calls \ {t} :
            call[x].pc = "refresh" /\ call[x].own \in S => Outlived(S, {}, t)[x].late
  BY <1>0, OutlivedMarks, Zenon
<1>2. Moved(t, Done) /\ \A x \in Calls \ {t} : call'[x] = Outlived(S, {}, t)[x]
  BY <1>1, Returns, Zenon DEF EndSessions
<1>3. crowded' \subseteq Users /\ missed' \subseteq Users
  BY <1>0, Zenon DEF ShapeInv, TypeOK, EndSessions
<1>4. EndsFor(t, Done, S)
  BY <1>1, <1>2, <1>3, DoneFits, Zenon DEF EndsFor, EndSessions
<1> QED
  BY <1>0, <1>4, EndStep, Zenon

LEMMA RevokeNextKeeps == ASSUME IInv, NEW t \in Calls, RevokeNext(t) PROVE IInv'
<1>0. /\ ShapeInv /\ call[t].pc = "revoke" /\ call[t].pc # "endall"
      /\ UNCHANGED <<accountVars, challengeVars, owner, via, started, late>>
      /\ missed \subseteq missed' /\ crowded' = crowded /\ missed' = missed
      /\ call[t] \in CallType /\ Shape(call[t])
  BY Zenon DEF IInv, RevokeNext, ShapeInv, TypeOK
<1>1. crowded' \subseteq Users /\ missed' \subseteq Users
  BY <1>0, Zenon DEF ShapeInv, TypeOK
<1>2. CASE Return(t, call) /\ UNCHANGED sess
  <2>1. UNCHANGED <<accountVars, sessionVars, challengeVars>>
    BY <1>2, Zenon DEF RevokeNext, sessionVars
  <2> QED
    BY <1>0, <1>2, <2>1, ReturnStep, Zenon
<1>3. CASE /\ End({Max(call[t].todo)})
           /\ call' = [Outlived({Max(call[t].todo)}, {}, t) EXCEPT
                          ![t].todo = call[t].todo \ {Max(call[t].todo)}]
  <2>1. PICK S : S = {Max(call[t].todo)}
    BY Zenon
  <2>2. /\ Marked(Outlived(S, {}, t)) /\ Outlived(S, {}, t)[t] = call[t]
        /\ \A x \in Calls \ {t} :
              call[x].pc = "refresh" /\ call[x].own \in S => Outlived(S, {}, t)[x].late
    BY <1>0, OutlivedMarks, Zenon
  <2>3. PICK d : d = [call[t] EXCEPT !.todo = call[t].todo \ S]
    BY Zenon
  <2>4. d \in CallType /\ d.pc = "revoke" /\ d.chal = call[t].chal
    BY <1>0, <2>3 DEF CallType
  <2>5. call' = [Outlived(S, {}, t) EXCEPT ![t] = d]
    BY <1>3, <2>1, <2>2, <2>3, Zenon
  <2>6. Moved(t, d) /\ \A x \in Calls \ {t} : call'[x] = Outlived(S, {}, t)[x]
    BY <2>2, <2>4, <2>5, Moves, Zenon
  <2>7. Shape(d) /\ d.pc \notin HoldsRow \cup {"create", "refresh"} /\ d.pc \notin Opening
    BY <2>4, Zenon DEF Shape, LoginPcs, HoldsRow, Opening
  <2>8. End(S)
    BY <1>3, <2>1, Zenon
  <2>9. EndsFor(t, d, S)
    BY <1>0, <1>1, <2>2, <2>4, <2>6, <2>7, <2>8, Zenon DEF EndsFor
  <2>10. d.pc \in {"done", "revoke"}
    BY <2>4, Zenon
  <2> QED
    BY <1>0, <2>9, <2>10, EndStep, Zenon
<1> QED
  BY <1>2, <1>3, Zenon DEF RevokeNext

\* A call returns, and no session is ended.
LEMMA GiveUp ==
    ASSUME IInv, NEW t \in Calls, Return(t, call), missed' \subseteq Users, missed \subseteq missed',
           call[t].pc # "endall" \/ call[t].user \in missed',
           UNCHANGED <<accountVars, challengeVars, sess, owner, via, started, crowded, late>>
    PROVE  IInv'
<1>0. ShapeInv /\ Done.pc \in {"done", "revoke"} /\ sess' = sess /\ crowded' = crowded
      /\ UNCHANGED <<accountVars, challengeVars, owner, via, started, late>>
  BY IdleType, Zenon DEF IInv
<1>1. Moved(t, Done)
  BY <1>0, CallsMarked, Returns, Zenon
<1>2. End({}) /\ crowded' \subseteq Users
  BY <1>0, NoEnd, Zenon DEF ShapeInv, TypeOK
<1>3. \A x \in Calls \ {t} : call[x].pc = "refresh" /\ call[x].own \in {} => call'[x].late
  BY Zenon
<1>4. EndsFor(t, Done, {})
  BY <1>0, <1>1, <1>2, <1>3, DoneFits, Zenon DEF EndsFor
<1> QED
  BY <1>0, <1>4, EndStep, Zenon

LEMMA AbandonKeeps == ASSUME IInv, NEW t \in Calls, Abandon(t) PROVE IInv'
<1>1. missed \subseteq Users /\ Shape(call[t])
  BY Zenon DEF IInv, ShapeInv, TypeOK
<1>2. call[t].pc = "endall" => call[t].user \in Users
  BY <1>1, Zenon DEF Shape
<1>3. missed' = IF call[t].pc = "endall" THEN missed \cup {call[t].user} ELSE missed
  BY Zenon DEF Abandon
<1>4. /\ missed' \subseteq Users /\ missed \subseteq missed'
      /\ call[t].pc # "endall" \/ call[t].user \in missed'
  BY <1>1, <1>2, <1>3, Zenon
<1> QED
  BY <1>4, GiveUp, Zenon DEF Abandon

LEMMA EndAllKeeps == ASSUME IInv, NEW t \in Calls, EndAll(t) PROVE IInv'
<1>0. /\ ShapeInv /\ Shape(call[t]) /\ missed \subseteq Users /\ crowded \subseteq Users
      /\ call[t].pc = "endall" /\ crowded' = crowded
      /\ UNCHANGED <<accountVars, challengeVars, owner, via, started, late>>
  BY Zenon DEF IInv, ShapeInv, TypeOK, EndAll
<1>1. PICK u \in Users : u = call[t].user
  BY <1>0, Zenon DEF Shape
<1>2. CASE missed' = missed \cup {u} /\ Return(t, call) /\ UNCHANGED sess
  <2>1. missed' \subseteq Users /\ missed \subseteq missed' /\ call[t].user \in missed'
    BY <1>0, <1>1, <1>2, Zenon
  <2>2. UNCHANGED <<accountVars, challengeVars, sess, owner, via, started, crowded, late>>
    BY <1>0, <1>2, Zenon
  <2> QED
    BY <1>2, <2>1, <2>2, GiveUp, Zenon
<1>3. CASE /\ End(GetByUser(u)) /\ missed' = missed \ {u}
           /\ Return(t, Outlived(GetByUser(u), {u}, t))
  <2>1. PICK S : S = GetByUser(u)
    BY Zenon
  <2>2. /\ Marked(Outlived(S, {u}, t))
        /\ \A x \in Calls \ {t} :
              \/ call[x].pc = "refresh" /\ call[x].own \in S
              \/ call[x].pc \in Admitted /\ call[x].user \in {u}
              => Outlived(S, {u}, t)[x].late
    BY <1>0, OutlivedMarks, Zenon
  <2>3. Moved(t, Done) /\ \A x \in Calls \ {t} : call'[x] = Outlived(S, {u}, t)[x]
    BY <1>3, <2>1, <2>2, Returns, Zenon
  <2>4. \A x \in Calls \ {t} : call[x].pc = "refresh" /\ call[x].own \in S => call'[x].late
    BY <2>2, <2>3, Zenon
  <2>5. End(S) /\ crowded' \subseteq Users /\ missed' \subseteq Users
    BY <1>0, <1>3, <2>1, Zenon
  <2>6. EndsFor(t, Done, S)
    BY <1>0, <2>3, <2>4, <2>5, DoneFits, Zenon DEF EndsFor
  <2>7. /\ ShapeInv' /\ RowInv' /\ SessInv' /\ ChalInv'
        /\ \A v : GetByUser(v)' = GetByUser(v) \ S
    BY <2>6, EndFrame, Zenon
  <2>8. LimitInv'
    BY <1>0, <2>6, DoneFits, EndLimit, Zenon
  <2>9. SignInv'
    <3>1. row' = row /\ raced' = raced /\ late' = late
      BY <1>0, Zenon DEF accountVars
    <3>2. ASSUME NEW v \in Users, Out(v)' PROVE GetByUser(v)' \subseteq late'
      <4>1. CASE v = u
        BY <2>1, <2>7, <4>1, Zenon
      <4>2. CASE v # u
        <5>0. /\ v \notin missed /\ call[t].user # v /\ row'[v] = row[v]
              /\ raced \subseteq raced'
          BY <1>1, <1>3, <3>1, <3>2, <4>2, Zenon DEF Out
        <5>1. Out(v)
          BY <2>3, <3>2, <5>0, OutBefore, Zenon
        <5>2. GetByUser(v) \subseteq late
          BY <5>1, Zenon DEF IInv, SignInv
        <5> QED
          BY <2>7, <3>1, <5>2, Zenon
      <4> QED
        BY <4>1, <4>2, Zenon
    <3>3. ASSUME NEW v \in Users, Out(v)', NEW x \in Calls, call'[x].pc \in Admitted,
                 call'[x].user = v
          PROVE  call'[x].late
      <4>1. x # t
        BY <2>3, <3>3, DoneFits, Zenon DEF Moved
      <4>2. /\ call[x].pc \in Admitted /\ call[x].user = v /\ x \in Calls \ {t}
            /\ call[x].late => call'[x].late
        BY <2>3, <3>3, <4>1, Zenon DEF Moved, SameCall
      <4>3. CASE v = u
        BY <2>2, <2>3, <4>2, <4>3, Zenon
      <4>4. CASE v # u
        <5>0. /\ v \notin missed /\ call[t].user # v /\ row'[v] = row[v]
              /\ raced \subseteq raced'
          BY <1>1, <1>3, <3>1, <3>3, <4>4, Zenon DEF Out
        <5>1. Out(v)
          BY <2>3, <3>3, <5>0, OutBefore, Zenon
        <5> QED
          BY <4>2, <5>1, Zenon DEF IInv, SignInv
      <4> QED
        BY <4>3, <4>4, Zenon
    <3> QED
      BY <3>2, <3>3, Zenon DEF SignInv
  <2> QED
    BY <2>7, <2>8, <2>9, Zenon DEF IInv
<1> QED
  BY <1>1, <1>2, <1>3, Zenon DEF EndAll

-----------------------------------------------------------------------------
(* The limit of sessions *)

\* t is the only login of u past the check of the limit.
LEMMA AloneLimited ==
    ASSUME NEW t \in Calls, NEW d, Moved(t, d), NEW u,
           \A x \in Calls \ {t} : ~(call[x].pc \in Passing /\ call[x].user = u),
           Cardinality(GetByUser(u)') <= MaxSessions,
           d.pc = "open" => Cardinality(GetByUser(u)') < MaxSessions,
           d.pc = "evict" => \E m \in GetByUser(u)' : d.todo = {m}
    PROVE  Limited(u)'
<1>1. ASSUME NEW x \in Calls, call'[x].pc \in Passing, call'[x].user = u PROVE x = t
  BY <1>1, Zenon DEF Moved, SameCall
<1>2. call'[t] = d
  BY Zenon DEF Moved
<1>3. ASSUME NEW x \in Calls, call'[x].pc = "open", call'[x].user = u
      PROVE  Cardinality(GetByUser(u)') < MaxSessions
  BY <1>1, <1>2, <1>3, Zenon DEF Passing
<1>4. ASSUME NEW x \in Calls, call'[x].pc = "evict", call'[x].user = u
      PROVE  \E m \in GetByUser(u)' : call'[x].todo = {m}
  BY <1>1, <1>2, <1>4, Zenon DEF Passing
<1>5. \A x, y \in Calls : /\ call'[x].pc \in Passing /\ call'[x].user = u
                          /\ call'[y].pc \in Passing /\ call'[y].user = u
                          => x = y
  BY <1>1, Zenon
<1> QED
  BY <1>3, <1>4, <1>5, Zenon DEF Limited

\* A login of u that ends S and goes on; the other users are not concerned.
LEMMA PassingStep ==
    ASSUME IInv, NEW t \in Calls, NEW d, NEW S, EndsFor(t, d, S), NEW u \in Users,
           call[t].user = u, d.user = u, call[t].pc \in Admitted, d.late = call[t].late,
           missed' = missed, crowded \subseteq crowded', call[t].pc # "endall",
           MaxSessions > 0 /\ u \notin crowded' => Limited(u)'
    PROVE  IInv'
<1>1. /\ ShapeInv' /\ RowInv' /\ SessInv' /\ ChalInv'
      /\ \A v : GetByUser(v)' = GetByUser(v) \ S
  BY EndFrame, Zenon
<1>2. SignInv'
  BY EndSign, Zenon
<1>3. LimitInv'
  <2> SUFFICES ASSUME MaxSessions > 0, NEW v \in Users, v \notin crowded' PROVE Limited(v)'
    BY Zenon DEF LimitInv
  <2>1. CASE v = u
    BY <2>1, Zenon
  <2>2. CASE v # u
    <3>1. Limited(v) /\ Moved(t, d)
      BY Zenon DEF IInv, LimitInv, EndsFor
    <3>2. GetByUser(v)' \subseteq GetByUser(v)
      BY <1>1, Zenon
    <3>3. ~(d.pc \in Passing /\ d.user = v)
      BY <2>2, Zenon
    <3> QED
      BY <3>1, <3>2, <3>3, LimitedFrame, Zenon
  <2> QED
    BY <2>1, <2>2, Zenon
<1> QED
  BY <1>1, <1>2, <1>3, Zenon DEF IInv

LEMMA LoginLimitKeeps == ASSUME IInv, NEW t \in Calls, LoginLimit(t) PROVE IInv'
<1>0. /\ ShapeInv /\ call[t] \in CallType /\ Shape(call[t]) /\ crowded \subseteq Users
      /\ call[t].pc = "limit" /\ call[t].pc # "endall" /\ call[t].pc \in Admitted
      /\ call[t].pc \in Opening /\ missed' = missed /\ sess' = sess /\ owner' = owner
      /\ UNCHANGED <<accountVars, challengeVars, owner, via, started, late>>
      /\ call \in [Calls -> CallType]
  BY Zenon DEF IInv, ShapeInv, TypeOK, LoginLimit, Admitted, Opening
<1>1. PICK u \in Users : u = call[t].user
  BY <1>0, Zenon DEF Shape, LoginPcs
<1>2. PICK A : A = GetByUser(u)
  BY Zenon
<1>3. /\ A \in SUBSET Sessions /\ IsFiniteSet(A) /\ Cardinality(A) \in Nat
      /\ GetByUser(u)' = A
  <2>1. GetByUser(u)' = GetByUser(u)
    BY <1>0, Zenon DEF GetByUser, Open
  <2>2. GetByUser(u) \in SUBSET GetByUser(u)
    BY Zenon
  <2> QED
    BY <1>2, <2>1, <2>2, Fewer, Zenon DEF GetByUser
<1>4. MaxSessions > 0 /\ MaxSessions \in Nat /\ call[t].own \in Sessions
  BY <1>0, AccountsAssumption, Zenon DEF Shape
<1>5. End({}) /\ missed' \subseteq Users
  BY <1>0, NoEnd, Zenon DEF ShapeInv, TypeOK
<1> DEFINE Alone == \A x \in Calls \ {t} : call[x].user = u => call[x].pc \notin {"evict", "open"}
<1>6. ASSUME NEW d, call' = [call EXCEPT ![t] = d], d \in CallType, d.user = u,
             d.own = call[t].own, d.chal = call[t].chal, d.late = call[t].late,
             crowded' \in {crowded, crowded \cup {u}},
             u \in crowded' \/ Alone,
             \/ d.pc = "open" /\ (u \in crowded' \/ Cardinality(A) < MaxSessions)
             \/ d.pc = "evict" /\ (\E m \in A : d.todo = {m})
      PROVE  IInv'
  <2>1. Moved(t, d)
    BY <1>0, <1>6, CallsMarked, Moves, Zenon
  <2>2. /\ Shape(d) /\ d.pc \notin HoldsRow \cup {"create", "refresh"}
    BY <1>4, <1>6, Zenon DEF Shape, HoldsRow
  <2>3. crowded \subseteq crowded' /\ crowded' \subseteq Users
    BY <1>0, <1>6, Zenon
  <2>4. \A x \in Calls \ {t} : call[x].pc = "refresh" /\ call[x].own \in {} => call'[x].late
    BY Zenon
  <2>5. EndsFor(t, d, {})
    BY <1>0, <1>5, <1>6, <2>1, <2>2, <2>3, <2>4, ZenonT(60) DEF EndsFor
  <2>6. ASSUME u \notin crowded' PROVE Limited(u)'
    <3>1. Limited(u)
      BY <1>4, <2>3, <2>6, Zenon DEF IInv, LimitInv
    <3>2. Cardinality(A) <= MaxSessions
      BY <1>2, <3>1, Zenon DEF Limited
    <3>3. \A x \in Calls \ {t} : ~(call[x].pc \in Passing /\ call[x].user = u)
      BY <1>6, <2>6, Zenon DEF Passing
    <3>4. d.pc = "open" => Cardinality(GetByUser(u)') < MaxSessions
      BY <1>3, <1>6, <2>6, Zenon
    <3>5. d.pc = "evict" => \E m \in GetByUser(u)' : d.todo = {m}
      BY <1>3, <1>6, Zenon
    <3>6. Cardinality(GetByUser(u)') <= MaxSessions
      BY <1>3, <3>2, Zenon
    <3> QED
      BY <2>1, <3>3, <3>4, <3>5, <3>6, AloneLimited, Zenon
  <2> QED
    BY <1>0, <1>1, <1>6, <2>3, <2>5, <2>6, PassingStep, Zenon
<1>7. ASSUME NEW d, d = [call[t] EXCEPT !.pc = "open"]
      PROVE  /\ d \in CallType /\ d.pc = "open" /\ d.user = u /\ d.own = call[t].own
             /\ d.chal = call[t].chal /\ d.late = call[t].late
  BY <1>0, <1>1, <1>7 DEF CallType, Pcs, LoginPcs
<1>8. CASE /\ Cardinality(A) < MaxSessions /\ Goto(t, call, "open")
           /\ crowded' = IF Alone THEN crowded ELSE crowded \cup {u}
  <2>1. PICK d : d = [call[t] EXCEPT !.pc = "open"]
    BY Zenon
  <2>2. call' = [call EXCEPT ![t] = d]
    BY <1>8, <2>1, Zenon DEF Goto
  <2>3. crowded' \in {crowded, crowded \cup {u}} /\ (u \in crowded' \/ Alone)
    BY <1>8, Zenon
  <2> QED
    BY <1>6, <1>7, <1>8, <2>1, <2>2, <2>3, Zenon
<1>9. CASE Goto(t, call, "open") /\ crowded' = crowded \cup {u}
  <2>1. PICK d : d = [call[t] EXCEPT !.pc = "open"]
    BY Zenon
  <2>2. call' = [call EXCEPT ![t] = d]
    BY <1>9, <2>1, Zenon DEF Goto
  <2>3. crowded' \in {crowded, crowded \cup {u}} /\ u \in crowded'
    BY <1>9, Zenon
  <2> QED
    BY <1>6, <1>7, <2>1, <2>2, <2>3, Zenon
<1>10. CASE /\ Cardinality(A) >= MaxSessions
            /\ call' = [call EXCEPT ![t].pc = "evict", ![t].todo = {Min(A)}]
            /\ crowded' = IF Alone THEN crowded ELSE crowded \cup {u}
  <2>1. PICK m \in A : m = Min(A)
    <3>1. A # {}
      <4>1. Cardinality(A) # 0
        BY <1>3, <1>4, <1>10
      <4> QED
        BY <4>1, FS_EmptySet, Zenon
    <3>2. A \in SUBSET Nat
      BY <1>3, AccountsAssumption DEF Sessions
    <3> QED
      BY <3>1, <3>2, MinIn, Zenon
  <2>2. {m} \in SUBSET Sessions
    BY <1>3, <2>1, Zenon
  <2>3. PICK d : d = [call[t] EXCEPT !.pc = "evict", !.todo = {m}]
    BY Zenon
  <2>4. /\ d \in CallType /\ d.pc = "evict" /\ d.user = u /\ d.own = call[t].own
        /\ d.chal = call[t].chal /\ d.late = call[t].late /\ d.todo = {m}
    BY <1>0, <1>1, <2>2, <2>3, Zenon DEF CallType, Pcs, LoginPcs
  <2>5. call' = [call EXCEPT ![t] = d]
    BY <1>0, <1>10, <2>1, <2>3, Zenon
  <2>6. crowded' \in {crowded, crowded \cup {u}} /\ (u \in crowded' \/ Alone)
    BY <1>10, Zenon
  <2> QED
    BY <1>6, <2>1, <2>4, <2>5, <2>6, Zenon
<1> QED
  BY <1>1, <1>2, <1>8, <1>9, <1>10, Zenon DEF LoginLimit

LEMMA LoginEvictKeeps == ASSUME IInv, NEW t \in Calls, LoginEvict(t) PROVE IInv'
<1>0. /\ ShapeInv /\ call[t] \in CallType /\ Shape(call[t]) /\ crowded \subseteq Users
      /\ call[t].pc = "evict" /\ call[t].pc # "endall" /\ call[t].pc \in Admitted
      /\ call[t].pc \in Opening /\ call[t].pc \in Passing /\ missed' = missed
      /\ UNCHANGED <<accountVars, challengeVars, owner, via, started, late>>
      /\ missed' \subseteq Users
  BY Zenon DEF IInv, ShapeInv, TypeOK, LoginEvict, Admitted, Opening, Passing
<1>1. PICK u \in Users : u = call[t].user
  BY <1>0, Zenon DEF Shape, LoginPcs
<1>2. PICK d : d = [call[t] EXCEPT !.pc = "open", !.todo = {}]
  BY Zenon
<1>3. /\ d \in CallType /\ d.pc = "open" /\ d.user = u /\ d.own = call[t].own
      /\ d.chal = call[t].chal /\ d.late = call[t].late
  BY <1>0, <1>1, <1>2, Zenon DEF CallType, Pcs, LoginPcs
<1>4. /\ Shape(d) /\ d.pc \notin HoldsRow \cup {"create", "refresh"}
  BY <1>0, <1>1, <1>3, Zenon DEF Shape, HoldsRow
<1>5. CASE /\ call' = [call EXCEPT ![t].pc = "open", ![t].todo = {}]
           /\ crowded' = crowded \cup {u} /\ UNCHANGED sess
  <2>1. call' = [call EXCEPT ![t] = d]
    <3>1. call \in [Calls -> CallType]
      BY <1>0, Zenon DEF ShapeInv, TypeOK
    <3> QED
      BY <1>2, <1>5, <3>1, Zenon
  <2>2. Moved(t, d)
    BY <1>0, <1>3, <2>1, CallsMarked, Moves, Zenon
  <2>3. End({}) /\ crowded' \subseteq Users /\ crowded \subseteq crowded' /\ u \in crowded'
    BY <1>0, <1>5, NoEnd, Zenon
  <2>4. \A x \in Calls \ {t} : call[x].pc = "refresh" /\ call[x].own \in {} => call'[x].late
    BY Zenon
  <2>5. EndsFor(t, d, {})
    BY <1>0, <1>3, <1>4, <2>2, <2>3, <2>4, ZenonT(60) DEF EndsFor
  <2> QED
    BY <1>0, <1>1, <1>3, <2>3, <2>5, PassingStep, Zenon
<1>6. CASE /\ End(call[t].todo) /\ crowded' = crowded
           /\ call' = [Outlived(call[t].todo, {}, t) EXCEPT ![t] = d]
  <2>1. PICK S : S = call[t].todo
    BY Zenon
  <2>2. /\ Marked(Outlived(S, {}, t))
        /\ \A x \in Calls \ {t} :
              call[x].pc = "refresh" /\ call[x].own \in S => Outlived(S, {}, t)[x].late
    BY <1>0, OutlivedMarks, Zenon
  <2>3. Moved(t, d) /\ \A x \in Calls \ {t} : call'[x] = Outlived(S, {}, t)[x]
    BY <1>3, <1>6, <2>1, <2>2, Moves, ZenonT(60)
  <2>4. End(S) /\ crowded' \subseteq Users /\ crowded \subseteq crowded'
    BY <1>0, <1>6, <2>1, Zenon
  <2>5. EndsFor(t, d, S)
    BY <1>0, <1>3, <1>4, <2>2, <2>3, <2>4, Zenon DEF EndsFor
  <2>6. PICK A, B : A = GetByUser(u) /\ B = GetByUser(u)' /\ B = A \ S
    BY <2>5, EndFrame, Zenon
  <2>7. ASSUME MaxSessions > 0, u \notin crowded' PROVE Limited(u)'
    <3>1. Limited(u)
      BY <1>6, <2>7, Zenon DEF IInv, LimitInv
    <3>2. Cardinality(A) <= MaxSessions /\ MaxSessions \in Nat
      BY <2>6, <3>1, AccountsAssumption, Zenon DEF Limited
    <3>3. /\ Cardinality(A) \in Nat /\ Cardinality(B) \in Nat /\ Cardinality(B) <= Cardinality(A)
          /\ B # A => Cardinality(B) < Cardinality(A)
      <4>1. B \in SUBSET GetByUser(u)
        BY <2>6, Zenon
      <4> QED
        BY <2>6, <4>1, Fewer, Zenon
    <3>4. Cardinality(A) < MaxSessions \/ B # A
      BY <1>0, <1>1, <2>1, <2>6, <3>1, Zenon DEF Limited
    <3>5. Cardinality(B) < MaxSessions /\ Cardinality(B) <= MaxSessions
      BY <3>2, <3>3, <3>4
    <3>6. \A x \in Calls \ {t} : ~(call[x].pc \in Passing /\ call[x].user = u)
      BY <1>0, <1>1, <3>1, Zenon DEF Limited
    <3>7. d.pc # "evict"
      BY <1>3, Zenon
    <3> QED
      BY <2>3, <2>6, <3>5, <3>6, <3>7, AloneLimited, ZenonT(60)
  <2> QED
    BY <1>0, <1>1, <1>3, <2>4, <2>5, <2>7, PassingStep, ZenonT(60)
<1> QED
  BY <1>1, <1>2, <1>5, <1>6, Zenon DEF LoginEvict

\* What LoginOpen and RefreshWrite have in common: the call returns and leaves the
\* session s open.
\* If there were to be no sessions of the user of s, s is late or was one.
Excused(s) == \A u \in Users : Out(u) /\ u = owner'[s] => s \in GetByUser(u) \cup late'

LEMMA OpenedStep ==
    ASSUME IInv, NEW t \in Calls, NEW s \in Sessions, Return(t, call), s = call[t].own,
           sess' = [sess EXCEPT ![s] = "active"], owner'[s] \in Users,
           owner' \in [Sessions -> Users \cup {NoUser}],
           via' \in [Sessions -> Challenges \cup {NoChallenge}],
           \A r \in Sessions \ {s} : owner'[r] = owner[r],
           UNCHANGED <<accountVars, challengeVars, started, missed>>,
           crowded' \subseteq Users, late' \subseteq Sessions, late \subseteq late',
           sess[s] = "unused" => call[t].pc = "open", call[t].pc # "endall", Excused(s)
    PROVE  /\ ShapeInv' /\ RowInv' /\ SessInv' /\ SignInv'
           /\ Moved(t, Done)
           /\ \A u : GetByUser(u)' \subseteq GetByUser(u) \cup {s}
           /\ \A u : u # owner'[s] => GetByUser(u)' \subseteq GetByUser(u)
<1>0. /\ ShapeInv /\ RowInv /\ SessInv /\ SignInv /\ UNCHANGED accountVars
      /\ row' = row /\ want' = want /\ raced' = raced /\ chal' = chal /\ key' = key
      /\ started' = started /\ missed' = missed
  BY Zenon DEF IInv, accountVars, challengeVars
<1>1. Moved(t, Done)
  BY <1>0, CallsMarked, Returns, Zenon
<1>2. /\ sess' \in [Sessions -> SessionStates] /\ sess'[s] = "active"
      /\ \A r \in Sessions \ {s} : sess'[r] = sess[r]
  BY <1>0, Zenon DEF ShapeInv, TypeOK, SessionStates
<1>3. RestTyped'
  <2>1. \A r \in Sessions : sess'[r] # "unused" => owner'[r] \in Users
    BY <1>0, <1>2, Zenon DEF ShapeInv
  <2> QED
    BY <1>0, <1>2, <2>1, Typed, Zenon DEF RestTyped
<1>4. ShapeInv' /\ RowInv'
  BY <1>0, <1>1, <1>3, DoneFits, ShapeFrame, RowFrame, ZenonT(60)
<1>5. SessInv'
  <2>1. started' \in Nat /\ started <= started'
    BY <1>0, Typed DEF RestTyped
  <2>2. \A r \in Sessions :
            sess[r] = "unused" => sess'[r] = "unused" \/ (call[t].pc = "open" /\ call[t].own = r)
    BY <1>2, Zenon
  <2>3. \A r \in Sessions : sess[r] # "unused" => sess'[r] # "unused"
    BY <1>2, Zenon
  <2>4. \A x \in Calls \ {t} : call[x].pc = "refresh" /\ sess'[call[x].own] = "ended"
            => sess[call[x].own] = "ended" \/ call'[x].late
    BY <1>0, <1>2, Zenon DEF ShapeInv, Shape
  <2>5. Numbered(call[t])'
    BY <1>1, DoneFits, Zenon DEF Numbered, Moved
  <2>6. Done.pc \notin Opening
    BY DoneFits, Zenon
  <2> QED
    BY <1>0, <1>1, <2>1, <2>2, <2>3, <2>4, <2>5, <2>6, SessFrame, ZenonT(60)
<1>6. ASSUME NEW u, NEW r \in GetByUser(u)' PROVE r \in GetByUser(u) \/ (r = s /\ u = owner'[s])
  <2>1. r \in Sessions /\ sess'[r] \in {"active", "idle"} /\ owner'[r] = u
    BY <1>6, Zenon DEF GetByUser, Open
  <2>2. CASE r = s
    BY <2>1, <2>2, Zenon
  <2>3. CASE r # s
    BY <1>2, <2>1, <2>3, Zenon DEF GetByUser, Open
  <2> QED
    BY <2>2, <2>3, Zenon
<1>7. SignInv'
  <2>1. ASSUME NEW u \in Users, Out(u)'
        PROVE  /\ Out(u) /\ GetByUser(u)' \subseteq GetByUser(u) \cup late'
               /\ Done.pc \in Admitted /\ Done.user = u => Done.late
    <3>1. Out(u)
      BY <1>0, <1>1, <2>1, OutBefore, Zenon
    <3>2. GetByUser(u)' \subseteq GetByUser(u) \cup late'
      BY <1>6, <3>1, Zenon DEF Excused
    <3> QED
      BY <3>1, <3>2, DoneFits, Zenon
  <2> QED
    BY <1>0, <1>1, <2>1, SignFrame, Zenon
<1> QED
  BY <1>1, <1>4, <1>5, <1>6, <1>7, Zenon

LEMMA LoginOpenKeeps == ASSUME IInv, NEW t \in Calls, LoginOpen(t) PROVE IInv'
<1>0. /\ ShapeInv /\ SessInv /\ ChalInv /\ call[t] \in CallType /\ Shape(call[t])
      /\ crowded \subseteq Users
      /\ call[t].pc = "open" /\ call[t].pc # "endall" /\ call[t].pc \in Admitted
      /\ call[t].pc \in Opening /\ call[t].pc \in Passing /\ Return(t, call)
      /\ UNCHANGED <<accountVars, challengeVars, started, missed>>
      /\ crowded' = crowded /\ chal' = chal /\ late \subseteq Sessions
      /\ owner \in [Sessions -> Users \cup {NoUser}]
      /\ via \in [Sessions -> Challenges \cup {NoChallenge}]
  BY Zenon DEF IInv, ShapeInv, TypeOK, LoginOpen, Admitted, Opening, Passing, challengeVars
<1>1. PICK u \in Users : u = call[t].user
  BY <1>0, Zenon DEF Shape, LoginPcs
<1>2. PICK s \in Sessions : s = call[t].own
  BY <1>0, Zenon DEF Shape
<1>3. PICK k \in Challenges \cup {NoChallenge} : k = call[t].chal
  BY <1>0 DEF CallType
<1>4. /\ sess' = [sess EXCEPT ![s] = "active"] /\ owner' = [owner EXCEPT ![s] = u]
      /\ via' = [via EXCEPT ![s] = k] /\ late' = IF call[t].late THEN late \cup {s} ELSE late
  BY <1>1, <1>2, <1>3, Zenon DEF LoginOpen
<1>5. /\ owner' \in [Sessions -> Users \cup {NoUser}] /\ owner'[s] = u
      /\ \A r \in Sessions \ {s} : owner'[r] = owner[r]
      /\ via' \in [Sessions -> Challenges \cup {NoChallenge}] /\ via'[s] = k
      /\ \A r \in Sessions \ {s} : via'[r] = via[r]
  BY <1>0, <1>4, Zenon
<1>6. late' \subseteq Sessions /\ late \subseteq late' /\ (call[t].late => s \in late')
  BY <1>0, <1>4, Zenon
<1>7. Excused(s)
  BY <1>0, <1>1, <1>5, <1>6, Zenon DEF IInv, SignInv, Excused
<1>8. /\ ShapeInv' /\ RowInv' /\ SessInv' /\ SignInv' /\ Moved(t, Done)
      /\ \A v : GetByUser(v)' \subseteq GetByUser(v) \cup {s}
      /\ \A v : v # owner'[s] => GetByUser(v)' \subseteq GetByUser(v)
  <2>1. sess[s] = "unused" => call[t].pc = "open"
    BY <1>0, Zenon
  <2>2. crowded' \subseteq Users /\ owner'[s] \in Users
    BY <1>0, <1>5, Zenon
  <2> QED
    BY <1>0, <1>2, <1>4, <1>5, <1>6, <1>7, <2>1, <2>2, OpenedStep, ZenonT(60)
<1>9. ChalInv'
  <2>1. ASSUME NEW c \in Challenges, NEW x \in Calls, call'[x].chal = c
        PROVE  x # t /\ call[x].chal = c
    <3>1. x # t
      BY <1>8, <2>1, DoneFits, Zenon DEF Moved
    <3> QED
      BY <1>8, <2>1, <3>1, Zenon DEF Moved, SameCall
  <2>2. ASSUME NEW c \in Challenges, NEW r \in Sessions, via'[r] = c
        PROVE  (r = s /\ call[t].chal = c) \/ (r # s /\ via[r] = c)
    BY <1>3, <1>5, <2>2, Zenon
  <2>3. ASSUME NEW c \in Challenges
        PROVE  /\ \A x \in Calls : call'[x].chal = c => chal[c] = "used"
               /\ \A r \in Sessions : via'[r] = c => chal[c] = "used"
               /\ \A x, y \in Calls : call'[x].chal = c /\ call'[y].chal = c => x = y
               /\ \A x \in Calls, r \in Sessions : ~(call'[x].chal = c /\ via'[r] = c)
               /\ \A s1, s2 \in Sessions : via'[s1] = c /\ via'[s2] = c => s1 = s2
    <3>1. /\ \A x \in Calls : call[x].chal = c => chal[c] = "used"
          /\ \A r \in Sessions : via[r] = c => chal[c] = "used"
          /\ \A x, y \in Calls : call[x].chal = c /\ call[y].chal = c => x = y
          /\ \A x \in Calls, r \in Sessions : ~(call[x].chal = c /\ via[r] = c)
          /\ \A s1, s2 \in Sessions : via[s1] = c /\ via[s2] = c => s1 = s2
      BY <1>0, Zenon DEF ChalInv
    <3>2. \A x \in Calls : call'[x].chal = c => x # t /\ call[x].chal = c
      BY <2>1, Zenon
    <3>3. \A r \in Sessions : via'[r] = c => (r = s /\ call[t].chal = c) \/ (r # s /\ via[r] = c)
      BY <2>2, Zenon
    <3> QED
      BY <3>1, <3>2, <3>3, Zenon
  <2> QED
    BY <1>0, <2>3, Zenon DEF ChalInv
<1>10. LimitInv'
  <2> SUFFICES ASSUME MaxSessions > 0, NEW v \in Users, v \notin crowded' PROVE Limited(v)'
    BY Zenon DEF LimitInv
  <2>1. Limited(v)
    BY <1>0, Zenon DEF IInv, LimitInv
  <2>2. CASE v # u
    BY <1>5, <1>8, <2>1, <2>2, DoneFits, LimitedFrame, Zenon
  <2>3. CASE v = u
    <3>1. PICK A, B : A = GetByUser(u) /\ B = GetByUser(u)' /\ B \subseteq A \cup {s}
      BY <1>8, Zenon
    <3>2. Cardinality(A) < MaxSessions /\ MaxSessions \in Nat
      BY <1>0, <1>1, <2>1, <2>3, <3>1, AccountsAssumption, ZenonT(60) DEF Limited
    <3>3. IsFiniteSet(A) /\ Cardinality(A) \in Nat
      <4>1. A \in SUBSET GetByUser(u)
        BY <3>1, Zenon
      <4> QED
        BY <3>1, <4>1, Fewer, Zenon
    <3>4. /\ IsFiniteSet(A \cup {s})
          /\ Cardinality(A \cup {s}) = IF s \in A THEN Cardinality(A) ELSE Cardinality(A) + 1
      BY <3>3, FS_AddElement, Zenon
    <3>5. IsFiniteSet(B) /\ Cardinality(B) <= Cardinality(A \cup {s})
      BY <3>1, <3>4, FS_Subset, Zenon
    <3>6. Cardinality(B) \in Nat
      BY <3>5, FS_CardinalityType, Zenon
    <3>7. Cardinality(B) <= MaxSessions
      BY <3>2, <3>3, <3>4, <3>5, <3>6
    <3>8. \A x \in Calls \ {t} : ~(call[x].pc \in Passing /\ call[x].user = u)
      BY <1>0, <1>1, <2>1, <2>3, ZenonT(60) DEF Limited
    <3>9. Done.pc # "open" /\ Done.pc # "evict"
      BY IdleType, Zenon
    <3> QED
      BY <1>8, <2>3, <3>1, <3>7, <3>8, <3>9, AloneLimited, ZenonT(60)
  <2> QED
    BY <2>2, <2>3, Zenon
<1> QED
  BY <1>8, <1>9, <1>10, Zenon DEF IInv

LEMMA RefreshWriteKeeps == ASSUME IInv, NEW t \in Calls, RefreshWrite(t) PROVE IInv'
<1>0. /\ ShapeInv /\ SessInv /\ ChalInv /\ LimitInv /\ Shape(call[t]) /\ crowded \subseteq Users
      /\ call[t].pc = "refresh" /\ call[t].pc # "endall" /\ Return(t, call)
      /\ UNCHANGED <<accountVars, challengeVars, started, missed>>
      /\ owner' = owner /\ via' = via /\ chal' = chal /\ late \subseteq Sessions
      /\ owner \in [Sessions -> Users \cup {NoUser}]
      /\ via \in [Sessions -> Challenges \cup {NoChallenge}]
  BY Zenon DEF IInv, ShapeInv, TypeOK, RefreshWrite, challengeVars
<1>1. PICK s \in Sessions : s = call[t].own
  BY <1>0, Zenon DEF Shape
<1>2. sess[s] # "unused" /\ (sess[s] = "ended" => call[t].late) /\ owner[s] \in Users
  BY <1>0, <1>1, Zenon DEF SessInv, Numbered, ShapeInv
<1>3. CASE UNCHANGED <<sess, crowded, late>>
  <2>1. UNCHANGED <<accountVars, sessionVars, challengeVars>>
    BY <1>0, <1>3, Zenon DEF sessionVars
  <2> QED
    BY <1>0, <2>1, ReturnStep, Zenon
<1>4. CASE /\ sess[s] # "removed" /\ sess' = [sess EXCEPT ![s] = "active"]
           /\ crowded' = IF Open(s) THEN crowded ELSE crowded \cup {owner[s]}
           /\ late' = IF call[t].late THEN late \cup {s} ELSE late
  <2>1. Open(s) \/ call[t].late
    <3>1. sess[s] \in SessionStates
      BY <1>0, Zenon DEF ShapeInv, TypeOK
    <3> QED
      BY <1>2, <1>4, <3>1, Zenon DEF SessionStates, Open
  <2>2. /\ late' \subseteq Sessions /\ late \subseteq late' /\ (call[t].late => s \in late')
        /\ crowded' \subseteq Users /\ crowded \subseteq crowded'
        /\ Open(s) \/ owner[s] \in crowded'
    BY <1>0, <1>2, <1>4, Zenon
  <2>3. Excused(s)
    BY <1>0, <2>1, <2>2, Zenon DEF GetByUser, Excused
  <2>4. owner'[s] \in Users /\ (sess[s] = "unused" => call[t].pc = "open")
    BY <1>0, <1>2, Zenon
  <2>5. /\ \A r \in Sessions \ {s} : owner'[r] = owner[r]
        /\ owner' \in [Sessions -> Users \cup {NoUser}]
        /\ via' \in [Sessions -> Challenges \cup {NoChallenge}]
    BY <1>0, Zenon
  <2>6. /\ ShapeInv' /\ RowInv' /\ SessInv' /\ SignInv' /\ Moved(t, Done)
        /\ \A v : GetByUser(v)' \subseteq GetByUser(v) \cup {s}
        /\ \A v : v # owner'[s] => GetByUser(v)' \subseteq GetByUser(v)
    BY <1>0, <1>1, <1>4, <2>2, <2>3, <2>4, <2>5, OpenedStep, ZenonT(60)
  <2>7. ChalInv'
    BY <1>0, <2>6, DoneFits, ChalFrame, Zenon
  <2>8. LimitInv'
    <3>1. ASSUME NEW v \in Users, v \notin crowded'
          PROVE  v \notin crowded /\ GetByUser(v)' \subseteq GetByUser(v)
      <4>1. CASE v # owner'[s]
        BY <2>2, <2>6, <3>1, <4>1, Zenon
      <4>2. CASE v = owner'[s]
        <5>1. s \in GetByUser(v)
          BY <1>0, <2>2, <3>1, <4>2, Zenon DEF GetByUser
        <5> QED
          BY <2>2, <2>6, <3>1, <5>1, Zenon
      <4> QED
        BY <4>1, <4>2, Zenon
    <3>2. Done.pc \notin Passing
      BY DoneFits, Zenon
    <3> QED
      BY <1>0, <2>6, <3>1, <3>2, LimitFrame, Zenon
  <2> QED
    BY <2>6, <2>7, <2>8, Zenon DEF IInv
<1> QED
  BY <1>1, <1>3, <1>4, ZenonT(60) DEF RefreshWrite

-----------------------------------------------------------------------------
(* The invariant *)

LEMMA InitInv == Init => IInv
<1> SUFFICES ASSUME Init PROVE IInv
  BY Zenon
<1>0. /\ want = row /\ row \in [Users -> Existing] /\ started = 0
      /\ sess = [s \in Sessions |-> "unused"] /\ owner = [s \in Sessions |-> NoUser]
      /\ via = [s \in Sessions |-> NoChallenge] /\ chal = [c \in Challenges |-> "none"]
      /\ key = [c \in Challenges |-> NoUser] /\ call = [t \in Calls |-> Idle]
      /\ raced = {} /\ crowded = {} /\ missed = {} /\ late = {}
  BY Zenon DEF Init
<1>1. /\ \A t \in Calls : call[t] = Idle
      /\ \A s \in Sessions : sess[s] = "unused" /\ via[s] = NoChallenge
      /\ \A c \in Challenges : chal[c] = "none"
  BY <1>0, Zenon
<1>2. Idle \in CallType /\ Idle.pc = "idle" /\ Idle.chal = NoChallenge /\ 0 \in 0..NSessions
  BY IdleType, AccountsAssumption DEF Idle
<1>3. ShapeInv
  <2>1. row \in [Users -> Rows]
    BY <1>0, AccountsAssumption, Zenon
  <2>2. TypeOK
    BY <1>0, <1>2, <2>1, Zenon DEF TypeOK, SessionStates
  <2>3. Shape(Idle)
    BY <1>2, Zenon DEF Shape, LoginPcs, HoldsRow, Opening
  <2> QED
    BY <1>1, <2>2, <2>3, Zenon DEF ShapeInv
<1>4. RowInv
  BY <1>0, <1>1, <1>2, Zenon DEF RowInv, AdminChangesStick, Fresh, HoldsRow
<1>5. SessInv
  BY <1>1, <1>2, Zenon DEF SessInv, Numbered, Opening
<1>6. ChalInv
  BY <1>1, <1>2, AccountsAssumption, Zenon DEF ChalInv
<1>7. \A u : GetByUser(u) = {}
  BY <1>1, Zenon DEF GetByUser, Open
<1>8. SignInv
  BY <1>1, <1>2, <1>7, Zenon DEF SignInv, Admitted
<1>9. LimitInv
  <2>1. Cardinality({}) <= MaxSessions
    <3>1. Cardinality({}) = 0
      BY FS_EmptySet, Zenon
    <3> QED
      BY <3>1, AccountsAssumption
  <2>2. Idle.pc \notin Passing /\ Idle.pc # "open" /\ Idle.pc # "evict"
    BY <1>2, Zenon DEF Passing
  <2> QED
    BY <1>1, <1>7, <2>1, <2>2, Zenon DEF LimitInv, Limited
<1> QED
  BY <1>3, <1>4, <1>5, <1>6, <1>8, <1>9, Zenon DEF IInv

\* A step of a login.
LoginStep(t) ==
    \/ LoginLookup(t) \/ LoginCount(t) \/ LoginCreate(t) \/ LoginTouch(t)
    \/ LoginLimit(t) \/ LoginEvict(t) \/ LoginOpen(t)
    \/ \E u \in Users : SSHLogin(t, u)
    \/ \E c \in Challenges : VerifyChallenge(t, c)

\* A step of the user service.
UserStep(t) ==
    \/ \E u \in Users :
        \/ \E r \in Roles : AddUser(t, u, r)
        \/ \E p \in {"suspend", "activate", "setrole", "profile"} : EditUser(t, u, p)
        \/ DeleteUser(t, u)
    \/ AddUserCreate(t) \/ EndAll(t)
    \/ \E r \in Roles : EditUserWrite(t, r)

\* A step of a call about sessions, or the end of a call that was cancelled.
SessionStep(t) ==
    \/ \E S \in SUBSET Sessions : EndSessions(t, S)
    \/ \E s \in Sessions :
        \/ ValidateSession(t, s)
        \/ \E other \in Sessions : RevokeSession(t, s, other)
        \/ RevokeAllSessions(t, s)
        \/ Refresh(t, s)
    \/ \E all \in BOOLEAN : RevokeList(t, all)
    \/ RevokeNext(t) \/ RefreshWrite(t) \/ Abandon(t)

\* A step of no call.
StoreStep ==
    \/ CleanupChallenges
    \/ \E c \in Challenges : ChallengeExpires(c) \/ \E u \in Users : Challenge(c, u)
    \/ \E s \in Sessions : SessionIdles(s)
    \/ \E S \in SUBSET Sessions : CleanupSessions(S)

LEMMA Steps ==
    ASSUME Next
    PROVE  StoreStep \/ \E t \in Calls : LoginStep(t) \/ UserStep(t) \/ SessionStep(t)
<1>1. ASSUME NEW t \in Calls, NEW s \in Sessions, Logout(t, s) PROVE SessionStep(t)
  <2>1. {s} \in SUBSET Sessions
    BY Zenon
  <2> QED
    BY <1>1, <2>1, Zenon DEF SessionStep, Logout
<1>2. ASSUME NEW t \in Calls, NEW u \in Users, EndAllUserSessions(t, u) PROVE SessionStep(t)
  <2>1. GetByUser(u) \in SUBSET Sessions
    BY Zenon DEF GetByUser
  <2> QED
    BY <1>2, <2>1, Zenon DEF SessionStep, EndAllUserSessions
<1>3. ASSUME NEW t \in Calls, NEW u \in Users,
             SuspendUser(t, u) \/ ActivateUser(t, u) \/ SetUserRole(t, u) \/ UpdateUser(t, u)
      PROVE  UserStep(t)
  BY <1>3, Zenon DEF UserStep, SuspendUser, ActivateUser, SetUserRole, UpdateUser
<1>4. CASE StoreStep
  BY <1>4, Zenon
<1>5. ASSUME NEW t \in Calls, LoginStep(t) PROVE \E x \in Calls : LoginStep(x)
  BY <1>5, Zenon
<1>6. ASSUME NEW t \in Calls,
             \/ AddUserCreate(t) \/ EndAll(t)
             \/ \E r \in Roles : EditUserWrite(t, r)
             \/ \E u \in Users : DeleteUser(t, u) \/ \E r \in Roles : AddUser(t, u, r)
      PROVE  UserStep(t)
  BY <1>6, Zenon DEF UserStep
<1>7. ASSUME NEW t \in Calls,
             \/ \E s \in Sessions : \/ ValidateSession(t, s)
                                    \/ \E other \in Sessions : RevokeSession(t, s, other)
                                    \/ RevokeAllSessions(t, s)
                                    \/ Refresh(t, s)
             \/ \E all \in BOOLEAN : RevokeList(t, all)
             \/ RevokeNext(t) \/ RefreshWrite(t) \/ Abandon(t)
      PROVE  SessionStep(t)
  BY <1>7, Zenon DEF SessionStep
<1>8. ASSUME NEW t \in Calls,
             \/ LoginLookup(t) \/ LoginCount(t) \/ LoginCreate(t) \/ LoginTouch(t)
             \/ LoginLimit(t) \/ LoginEvict(t) \/ LoginOpen(t)
             \/ \E u \in Users : SSHLogin(t, u)
             \/ \E c \in Challenges : VerifyChallenge(t, c)
      PROVE  LoginStep(t)
  BY <1>8, Zenon DEF LoginStep
<1>9. \/ CleanupChallenges
      \/ \E c \in Challenges : ChallengeExpires(c) \/ \E u \in Users : Challenge(c, u)
      \/ \E s \in Sessions : SessionIdles(s)
      \/ \E S \in SUBSET Sessions : CleanupSessions(S)
      => StoreStep
  BY Zenon DEF StoreStep
<1> QED
  BY <1>1, <1>2, <1>3, <1>6, <1>7, <1>8, <1>9, ZenonT(60) DEF Next

LEMMA NextInv == IInv /\ [Next]_vars => IInv'
<1> SUFFICES ASSUME IInv, [Next]_vars PROVE IInv'
  BY Zenon
<1>1. ASSUME NEW t \in Calls, LoginStep(t) PROVE IInv'
  BY <1>1, LoginLookupKeeps, LoginCountKeeps, LoginCreateKeeps, LoginTouchKeeps, LoginLimitKeeps,
     LoginEvictKeeps, LoginOpenKeeps, SSHLoginKeeps, VerifyChallengeKeeps, ZenonT(60) DEF LoginStep
<1>2. ASSUME NEW t \in Calls, UserStep(t) PROVE IInv'
  BY <1>2, AddUserKeeps, EditUserKeeps, DeleteUserKeeps, AddUserCreateKeeps, EndAllKeeps,
     EditUserWriteKeeps, Zenon DEF UserStep
<1>3. ASSUME NEW t \in Calls, SessionStep(t) PROVE IInv'
  BY <1>3, EndSessionsKeep, SessionCallKeeps, RefreshKeeps, RevokeNextKeeps, RefreshWriteKeeps,
     AbandonKeeps, Zenon DEF SessionStep
<1>4. CASE StoreStep
  BY <1>4, ChallengesKeep, SessionsKeep, Zenon DEF StoreStep
<1>5. CASE UNCHANGED vars
  <2>1. /\ UNCHANGED <<accountVars, sessionVars, challengeVars, call>> /\ UNCHANGED accountVars
        /\ call' = call /\ chal' = chal /\ sess' = sess
        /\ owner' = owner /\ via' = via /\ started' = started /\ crowded' = crowded
        /\ missed' = missed /\ late' = late
    BY <1>5, Zenon DEF vars, sessionVars, challengeVars
  <2>2. RestTyped'
    BY <2>1, Typed, Zenon DEF IInv, RestTyped, accountVars, challengeVars
  <2> QED
    BY <2>1, <2>2, StillStep, Zenon
<1> QED
  BY <1>1, <1>2, <1>3, <1>4, <1>5, Steps, Zenon

-----------------------------------------------------------------------------
(* The theorems *)

\* Authenticate and the services auth and user keep the inductive invariant.
THEOREM Invariance == Spec => []IInv
  BY InitInv, NextInv, PTL DEF Spec

\* Every value that the repositories and the calls hold is of its type.
THEOREM TypeCorrect == Spec => []TypeOK
<1>1. IInv => TypeOK
  BY Zenon DEF IInv, ShapeInv
<1> QED
  BY <1>1, Invariance, PTL

\* What was asked of an account stays in effect, unless a Users().Update wrote a
\* row that had changed since it was read (the services auth and user).
THEOREM ChangesStick == Spec => []AdminChangesStick
<1>1. IInv => AdminChangesStick
  BY Zenon DEF IInv, RowInv
<1> QED
  BY <1>1, Invariance, PTL

\* A suspended or deleted user has no open session but those that a call opened
\* or refreshed which was let in before (SuspendUser, DeleteUser, EndAllForUser).
THEOREM SuspendedSignedOut == Spec => []SignedOut
<1>1. IInv => SignedOut
  BY Zenon DEF IInv, SignInv, SignedOut, Out
<1> QED
  BY <1>1, Invariance, PTL

\* Authenticate keeps a user within MaxSessionsPerUser, unless two logins pass the
\* check side by side, an error hides the sessions or a refresh reopens one.
THEOREM LimitHolds == Spec => []SessionLimit
<1>1. IInv => SessionLimit
  BY Zenon DEF IInv, LimitInv, Limited, SessionLimit
<1> QED
  BY <1>1, Invariance, PTL

\* ChallengeStore.Get lets a challenge open one session at most.
THEOREM ChallengeOnce == Spec => []OneSessionPerChallenge
<1>1. IInv => OneSessionPerChallenge
  BY Zenon DEF IInv, ChalInv, OneSessionPerChallenge
<1> QED
  BY <1>1, Invariance, PTL

\* A step of one call leaves the others where they are.
LEMMA OthersStay ==
    ASSUME ShapeInv, NEW t \in Calls, LoginStep(t) \/ UserStep(t) \/ SessionStep(t),
           NEW x \in Calls \ {t}
    PROVE  call'[x].pc = call[x].pc
<1>1. call \in [Calls -> CallType]
  BY Zenon DEF ShapeInv, TypeOK
<1>2. ASSUME NEW calls, Marked(calls), NEW d, call' = [calls EXCEPT ![t] = d]
      PROVE  call'[x].pc = call[x].pc
  <2>1. call'[x] = calls[x]
    BY <1>2, Zenon DEF Marked
  <2> QED
    BY <1>2, <2>1, Zenon DEF Marked, SameCall
<1>3. \A u : Marked(Overtaken(u, t))
  BY OvertakenMarks, Zenon
<1>4. \A S, V : Marked(Outlived(S, V, t))
  BY OutlivedMarks, Zenon
<1>5. CASE \/ LoginLookup(t) \/ LoginCount(t) \/ LoginLimit(t) \/ LoginOpen(t)
           \/ \E u \in Users : SSHLogin(t, u)
           \/ \E c \in Challenges : VerifyChallenge(t, c)
  BY <1>1, <1>5, Zenon DEF LoginLookup, LoginCount, LoginLimit, LoginOpen, SSHLogin,
     VerifyChallenge, Goto, Return
<1>6. CASE \E u \in Users : \/ \E r \in Roles : AddUser(t, u, r)
                            \/ \E p \in {"suspend", "activate", "setrole", "profile"} : EditUser(t, u, p)
  BY <1>1, <1>6, Zenon DEF AddUser, EditUser
<1>7. CASE \/ \E s \in Sessions :
                \/ ValidateSession(t, s)
                \/ \E other \in Sessions : RevokeSession(t, s, other)
                \/ RevokeAllSessions(t, s)
                \/ Refresh(t, s)
           \/ \E all \in BOOLEAN : RevokeList(t, all)
           \/ RefreshWrite(t) \/ Abandon(t)
  BY <1>1, <1>7, Zenon DEF ValidateSession, GetSessionExpired, RevokeSession, RevokeAllSessions,
     Refresh, RevokeList, RefreshWrite, Abandon, Return
<1>8. CASE LoginCreate(t) \/ LoginTouch(t) \/ AddUserCreate(t)
  <2>1. CASE \E u : \E d : call' = [Overtaken(u, t) EXCEPT ![t] = d]
    BY <1>2, <1>3, <2>1, Zenon
  <2>2. CASE Return(t, call)
    BY <1>1, <2>2, Zenon DEF Return
  <2> QED
    BY <1>8, <2>1, <2>2, Zenon DEF LoginCreate, LoginTouch, AddUserCreate, Return
<1>9. CASE \/ \E r \in Roles : EditUserWrite(t, r)
           \/ \E u \in Users : DeleteUser(t, u)
  <2>1. \E u : \E d : call' = [Overtaken(u, t) EXCEPT ![t] = d]
    BY <1>9, Zenon DEF EditUserWrite, DeleteUser
  <2> QED
    BY <1>2, <1>3, <2>1, Zenon
<1>10. CASE LoginEvict(t) \/ EndAll(t)
  <2>1. CASE \E S, V : \E d : call' = [Outlived(S, V, t) EXCEPT ![t] = d]
    BY <1>2, <1>4, <2>1, Zenon
  <2>2. CASE Return(t, call) \/ call' = [call EXCEPT ![t].pc = "open", ![t].todo = {}]
    BY <1>1, <2>2, Zenon DEF Return
  <2> QED
    BY <1>10, <2>1, <2>2, Zenon DEF LoginEvict, EndAll, Return
<1>11. CASE RevokeNext(t) \/ \E S \in SUBSET Sessions : EndSessions(t, S)
  <2>1. CASE \E S, V : \E d : call' = [Outlived(S, V, t) EXCEPT ![t] = d]
    BY <1>2, <1>4, <2>1, Zenon
  <2>2. CASE Return(t, call)
    BY <1>1, <2>2, Zenon DEF Return
  <2> QED
    BY <1>11, <2>1, <2>2, Zenon DEF RevokeNext, EndSessions, Return
<1>12. CASE LoginStep(t)
  BY <1>5, <1>8, <1>10, <1>12, Zenon DEF LoginStep
<1>13. CASE UserStep(t)
  BY <1>6, <1>8, <1>9, <1>10, <1>13, Zenon DEF UserStep
<1>14. CASE SessionStep(t)
  BY <1>7, <1>11, <1>14, Zenon DEF SessionStep
<1> QED
  BY <1>12, <1>13, <1>14, Zenon

\* What FirstUserIsAdmin says of a step.
Joins ==
    \A t \in Calls : call[t].pc = "create" /\ call'[t].pc = "touch" =>
        LET role == row'[call[t].user].role
        IN  /\ call[t].behind \/ role = IF IsFirstUser THEN "admin" ELSE NewRole
            /\ (\A u \in Users : row[u].status = "none") => role = "admin"

\* Auto-registration gives an administrator's role to the first user and the
\* configured one to the others, unless an account changed between IsFirstUser and
\* Create, and always opens an empty database with an administrator
\* (Service.Authenticate).
THEOREM FirstIsAdmin == Spec => FirstUserIsAdmin
<1>1. ASSUME IInv, Next PROVE Joins
  <2> SUFFICES ASSUME NEW t \in Calls, call[t].pc = "create", call'[t].pc = "touch"
               PROVE  /\ call[t].behind \/ row'[call[t].user].role = FitRole
                      /\ Inhabited \/ row'[call[t].user].role = "admin"
    BY Zenon DEF Joins, FitRole, Inhabited
  <2>1. ShapeInv /\ RowInv /\ call'[t].pc # call[t].pc
    BY <1>1, Zenon DEF IInv
  <2>2. ~StoreStep
    BY <2>1, Zenon DEF StoreStep, CleanupChallenges, ChallengeExpires, Challenge, SessionIdles,
       CleanupSessions
  <2>3. LoginStep(t) \/ UserStep(t) \/ SessionStep(t)
    <3>1. PICK x \in Calls : LoginStep(x) \/ UserStep(x) \/ SessionStep(x)
      BY <1>1, <2>2, Steps, Zenon
    <3>2. x = t
      BY <2>1, <3>1, OthersStay, Zenon
    <3> QED
      BY <3>1, <3>2, Zenon
  <2>4. /\ ~LoginLookup(t) /\ ~LoginCount(t) /\ ~LoginTouch(t) /\ ~LoginLimit(t)
        /\ ~LoginEvict(t) /\ ~LoginOpen(t)
        /\ \A u \in Users : ~SSHLogin(t, u)
        /\ \A c \in Challenges : ~VerifyChallenge(t, c)
    BY Zenon DEF LoginLookup, LoginCount, LoginTouch, LoginLimit, LoginEvict, LoginOpen, SSHLogin,
       VerifyChallenge
  <2>5. ~UserStep(t)
    BY Zenon DEF UserStep, AddUser, EditUser, DeleteUser, AddUserCreate, EndAll, EditUserWrite,
       HoldsRow
  <2>6. ~SessionStep(t) \/ Abandon(t)
    BY Zenon DEF SessionStep, EndSessions, ValidateSession, GetSessionExpired, RevokeSession,
       RevokeAllSessions, Refresh, RevokeList, RevokeNext, RefreshWrite
  <2>7. ~Return(t, call)
    <3>1. call'[t].pc # Done.pc
      BY IdleType, Zenon
    <3>2. call \in [Calls -> CallType]
      BY <2>1, Zenon DEF ShapeInv, TypeOK
    <3> QED
      BY <3>1, <3>2, Zenon DEF Return
  <2>8. LoginCreate(t)
    BY <2>3, <2>4, <2>5, <2>6, <2>7, Zenon DEF LoginStep, Abandon
  <2>9. row' = [row EXCEPT ![call[t].user] = call[t].row]
    BY <2>7, <2>8, Zenon DEF LoginCreate
  <2>10. call[t].user \in Users /\ row \in [Users -> Rows] /\ Fresh(call[t])
    BY <2>1, Zenon DEF ShapeInv, TypeOK, Shape, LoginPcs, RowInv
  <2>11. row'[call[t].user].role = call[t].row.role
    BY <2>9, <2>10, Zenon
  <2> QED
    BY <2>10, <2>11, Zenon DEF Fresh
<1>2. IInv /\ [Next]_vars => [Joins]_vars
  BY <1>1, Zenon
<1> QED
  BY <1>2, Invariance, PTL DEF Spec, FirstUserIsAdmin, Joins

LEMMA EndedEnds == ASSUME NEW S, End(S), NEW s \in Sessions, sess[s] = "ended" PROVE sess'[s] = "ended"
<1>1. sess'[s] = IF s \in S /\ Open(s) THEN "ended" ELSE sess[s]
  BY Zenon DEF End
<1> QED
  BY <1>1, Zenon

\* What EndedStaysEnded says of a step.
Reopens ==
    \A s \in Sessions :
        sess[s] = "ended" /\ sess'[s] \in {"active", "idle"}
        => \E t \in Calls : /\ call[t].pc = "refresh" /\ call[t].own = s
                            /\ call[t].late /\ call'[t].pc = "done"

\* A session that has ended is opened again only by a RefreshSession that had read
\* it while it was open (Sessions().Update writes ended_at as it was read).
THEOREM EndedForGood == Spec => EndedStaysEnded
<1>1. ASSUME IInv, Next PROVE Reopens
  <2> SUFFICES ASSUME NEW s \in Sessions, sess[s] = "ended", sess'[s] \in {"active", "idle"}
               PROVE  \E t \in Calls : /\ call[t].pc = "refresh" /\ call[t].own = s
                                       /\ call[t].late /\ call'[t].pc = "done"
    BY Zenon DEF Reopens
  <2>1. /\ sess \in [Sessions -> SessionStates] /\ call \in [Calls -> CallType]
        /\ SessInv /\ \A x \in Calls : Shape(call[x])
    BY <1>1, Zenon DEF IInv, ShapeInv, TypeOK
  <2>2. sess' # sess /\ \A S : ~End(S)
    BY EndedEnds, Zenon
  <2>3. ~StoreStep
    <3>1. \A r \in Sessions : ~SessionIdles(r)
      BY <2>1, Zenon DEF SessionIdles
    <3>2. \A S \in SUBSET Sessions : ~CleanupSessions(S)
      BY <2>1, Zenon DEF CleanupSessions
    <3> QED
      BY <2>2, <3>1, <3>2, Zenon DEF StoreStep, CleanupChallenges, ChallengeExpires, Challenge,
         sessionVars
  <2>4. PICK t \in Calls : LoginStep(t) \/ UserStep(t) \/ SessionStep(t)
    BY <1>1, <2>3, Steps, Zenon
  <2>5. ~LoginOpen(t)
    <3> SUFFICES ASSUME LoginOpen(t) PROVE FALSE
      BY Zenon
    <3>1. call[t].own \in Sessions /\ sess[call[t].own] = "unused"
      BY <2>1, Zenon DEF LoginOpen, SessInv, Numbered, Shape, Opening
    <3> QED
      BY <2>1, <3>1, Zenon DEF LoginOpen
  <2>6. ~LoginStep(t)
    BY <2>2, <2>5, Zenon DEF LoginStep, LoginLookup, LoginCount, LoginCreate, LoginTouch,
       LoginLimit, LoginEvict, SSHLogin, VerifyChallenge, sessionVars
  <2>7. ~UserStep(t)
    BY <2>2, Zenon DEF UserStep, AddUser, EditUser, DeleteUser, AddUserCreate, EndAll,
       EditUserWrite, sessionVars
  <2>8. RefreshWrite(t)
    BY <2>2, <2>4, <2>6, <2>7, Zenon DEF SessionStep, EndSessions, ValidateSession,
       GetSessionExpired, RevokeSession, RevokeAllSessions, Refresh, RevokeList, RevokeNext,
       Abandon, sessionVars
  <2>9. call[t].own = s
    <3>1. sess' = [sess EXCEPT ![call[t].own] = "active"]
      BY <2>2, <2>8, Zenon DEF RefreshWrite
    <3> QED
      BY <2>1, <3>1, Zenon
  <2>10. call[t].pc = "refresh" /\ call[t].late
    BY <2>1, <2>8, <2>9, Zenon DEF RefreshWrite, SessInv, Numbered
  <2>11. call'[t].pc = "done"
    BY <2>1, <2>8, IdleType, Zenon DEF RefreshWrite, Return
  <2> QED
    BY <2>9, <2>10, <2>11, Zenon
<1>2. IInv /\ [Next]_vars => [Reopens]_vars
  BY <1>1, Zenon
<1> QED
  BY <1>2, Invariance, PTL DEF Spec, EndedStaysEnded, Reopens

=============================================================================
