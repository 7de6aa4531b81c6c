---------------------------- MODULE TopicsProofs ----------------------------
(***************************************************************************)
(* Proofs about Topics: a topic keeps an owner, an invitation is answered  *)
(* once, a deleted topic stays deleted.                                    *)
(***************************************************************************)
EXTENDS Topics, FiniteSetTheorems, TLAPS

-----------------------------------------------------------------------------
(* The inductive invariant *)

\* CreateTopic is over, the membership of the creator included.
Created == topic # "none" /\ \A t \in Calls : call[t].pc # "owner"

\* Points of a call that is past a check which only an owner, or the holder of an
\* invitation by an owner, passes.
PastOwner == Pcs \ {"idle", "done", "insert", "owner", "subscribe", "remove", "topicGet"}

\* t has made a member with invitation i and is about to write that down.
Accepts(t, i) == call[t].pc = "accepted" /\ call[t].inv = i

Accepting(i) == \E t \in Calls : Accepts(t, i)

\* What a call has in hand at each of its points.
Shape(c) ==
    /\ c \in CallType
    /\ c.pc \in {"insert", "owner", "subscribe", "join"} => c.actor \in Users
    /\ c.pc \in {"member", "count", "promote", "demote", "remove"} => c.target \in Users
    /\ c.pc \in Answering \cup {"canceller", "accepted"} => c.inv \in Invites
    /\ c.pc \in {"answer", "canceller"} => c.answer \in {"expired", "declined", "cancelled"}
    /\ c.pc \in {"topicGet", "topicWrite"} => c.topic # "none"
    /\ c.pc = "promote" => c.role = "owner"

\* There is an owner for it to have met.
Settled(c) ==
    /\ c.pc \in PastOwner => Created
    /\ c.pc = "owner" => topic # "none"

\* A call about to remove somebody leaves an owner, unless it was overtaken.
LeavesOwner(c) ==
    c.behind \/ blind \/
        /\ c.pc \in {"demote", "remove"} /\ IsOwner(c.target) => \E w \in Owners : w # c.target
        /\ c.pc = "purge" => \E w \in Owners : w \notin c.todo

\* A call about to answer an invitation finds it pending, unless it was overtaken.
UpToDate(c) ==
    c.pc \in Answering \cup {"canceller"} =>
        c.behind \/ c.inv \in contested \/ Accepting(c.inv) \/ inv[c.inv] = "pending"

ShapeInv == TypeOK /\ \A t \in Calls : Shape(call[t])

OwnerInv ==
    /\ \A t \in Calls : Settled(call[t]) /\ LeavesOwner(call[t])
    /\ \A t, x \in Calls : call[t].pc = "owner" /\ call[x].pc = "owner" => t = x
    /\ Owners # {} \/ (\E i \in Invites : inv[i] # "none") => Created
    /\ KeepsOwner

\* One call at a time is between the two writes of an acceptance.
AnswerInv ==
    /\ \A t \in Calls : UpToDate(call[t])
    /\ \A i \in Invites \ contested :
        /\ \A t, x \in Calls : Accepts(t, i) /\ Accepts(x, i) => t = x
        /\ Accepting(i) => inv[i] # "accepted" /\ \E u \in Users : joined[i] = {u}
        /\ ~Accepting(i) =>
            IF inv[i] = "accepted" THEN \E u \in Users : joined[i] = {u} ELSE joined[i] = {}

IInv == ShapeInv /\ OwnerInv /\ AnswerInv

-----------------------------------------------------------------------------
(* Facts about calls *)

\* A call as it was, but that it may have been overtaken.
SameCall(d, c) ==
    /\ d \in CallType
    /\ d.pc = c.pc /\ d.actor = c.actor /\ d.target = c.target /\ d.role = c.role
    /\ d.inv = c.inv /\ d.answer = c.answer /\ d.topic = c.topic /\ d.todo = c.todo
    /\ c.behind => d.behind

\* The step is one of t, which is at d after it.
Moved(t, d) ==
    /\ call' \in [Calls -> CallType]
    /\ call'[t] = d
    /\ \A x \in Calls \ {t} : SameCall(call'[x], call[x])

LEMMA IdleType == Idle \in CallType /\ Idle.pc = "idle" /\ Done \in CallType /\ Done.pc = "done"
  BY Zenon DEF Idle, Done, CallType, Pcs, Roles, InviteStates

LEMMA DoneFits == Shape(Done) /\ Settled(Done) /\ LeavesOwner(Done) /\ UpToDate(Done)
  BY IdleType, Zenon DEF Shape, Settled, LeavesOwner, UpToDate, PastOwner, Answering

LEMMA SameSelf == ASSUME NEW c \in CallType PROVE SameCall(c, c)
  BY Zenon DEF SameCall

LEMMA SameMarked ==
    ASSUME NEW c \in CallType
    PROVE  SameCall([c EXCEPT !.behind = TRUE], c) /\ [c EXCEPT !.behind = TRUE].behind
  BY Zenon DEF SameCall, CallType

LEMMA PcSet ==
    ASSUME NEW c \in CallType, NEW p \in Pcs, NEW d, d = [c EXCEPT !.pc = p]
    PROVE  /\ d \in CallType /\ d.pc = p /\ d.actor = c.actor /\ d.target = c.target
           /\ d.role = c.role /\ d.inv = c.inv /\ d.answer = c.answer /\ d.topic = c.topic
           /\ d.todo = c.todo /\ d.behind = c.behind
  BY DEF CallType

LEMMA ShapeSame == ASSUME NEW c, NEW d, Shape(c), SameCall(d, c) PROVE Shape(d)
  BY Zenon DEF Shape, SameCall

\* Whom a change of the role of u marks.
Hit(u, x) ==
    \/ role[u] = "owner" /\ role'[u] # "owner"
    \/ role[u] # "owner" /\ role'[u] = "owner" /\ call[x].target = u

LEMMA UnsettledMarks ==
    ASSUME call \in [Calls -> CallType], NEW u, NEW t
    PROVE  /\ Unsettled(u, t) \in [Calls -> CallType]
           /\ \A x \in Calls : SameCall(Unsettled(u, t)[x], call[x])
           /\ \A x \in Calls \ {t} : call[x].pc \in Removing /\ Hit(u, x) => Unsettled(u, t)[x].behind
<1>1. ASSUME NEW x \in Calls
      PROVE  /\ SameCall(Unsettled(u, t)[x], call[x])
             /\ x # t /\ call[x].pc \in Removing /\ Hit(u, x) => Unsettled(u, t)[x].behind
  <2>1. call[x] \in CallType
    BY Zenon
  <2>2. CASE x # t /\ call[x].pc \in Removing /\ Hit(u, x)
    <3>1. Unsettled(u, t)[x] = [call[x] EXCEPT !.behind = TRUE]
      BY <2>2, Zenon DEF Unsettled, Hit
    <3> QED
      BY <2>1, <3>1, SameMarked, Zenon
  <2>3. CASE ~(x # t /\ call[x].pc \in Removing /\ Hit(u, x))
    <3>1. Unsettled(u, t)[x] = call[x]
      BY <2>3, Zenon DEF Unsettled, Hit
    <3> QED
      BY <2>1, <2>3, <3>1, SameSelf, Zenon
  <2> QED
    BY <2>2, <2>3, Zenon
<1>2. Unsettled(u, t) = [x \in Calls |-> Unsettled(u, t)[x]]
  BY Zenon DEF Unsettled
<1>3. \A x \in Calls : Unsettled(u, t)[x] \in CallType
  BY <1>1, Zenon DEF SameCall
<1> HIDE DEF Unsettled
<1>4. Unsettled(u, t) \in [Calls -> CallType]
  BY <1>2, <1>3, Zenon
<1> QED
  BY <1>1, <1>4, Zenon

LEMMA AnsweredMarks ==
    ASSUME call \in [Calls -> CallType], NEW i, NEW T
    PROVE  /\ Answered(i, T) \in [Calls -> CallType]
           /\ \A x \in Calls : SameCall(Answered(i, T)[x], call[x])
           /\ \A x \in Calls \ T : call[x].inv = i /\ call[x].pc \in Answering \cup {"canceller"}
                => Answered(i, T)[x].behind
<1> DEFINE Seen(x) == x \notin T /\ call[x].inv = i /\ call[x].pc \in Answering \cup {"canceller"}
<1>1. ASSUME NEW x \in Calls
      PROVE  /\ SameCall(Answered(i, T)[x], call[x])
             /\ Seen(x) => Answered(i, T)[x].behind
  <2>1. call[x] \in CallType
    BY Zenon
  <2>2. CASE Seen(x)
    <3>1. Answered(i, T)[x] = [call[x] EXCEPT !.behind = TRUE]
      BY <2>2, Zenon DEF Answered
    <3> QED
      BY <2>1, <3>1, SameMarked, Zenon
  <2>3. CASE ~Seen(x)
    <3>1. Answered(i, T)[x] = call[x]
      BY <2>3, Zenon DEF Answered
    <3> QED
      BY <2>1, <2>3, <3>1, SameSelf, Zenon
  <2> QED
    BY <2>2, <2>3, Zenon
<1>2. Answered(i, T) = [x \in Calls |-> Answered(i, T)[x]]
  BY Zenon DEF Answered
<1>3. \A x \in Calls : Answered(i, T)[x] \in CallType
  BY <1>1, Zenon DEF SameCall
<1>4. Answered(i, T) \in [Calls -> CallType]
  BY <1>2, <1>3, Zenon
<1> QED
  BY <1>1, <1>4, Zenon

\* Begin, Goto and Return are moves.
LEMMA BeginMoves ==
    ASSUME ShapeInv, NEW t \in Calls, NEW c \in CallType, Begin(t, c)
    PROVE  Moved(t, c) /\ call[t].pc = "idle"
<1>1. call \in [Calls -> CallType]
  BY Zenon DEF ShapeInv, TypeOK
<1>2. call'[t] = c /\ call' \in [Calls -> CallType] /\ \A x \in Calls \ {t} : call'[x] = call[x]
  BY <1>1, Zenon DEF Begin
<1>3. \A x \in Calls : call[x] \in CallType
  BY <1>1, Zenon
<1> QED
  BY <1>2, <1>3, SameSelf, Zenon DEF Moved, Begin

LEMMA GotoMoves ==
    ASSUME NEW t \in Calls, NEW calls \in [Calls -> CallType], NEW p \in Pcs, Goto(t, calls, p),
           \A x \in Calls : SameCall(calls[x], call[x])
    PROVE  Moved(t, [calls[t] EXCEPT !.pc = p])
<1>1. calls[t] \in CallType
  BY Zenon
<1>2. [calls[t] EXCEPT !.pc = p] \in CallType
  BY <1>1, PcSet
<1>3. /\ call'[t] = [calls[t] EXCEPT !.pc = p]
      /\ \A x \in Calls \ {t} : call'[x] = calls[x]
      /\ call' \in [Calls -> CallType]
  BY <1>2, Zenon DEF Goto
<1> QED
  BY <1>3, Zenon DEF Moved

LEMMA ReturnMoves ==
    ASSUME NEW t \in Calls, NEW calls \in [Calls -> CallType], Return(t, calls),
           \A x \in Calls : SameCall(calls[x], call[x])
    PROVE  Moved(t, Done) /\ \A x \in Calls \ {t} : call'[x] = calls[x]
<1>1. /\ call'[t] = Done
      /\ \A x \in Calls \ {t} : call'[x] = calls[x]
      /\ call' \in [Calls -> CallType]
  BY IdleType, Zenon DEF Return
<1> QED
  BY <1>1, Zenon DEF Moved

-----------------------------------------------------------------------------
(* What a move does to the invariant *)

RestTyped ==
    /\ topic \in {"none", "active", "deleted"}
    /\ role \in [Users -> Roles \cup {"none"}] /\ gen \in [Users -> Nat]
    /\ inv \in [Invites -> InviteStates] /\ due \subseteq Invites
    /\ invitee \in [Invites -> Users \cup {NoUser}]
    /\ inviter \in [Invites -> Users \cup {NoUser}]
    /\ offer \in [Invites -> Roles]
    /\ blind \in BOOLEAN /\ contested \subseteq Invites
    /\ joined \in [Invites -> SUBSET Users]

LEMMA ShapeFrame ==
    ASSUME ShapeInv, NEW t \in Calls, NEW d, Moved(t, d), Shape(d), RestTyped'
    PROVE  ShapeInv'
<1>1. TypeOK'
  BY Zenon DEF TypeOK, RestTyped, Moved
<1>2. ASSUME NEW x \in Calls PROVE Shape(call'[x])
  <2>1. CASE x = t
    BY <2>1, Zenon DEF Moved
  <2>2. CASE x # t
    BY <2>2, ShapeSame, Zenon DEF Moved, ShapeInv
  <2> QED
    BY <2>1, <2>2, Zenon
<1> QED
  BY <1>1, <1>2, Zenon DEF ShapeInv, Shape

\* A step keeps OwnerInv if it tells the calls about to remove somebody of an
\* owner that goes, and of a first owner that comes.
LEMMA OwnerFrame ==
    ASSUME OwnerInv, NEW t \in Calls, NEW d, Moved(t, d),
           (topic = "none") <=> (topic' = "none"), blind => blind',
           \A x \in Calls \ {t} : call[x].pc \in Removing =>
                \/ call'[x].behind \/ blind'
                \/ /\ Owners \subseteq Owners'
                   /\ call[x].target \in Owners' => call[x].target \in Owners \/ Owners # {},
           Owners' # {} \/ (\E i \in Invites : inv'[i] # "none") => Created',
           KeepsOwner',
           d.pc # "owner", d.pc \in PastOwner => Created, LeavesOwner(call[t])'
    PROVE  OwnerInv'
<1>0. /\ call'[t] = d
      /\ \A x \in Calls \ {t} :
            /\ call'[x].pc = call[x].pc /\ call'[x].target = call[x].target
            /\ call'[x].todo = call[x].todo /\ (call[x].behind => call'[x].behind)
  BY Zenon DEF Moved, SameCall
<1>1. Created => Created'
  BY <1>0, Zenon DEF Created
<1>2. ASSUME NEW x \in Calls PROVE Settled(call[x])'
  <2>1. CASE x = t
    BY <2>1, <1>0, <1>1, Zenon DEF Settled
  <2>2. CASE x # t
    BY <2>2, <1>0, <1>1, Zenon DEF Settled, OwnerInv
  <2> QED
    BY <2>1, <2>2, Zenon
<1>3. ASSUME NEW x \in Calls PROVE LeavesOwner(call[x])'
  <2>1. CASE x = t
    BY <2>1, Zenon
  <2>2. CASE x # t
    <3> SUFFICES ASSUME ~call'[x].behind, ~blind', call[x].pc \in Removing
                 PROVE  LeavesOwner(call[x])'
      BY <2>2, <1>0, Zenon DEF LeavesOwner, Removing
    <3>1. /\ Owners \subseteq Owners'
          /\ call[x].target \in Owners' => call[x].target \in Owners \/ Owners # {}
      BY <2>2, Zenon
    <3>2. /\ call[x].pc \in {"demote", "remove"} /\ call[x].target \in Owners
             => \E w \in Owners : w # call[x].target
          /\ call[x].pc = "purge" => \E w \in Owners : w \notin call[x].todo
      BY <2>2, <1>0, Zenon DEF OwnerInv, LeavesOwner, IsOwner
    <3>3. call[x].pc \in {"demote", "remove"} /\ call[x].target \in Owners'
             => \E w \in Owners' : w # call[x].target
      BY <3>1, <3>2, Zenon
    <3>4. call[x].pc = "purge" => \E w \in Owners' : w \notin call[x].todo
      BY <3>1, <3>2, Zenon
    <3> QED
      BY <2>2, <1>0, <3>3, <3>4, Zenon DEF LeavesOwner, IsOwner
  <2> QED
    BY <2>1, <2>2, Zenon
<1>4. \A y, x \in Calls : call'[y].pc = "owner" /\ call'[x].pc = "owner" => y = x
  BY <1>0, ZenonT(60) DEF OwnerInv
<1> QED
  BY <1>2, <1>3, <1>4, Zenon DEF OwnerInv

\* Such is a step that writes neither topic nor member.
LEMMA OwnerQuiet ==
    ASSUME OwnerInv, NEW t \in Calls, NEW d, Moved(t, d),
           (topic = "none") <=> (topic' = "none"), Owners' = Owners, blind' = blind,
           (\E i \in Invites : inv'[i] # "none") => Created,
           call[t].pc # "owner", d.pc # "owner", Settled(d), LeavesOwner(d)
    PROVE  OwnerInv'
<1>0. /\ call'[t] = d
      /\ \A x \in Calls \ {t} : call'[x].pc = call[x].pc
  BY Zenon DEF Moved, SameCall
<1>2. Created <=> Created'
  BY <1>0, Zenon DEF Created
<1>3. KeepsOwner'
  BY <1>2, Zenon DEF OwnerInv, KeepsOwner, Created
<1>4. Owners' # {} \/ (\E i \in Invites : inv'[i] # "none") => Created'
  BY <1>2, Zenon DEF OwnerInv
<1>5. LeavesOwner(call[t])'
  BY <1>0, Zenon DEF LeavesOwner, IsOwner
<1>6. d.pc \in PastOwner => Created
  BY Zenon DEF Settled
<1> QED
  BY <1>3, <1>4, <1>5, <1>6, OwnerFrame, Zenon

\* What AnswerInv says of one invitation.
Answers(i) ==
    i \in contested \/
        /\ \A t, x \in Calls : Accepts(t, i) /\ Accepts(x, i) => t = x
        /\ Accepting(i) => inv[i] # "accepted" /\ \E u \in Users : joined[i] = {u}
        /\ ~Accepting(i) =>
            IF inv[i] = "accepted" THEN \E u \in Users : joined[i] = {u} ELSE joined[i] = {}

\* A step about invitation i keeps AnswerInv if it tells the calls about to answer
\* i that it is no longer pending.
LEMMA AnswerFrame ==
    ASSUME AnswerInv, NEW t \in Calls, NEW d, Moved(t, d), NEW i,
           \A j \in Invites \ {i} : /\ inv'[j] = inv[j] /\ joined'[j] = joined[j]
                                    /\ j \in contested' <=> j \in contested,
           \A x \in Calls : Shape(call[x]),
           call[t].pc = "accepted" => call[t].inv = i,
           d.pc = "accepted" => d.inv = i,
           \A x \in Calls \ {t} :
               call[x].inv = i /\ call[x].pc \in Answering \cup {"canceller"} =>
                   call'[x].behind \/ i \in contested' \/ Accepting(i)' \/ inv'[i] = "pending",
           UpToDate(call[t])',
           i \in Invites => Answers(i)'
    PROVE  AnswerInv'
<1>0. /\ call'[t] = d
      /\ \A x \in Calls \ {t} :
            /\ call'[x].pc = call[x].pc /\ call'[x].inv = call[x].inv
            /\ call[x].behind => call'[x].behind
  BY Zenon DEF Moved, SameCall
<1>1. ASSUME NEW j \in Invites, j # i PROVE Accepting(j)' <=> Accepting(j)
  BY <1>0, <1>1, Zenon DEF Accepting, Accepts
<1>2. ASSUME NEW x \in Calls PROVE UpToDate(call[x])'
  <2>1. CASE x = t
    BY <2>1, Zenon
  <2>2. CASE x # t
    <3>1. PICK j : j = call[x].inv /\ j = call'[x].inv
      BY <2>2, <1>0, Zenon
    <3> SUFFICES ASSUME call[x].pc \in Answering \cup {"canceller"}
                 PROVE  call'[x].behind \/ j \in contested' \/ Accepting(j)' \/ inv'[j] = "pending"
      BY <2>2, <1>0, <3>1, Zenon DEF UpToDate, Accepting, Accepts
    <3>2. CASE j = i
      BY <2>2, <3>1, <3>2, Zenon
    <3>3. CASE j # i
      <4>1. j \in Invites
        BY <3>1, Zenon DEF Shape
      <4>2. call[x].behind \/ j \in contested \/ Accepting(j) \/ inv[j] = "pending"
        BY <3>1, ZenonT(60) DEF AnswerInv, UpToDate
      <4> QED
        BY <2>2, <1>0, <1>1, <3>3, <4>1, <4>2, Zenon
    <3> QED
      BY <3>2, <3>3, Zenon
  <2> QED
    BY <2>1, <2>2, Zenon
<1>3. ASSUME NEW j \in Invites, j # i PROVE Answers(j)'
  <2>1. Answers(j)
    BY Zenon DEF AnswerInv, Answers
  <2>2. ASSUME NEW y \in Calls PROVE Accepts(y, j)' <=> Accepts(y, j)
    <3>1. CASE y = t
      BY <1>0, <1>3, <3>1, Zenon DEF Accepts
    <3>2. CASE y # t
      BY <1>0, <3>2, Zenon DEF Accepts
    <3> QED
      BY <3>1, <3>2, Zenon
  <2>3. /\ inv'[j] = inv[j] /\ joined'[j] = joined[j]
        /\ j \in contested' <=> j \in contested
    BY <1>3, Zenon
  <2> QED
    BY <1>1, <1>3, <2>1, <2>2, <2>3, Zenon DEF Answers
<1>4. \A j \in Invites : Answers(j)'
  BY <1>3, Zenon
<1> QED
  BY <1>2, <1>4, Zenon DEF AnswerInv, Answers

\* A step that writes no invitation.
LEMMA AnswerQuiet ==
    ASSUME ShapeInv, AnswerInv, NEW t \in Calls, NEW d, Moved(t, d),
           UNCHANGED <<inv, contested, joined>>,
           call[t].pc # "accepted", d.pc # "accepted", Shape(d), UpToDate(d)
    PROVE  AnswerInv'
<1>0. /\ call'[t] = d
      /\ \A x \in Calls \ {t} : call'[x].pc = call[x].pc /\ call'[x].inv = call[x].inv
  BY Zenon DEF Moved, SameCall
<1>1. \A x \in Calls : Shape(call[x])
  BY Zenon DEF ShapeInv
<1>2. UpToDate(call[t])'
  <2>1. \A j : Accepting(j) => Accepting(j)'
    BY <1>0, Zenon DEF Accepting, Accepts
  <2>2. Accepting(d.inv) => \E y \in Calls : call'[y].pc = "accepted" /\ call'[y].inv = d.inv
    BY <2>1, Zenon DEF Accepting, Accepts
  <2> QED
    BY <1>0, <2>2, Zenon DEF UpToDate, Accepting, Accepts
<1>3. \A x \in Calls : call[x].pc \in Answering \cup {"canceller"} => call[x].inv # NoInvite
  BY <1>1, TopicsAssumption, Zenon DEF Shape
<1>4. NoInvite \notin Invites
  BY TopicsAssumption, Zenon
<1> QED
  BY <1>1, <1>2, <1>3, <1>4, AnswerFrame, Zenon

\* A step that only moves t.
LEMMA QuietStep ==
    ASSUME IInv, NEW t \in Calls, NEW d, Moved(t, d),
           UNCHANGED <<topicVars, memberVars, inviteVars>>,
           call[t].pc \notin {"owner", "accepted"}, d.pc \notin {"owner", "accepted"},
           Shape(d), Settled(d), LeavesOwner(d), UpToDate(d)
    PROVE  IInv'
<1> USE DEF IInv, topicVars, memberVars, inviteVars
<1>1. RestTyped'
  BY Zenon DEF ShapeInv, TypeOK, RestTyped
<1>2. ShapeInv'
  BY <1>1, ShapeFrame, Zenon
<1>3. (\E i \in Invites : inv'[i] # "none") => Created
  BY Zenon DEF OwnerInv
<1>4. OwnerInv'
  <2>1. Owners' = Owners /\ blind' = blind
    BY Zenon DEF Owners
  <2> QED
    BY <1>3, <2>1, OwnerQuiet, Zenon
<1>5. AnswerInv'
  BY AnswerQuiet, Zenon
<1> QED
  BY <1>2, <1>4, <1>5, Zenon

LEMMA BeginStep ==
    ASSUME IInv, NEW t \in Calls, NEW c, Begin(t, c),
           UNCHANGED <<topicVars, memberVars, inviteVars>>,
           c.pc \notin {"owner", "accepted"},
           Shape(c), Settled(c), LeavesOwner(c), UpToDate(c)
    PROVE  IInv'
<1>1. Moved(t, c) /\ call[t].pc = "idle"
  BY BeginMoves, Zenon DEF IInv, Shape
<1>2. call[t].pc \notin {"owner", "accepted"}
  BY <1>1, Zenon
<1> QED
  BY <1>1, <1>2, QuietStep, Zenon

LEMMA ReturnStep ==
    ASSUME IInv, NEW t \in Calls, Return(t, call),
           UNCHANGED <<topicVars, memberVars, inviteVars>>,
           call[t].pc \notin {"owner", "accepted"}
    PROVE  IInv'
<1>1. call \in [Calls -> CallType] /\ \A x \in Calls : SameCall(call[x], call[x])
  BY SameSelf, Zenon DEF IInv, ShapeInv, TypeOK
<1>2. Moved(t, Done)
  BY <1>1, ReturnMoves, Zenon
<1>3. Done.pc \notin {"owner", "accepted"}
  BY IdleType, Zenon
<1> QED
  BY <1>2, <1>3, DoneFits, QuietStep, Zenon

LEMMA GotoStep ==
    ASSUME IInv, NEW t \in Calls, NEW p \in Pcs, Goto(t, call, p),
           UNCHANGED <<topicVars, memberVars, inviteVars>>,
           call[t].pc \notin {"owner", "accepted"}, p \notin {"owner", "accepted"},
           NEW d, d = [call[t] EXCEPT !.pc = p],
           Shape(d), Settled(d), LeavesOwner(d), UpToDate(d)
    PROVE  IInv'
<1>1. call \in [Calls -> CallType] /\ \A x \in Calls : SameCall(call[x], call[x])
  BY SameSelf, Zenon DEF IInv, ShapeInv, TypeOK
<1>2. Moved(t, d)
  BY <1>1, GotoMoves, Zenon
<1>3. d.pc = p
  BY <1>1, PcSet
<1> QED
  BY <1>2, <1>3, QuietStep, Zenon

LEMMA Middle ==
    ASSUME NEW c, Created,
           c.pc \in {"member", "count", "promote", "invite", "topicWrite", "topicDelete",
                     "restoreGet", "restore", "purgeList"}
    PROVE  Settled(c) /\ LeavesOwner(c) /\ UpToDate(c) /\ c.pc \notin {"owner", "accepted"}
  BY Zenon DEF Settled, LeavesOwner, UpToDate, Answering

LEMMA OwnerMeansCreated ==
    ASSUME IInv
    PROVE  /\ \A u : IsOwner(u) => Created
           /\ \A i \in Invites : inv[i] # "none" => Created
           /\ \A t \in Calls : call[t].pc \in PastOwner => Created
  BY Zenon DEF IInv, OwnerInv, IsOwner, Settled

-----------------------------------------------------------------------------
(* The steps that write nothing *)

LEMMA CreateTopicKeeps ==
    ASSUME IInv, NEW t \in Calls, NEW u \in Users, CreateTopic(t, u) \/ Subscribe(t, u)
    PROVE  IInv'
<1> DEFINE c(p) == [Idle EXCEPT !.pc = p, !.actor = u]
<1>1. ASSUME NEW p \in {"insert", "subscribe"} PROVE Shape(c(p)) /\ c(p).pc = p
  <2>1. p \in Pcs
    BY Zenon DEF Pcs
  <2>2. c(p) \in CallType /\ c(p).pc = p /\ c(p).actor = u
    BY <2>1, Zenon DEF Idle, CallType, Roles, InviteStates
  <2> QED
    BY <2>2, Zenon DEF Shape, Answering
<1>2. PICK p \in {"insert", "subscribe"} :
        Begin(t, c(p)) /\ UNCHANGED <<topicVars, memberVars, inviteVars>>
  BY Zenon DEF CreateTopic, Subscribe
<1> HIDE DEF c
<1>3. /\ Shape(c(p)) /\ c(p).pc \in {"insert", "subscribe", "topicGet"}
      /\ c(p).pc \notin {"owner", "accepted"}
  BY <1>1, Zenon
<1>4. Settled(c(p)) /\ LeavesOwner(c(p)) /\ UpToDate(c(p))
  BY <1>3, Zenon DEF Settled, LeavesOwner, UpToDate, PastOwner, Answering
<1> QED
  BY <1>2, <1>3, <1>4, BeginStep, Zenon

LEMMA EditTopicKeeps ==
    ASSUME IInv, NEW t \in Calls, NEW u \in Users, UpdateTopic(t, u) \/ DeleteTopic(t, u)
    PROVE  IInv'
<1>1. PICK op \in {"update", "delete"} : EditTopic(t, u, op)
  BY Zenon DEF UpdateTopic, DeleteTopic
<1> DEFINE c == [Idle EXCEPT !.pc = "topicGet", !.op = op, !.actor = u, !.topic = topic]
<1>2. topic \in {"active", "deleted"}
  BY <1>1, Zenon DEF EditTopic, IInv, ShapeInv, TypeOK
<1>3. Shape(c) /\ c.pc = "topicGet"
  BY <1>2, Zenon DEF Shape, Idle, CallType, Pcs, Roles, InviteStates, Answering, Removing
<1>4. Begin(t, c) /\ UNCHANGED <<topicVars, memberVars, inviteVars>>
  BY <1>1, Zenon DEF EditTopic
<1> HIDE DEF c
<1>5. Settled(c) /\ LeavesOwner(c) /\ UpToDate(c) /\ c.pc \notin {"owner", "accepted"}
  BY <1>3, Zenon DEF Settled, LeavesOwner, UpToDate, PastOwner, Answering
<1> QED
  BY <1>3, <1>4, <1>5, BeginStep, Zenon

LEMMA EditTopicRoleKeeps ==
    ASSUME IInv, NEW t \in Calls, EditTopicRole(t) \/ RestoreGet(t) PROVE IInv'
<1>0. /\ UNCHANGED <<topicVars, memberVars, inviteVars>>
      /\ call[t].pc \notin {"owner", "accepted"} /\ call[t].pc \in {"topicGet", "restoreGet"}
  BY Zenon DEF EditTopicRole, RestoreGet
<1>1. CASE Return(t, call)
  BY <1>0, <1>1, ReturnStep, Zenon
<1>2. CASE ~Return(t, call)
  <2>1. PICK p \in {"topicDelete", "topicWrite", "restore"} :
          /\ Goto(t, call, p) /\ Created
          /\ p = "topicWrite" => call[t].pc = "topicGet"
    BY <1>2, OwnerMeansCreated, Zenon DEF EditTopicRole, RestoreGet, PastOwner, Pcs
  <2>2. PICK d : d = [call[t] EXCEPT !.pc = p]
    BY Zenon
  <2>3. call[t] \in CallType /\ p \in Pcs /\ Shape(call[t])
    BY Zenon DEF Pcs, IInv, ShapeInv, Shape
  <2>4. d \in CallType /\ d.pc = p /\ d.topic = call[t].topic
    BY <2>2, <2>3, PcSet
  <2>5. Shape(d)
    BY <2>1, <2>3, <2>4, Zenon DEF Shape, Answering
  <2>6. Settled(d) /\ LeavesOwner(d) /\ UpToDate(d) /\ p \notin {"owner", "accepted"}
    BY <2>1, <2>4, Middle, Zenon
  <2> QED
    BY <1>0, <2>1, <2>2, <2>3, <2>5, <2>6, GotoStep, Zenon
<1> QED
  BY <1>1, <1>2, Zenon

LEMMA UnsubscribeKeeps ==
    ASSUME IInv, NEW t \in Calls, NEW u \in Users, Unsubscribe(t, u) PROVE IInv'
<1> DEFINE c(p, b) == [Idle EXCEPT !.pc = p, !.op = "unsubscribe", !.actor = u, !.target = u,
                                   !.behind = b]
<1>1. ASSUME NEW p \in {"count", "remove"}, NEW b \in BOOLEAN
      PROVE  Shape(c(p, b)) /\ c(p, b).pc = p /\ c(p, b).target = u /\ c(p, b).behind = b
  <2>1. p \in Pcs
    BY Zenon DEF Pcs, Removing
  <2>2. c(p, b) \in CallType /\ c(p, b).pc = p /\ c(p, b).target = u /\ c(p, b).behind = b
    BY <2>1, Zenon DEF Idle, CallType, Roles, InviteStates
  <2> QED
    BY <2>2, Zenon DEF Shape, Answering
<1>2. PICK p \in {"count", "remove"} :
        /\ Begin(t, c(p, (p = "remove") /\ IsOwner(u)))
        /\ UNCHANGED <<topicVars, memberVars, inviteVars>>
        /\ p = "count" => IsOwner(u)
  BY Zenon DEF Unsubscribe
<1>3. PICK b \in BOOLEAN : b = ((p = "remove") /\ IsOwner(u))
  BY Zenon
<1>4. PICK d : d = c(p, b)
  BY Zenon
<1>5. Begin(t, d)
  BY <1>2, <1>3, <1>4, Zenon
<1>6. Shape(d) /\ d.pc = p /\ d.target = u /\ d.behind = b /\ p \notin {"owner", "accepted"}
  BY <1>1, <1>4, Zenon
<1>7. p = "count" => Created
  BY <1>2, OwnerMeansCreated, Zenon
<1>8. Settled(d) /\ UpToDate(d)
  BY <1>6, <1>7, Zenon DEF Settled, UpToDate, PastOwner, Answering
<1>9. LeavesOwner(d)
  BY <1>3, <1>6, Zenon DEF LeavesOwner
<1> QED
  BY <1>2, <1>5, <1>6, <1>8, <1>9, BeginStep, Zenon

LEMMA EditMemberKeeps ==
    ASSUME IInv, NEW t \in Calls, NEW u \in Users, NEW v \in Users, NEW r \in Roles,
           NEW op \in {"setRole", "remove"}, EditMember(t, u, v, op, r)
    PROVE  IInv'
<1> DEFINE c == [Idle EXCEPT !.pc = "member", !.op = op, !.actor = u, !.target = v, !.role = r]
<1>1. Shape(c) /\ c.pc = "member"
  BY Zenon DEF Shape, Idle, CallType, Pcs, Roles, InviteStates, Answering, Removing
<1>2. Begin(t, c) /\ UNCHANGED <<topicVars, memberVars, inviteVars>> /\ Created
  BY OwnerMeansCreated, Zenon DEF EditMember
<1> HIDE DEF c
<1>3. Settled(c) /\ LeavesOwner(c) /\ UpToDate(c) /\ c.pc \notin {"owner", "accepted"}
  BY <1>1, <1>2, Middle, Zenon
<1> QED
  BY <1>1, <1>2, <1>3, BeginStep, Zenon

LEMMA EditMemberGetKeeps == ASSUME IInv, NEW t \in Calls, EditMemberGet(t) PROVE IInv'
<1>0. /\ UNCHANGED <<topicVars, memberVars, inviteVars>> /\ call[t].pc = "member"
      /\ call[t].pc \notin {"owner", "accepted"} /\ Created
  BY OwnerMeansCreated, Zenon DEF EditMemberGet, PastOwner, Pcs
<1>1. CASE Return(t, call)
  BY <1>0, <1>1, ReturnStep, Zenon
<1>2. CASE ~Return(t, call)
  <2>1. call \in [Calls -> CallType] /\ call[t] \in CallType /\ Shape(call[t])
    BY Zenon DEF IInv, ShapeInv, TypeOK
  <2>2. call[t].target \in Users
    BY <1>0, <2>1, Zenon DEF Shape
  <2>3. PICK p \in {"count", "remove", "promote", "demote"}, g \in Nat :
          /\ call' = [call EXCEPT ![t].gen = g, ![t].pc = p]
          /\ p = "promote" => call[t].role = "owner"
          /\ p \in {"remove", "demote"} => ~IsOwner(call[t].target)
    <3>1. gen[call[t].target] \in Nat
      BY <2>2, Zenon DEF IInv, ShapeInv, TypeOK
    <3> QED
      BY <1>2, <3>1, Zenon DEF EditMemberGet
  <2>4. PICK d : d = [call[t] EXCEPT !.gen = g, !.pc = p]
    BY Zenon
  <2>5. /\ d \in CallType /\ d.pc = p /\ d.role = call[t].role
        /\ d.target = call[t].target
    BY <2>1, <2>4, Zenon DEF CallType, Pcs, Removing
  <2>6. call'[t] = d /\ \A x \in Calls \ {t} : call'[x] = call[x]
    BY <2>1, <2>3, <2>4
  <2>7. call' \in [Calls -> CallType]
    BY <2>1, <2>3, <2>5, <2>6
  <2>8. Moved(t, d)
    BY <2>1, <2>6, <2>7, SameSelf, Zenon DEF Moved
  <2>9. Shape(d)
    BY <2>2, <2>3, <2>5, Zenon DEF Shape, Answering
  <2>10. Settled(d) /\ LeavesOwner(d) /\ UpToDate(d) /\ d.pc \notin {"owner", "accepted"}
    BY <1>0, <2>3, <2>5, Zenon DEF Settled, LeavesOwner, UpToDate, Answering
  <2> QED
    BY <1>0, <2>8, <2>9, <2>10, QuietStep, Zenon
<1> QED
  BY <1>1, <1>2, Zenon

\* With two owners there is another one than v.
LEMMA AnotherOwner ==
    ASSUME Cardinality(Owners) > 1, NEW v
    PROVE  \E w \in Owners : w # v
<1> SUFFICES ASSUME \A w \in Owners : w = v PROVE FALSE
  BY Zenon
<1>1. Owners = {} \/ Owners = {v}
  BY Zenon
<1>2. Cardinality(Owners) = 0 \/ Cardinality(Owners) = 1
  BY <1>1, FS_EmptySet, FS_Singleton, Zenon
<1> QED
  BY <1>2

LEMMA CountOwnersKeeps == ASSUME IInv, NEW t \in Calls, CountOwners(t) PROVE IInv'
<1>0. /\ UNCHANGED <<topicVars, memberVars, inviteVars>> /\ call[t].pc = "count"
      /\ call[t].pc \notin {"owner", "accepted"} /\ Created
  BY OwnerMeansCreated, Zenon DEF CountOwners, PastOwner, Pcs
<1>1. CASE Return(t, call)
  BY <1>0, <1>1, ReturnStep, Zenon
<1>2. CASE ~Return(t, call)
  <2>1. Cardinality(Owners) > 1
    BY <1>2, Zenon DEF CountOwners
  <2>2. PICK p \in {"demote", "remove"} : Goto(t, call, p)
    BY <1>2, Zenon DEF CountOwners
  <2>3. PICK d : d = [call[t] EXCEPT !.pc = p]
    BY Zenon
  <2>4. call[t] \in CallType /\ p \in Pcs /\ Shape(call[t])
    BY Zenon DEF Pcs, Removing, IInv, ShapeInv, Shape
  <2>5. d \in CallType /\ d.pc = p /\ d.target = call[t].target
    BY <2>3, <2>4, PcSet
  <2>6. Shape(d)
    BY <1>0, <2>4, <2>5, Zenon DEF Shape, Answering
  <2>7. \E w \in Owners : w # d.target
    BY <2>1, AnotherOwner
  <2>8. Settled(d) /\ LeavesOwner(d) /\ UpToDate(d) /\ p \notin {"owner", "accepted"}
    BY <1>0, <2>5, <2>7, Zenon DEF Settled, LeavesOwner, UpToDate, Answering
  <2> QED
    BY <1>0, <2>2, <2>3, <2>4, <2>6, <2>8, GotoStep, Zenon
<1> QED
  BY <1>1, <1>2, Zenon

LEMMA RestoreTopicKeeps ==
    ASSUME IInv, NEW t \in Calls, NEW u \in Users, RestoreTopic(t, u) PROVE IInv'
<1> DEFINE c == [Idle EXCEPT !.pc = "restoreGet", !.actor = u]
<1>1. Shape(c) /\ c.pc = "restoreGet"
  BY Zenon DEF Shape, Idle, CallType, Pcs, Roles, InviteStates, Answering, Removing
<1>2. Begin(t, c) /\ UNCHANGED <<topicVars, memberVars, inviteVars>> /\ Created
  BY OwnerMeansCreated, Zenon DEF RestoreTopic
<1> HIDE DEF c
<1>3. Settled(c) /\ LeavesOwner(c) /\ UpToDate(c) /\ c.pc \notin {"owner", "accepted"}
  BY <1>1, <1>2, Middle, Zenon
<1> QED
  BY <1>1, <1>2, <1>3, BeginStep, Zenon

LEMMA RestoreListKeeps == ASSUME IInv, NEW t \in Calls, RestoreList(t) PROVE IInv'
<1>0. /\ UNCHANGED <<topicVars, memberVars, inviteVars>> /\ call[t].pc = "purgeList"
      /\ call[t].pc \notin {"owner", "accepted"} /\ Created
  BY OwnerMeansCreated, Zenon DEF RestoreList, PastOwner, Pcs
<1>1. call \in [Calls -> CallType] /\ call[t] \in CallType
  BY Zenon DEF IInv, ShapeInv, TypeOK
<1>2. PICK S \in SUBSET Users : S = {u \in Users : IsMember(u) /\ ~IsOwner(u)}
  BY Zenon
<1>3. PICK d : d = [call[t] EXCEPT !.pc = "purge", !.todo = S]
  BY Zenon
<1>4. d \in CallType /\ d.pc = "purge" /\ d.todo = S
  BY <1>1, <1>3, Zenon DEF CallType, Pcs, Removing
<1>5. call' = [call EXCEPT ![t].pc = "purge", ![t].todo = S]
  BY <1>2, Zenon DEF RestoreList
<1>6. call'[t] = d /\ \A x \in Calls \ {t} : call'[x] = call[x]
  BY <1>1, <1>3, <1>5
<1>7. call' \in [Calls -> CallType]
  BY <1>1, <1>4, <1>5, <1>6
<1>8. Moved(t, d)
  BY <1>1, <1>6, <1>7, SameSelf, Zenon DEF Moved
<1>9. Shape(d) /\ Settled(d) /\ UpToDate(d) /\ d.pc \notin {"owner", "accepted"}
  BY <1>0, <1>4, Zenon DEF Shape, Settled, UpToDate, Answering
<1>10. LeavesOwner(d)
  <2>1. blind \/ Owners # {}
    BY <1>0, Zenon DEF IInv, OwnerInv, KeepsOwner, Created
  <2>2. \A w \in Owners : w \notin S
    BY <1>2, Zenon DEF IsOwner
  <2> QED
    BY <1>4, <2>1, <2>2, Zenon DEF LeavesOwner
<1> QED
  BY <1>0, <1>8, <1>9, <1>10, QuietStep, Zenon

LEMMA InviteMemberKeeps ==
    ASSUME IInv, NEW t \in Calls, NEW u \in Users, NEW v \in Users \cup {NoUser}, NEW r \in Roles,
           InviteMember(t, u, v, r)
    PROVE  IInv'
<1> DEFINE c == [Idle EXCEPT !.pc = "invite", !.actor = u, !.target = v, !.role = r]
<1>1. Shape(c) /\ c.pc = "invite"
  BY Zenon DEF Shape, Idle, CallType, Pcs, Roles, InviteStates, Answering, Removing
<1>2. Begin(t, c) /\ UNCHANGED <<topicVars, memberVars, inviteVars>> /\ Created
  BY OwnerMeansCreated, Zenon DEF InviteMember
<1> HIDE DEF c
<1>3. Settled(c) /\ LeavesOwner(c) /\ UpToDate(c) /\ c.pc \notin {"owner", "accepted"}
  BY <1>1, <1>2, Middle, Zenon
<1> QED
  BY <1>1, <1>2, <1>3, BeginStep, Zenon

\* AcceptInvitation, DeclineInvitation and CancelInvitation read a pending one.
LEMMA ReadInvitationKeeps ==
    ASSUME IInv, NEW t \in Calls, NEW u \in Users, NEW i \in Invites,
           AcceptInvitation(t, i, u) \/ DeclineInvitation(t, i, u) \/ CancelInvitation(t, i, u)
    PROVE  IInv'
<1> DEFINE c(p, a) == [Idle EXCEPT !.actor = u, !.inv = i, !.pc = p, !.answer = a]
<1> DEFINE j == [Idle EXCEPT !.actor = u, !.inv = i, !.pc = "join"]
<1>1. ASSUME NEW p \in {"answer", "canceller"}, NEW a \in {"expired", "declined", "cancelled"}
      PROVE  Shape(c(p, a)) /\ c(p, a).pc = p /\ c(p, a).inv = i
  <2>1. p \in Pcs /\ a \in InviteStates
    BY Zenon DEF Pcs, Answering, InviteStates
  <2>2. c(p, a) \in CallType /\ c(p, a).pc = p /\ c(p, a).inv = i /\ c(p, a).answer = a
    BY <2>1, Zenon DEF Idle, CallType, Roles
  <2> QED
    BY <2>2, Zenon DEF Shape, Answering
<1>2. Shape(j) /\ j.pc = "join" /\ j.inv = i
  BY Zenon DEF Shape, Idle, CallType, Pcs, Roles, InviteStates, Answering, Removing
<1>3. inv[i] = "pending" /\ UNCHANGED <<topicVars, memberVars, inviteVars>>
  BY Zenon DEF AcceptInvitation, DeclineInvitation, CancelInvitation
<1>4. \/ Begin(t, j)
      \/ \E p \in {"answer", "canceller"}, a \in {"expired", "declined", "cancelled"} :
            Begin(t, c(p, a))
  <2>1. ASSUME CancelInvitation(t, i, u) PROVE Begin(t, c("answer", "cancelled")) \/ Begin(t, c("canceller", "cancelled"))
    BY <2>1, Zenon DEF CancelInvitation
  <2>2. ASSUME DeclineInvitation(t, i, u) PROVE Begin(t, c("answer", "declined"))
    BY <2>2, Zenon DEF DeclineInvitation
  <2>3. ASSUME AcceptInvitation(t, i, u) PROVE Begin(t, j) \/ Begin(t, c("answer", "expired"))
    BY <2>3, Zenon DEF AcceptInvitation
  <2> QED
    BY <2>1, <2>2, <2>3, Zenon
<1> HIDE DEF c, j
<1>5. PICK d : Begin(t, d) /\ Shape(d) /\ d.pc \in Answering \cup {"canceller"} /\ d.inv = i
  BY <1>1, <1>2, <1>4, Zenon DEF Answering
<1>6. Created
  BY <1>3, OwnerMeansCreated, Zenon
<1>7. Settled(d) /\ LeavesOwner(d) /\ UpToDate(d) /\ d.pc \notin {"owner", "accepted"}
  BY <1>3, <1>5, <1>6, Zenon DEF Settled, LeavesOwner, UpToDate, Answering
<1> QED
  BY <1>3, <1>5, <1>7, BeginStep, Zenon

LEMMA CancelRoleKeeps == ASSUME IInv, NEW t \in Calls, CancelRole(t) PROVE IInv'
<1>0. /\ UNCHANGED <<topicVars, memberVars, inviteVars>> /\ call[t].pc = "canceller"
      /\ call[t].pc \notin {"owner", "accepted"} /\ Created
  BY OwnerMeansCreated, Zenon DEF CancelRole, PastOwner, Pcs
<1>1. CASE Return(t, call)
  BY <1>0, <1>1, ReturnStep, Zenon
<1>2. CASE ~Return(t, call)
  <2>1. Goto(t, call, "answer")
    BY <1>2, Zenon DEF CancelRole
  <2>2. PICK d : d = [call[t] EXCEPT !.pc = "answer"]
    BY Zenon
  <2>3. call[t] \in CallType /\ "answer" \in Pcs /\ Shape(call[t])
    BY Zenon DEF Pcs, Answering, IInv, ShapeInv, Shape
  <2>4. /\ d \in CallType /\ d.pc = "answer" /\ d.inv = call[t].inv
        /\ d.answer = call[t].answer /\ d.behind = call[t].behind
    BY <2>2, <2>3, PcSet
  <2>5. Shape(d)
    BY <1>0, <2>3, <2>4, Zenon DEF Shape, Answering
  <2>6. UpToDate(call[t])
    BY Zenon DEF IInv, AnswerInv
  <2>7. UpToDate(d)
    BY <1>0, <2>4, <2>6, Zenon DEF UpToDate
  <2>8. Settled(d) /\ LeavesOwner(d)
    BY <1>0, <2>4, Zenon DEF Settled, LeavesOwner
  <2> QED
    BY <1>0, <2>1, <2>2, <2>3, <2>5, <2>7, <2>8, GotoStep, Zenon
<1> QED
  BY <1>1, <1>2, Zenon

-----------------------------------------------------------------------------
(* The steps that write a topic *)

LEMMA CreateTopicInsertKeeps == ASSUME IInv, NEW t \in Calls, CreateTopicInsert(t) PROVE IInv'
<1> USE DEF IInv
<1>0. /\ UNCHANGED <<memberVars, inviteVars>> /\ call[t].pc = "insert"
      /\ call[t].pc \notin {"owner", "accepted"}
  BY Zenon DEF CreateTopicInsert
<1>1. CASE Return(t, call) /\ UNCHANGED topic
  BY <1>0, <1>1, ReturnStep, Zenon DEF topicVars
<1>2. CASE topic = "none" /\ topic' = "active" /\ Goto(t, call, "owner")
  <2>1. call \in [Calls -> CallType] /\ call[t] \in CallType /\ Shape(call[t])
    BY Zenon DEF ShapeInv, TypeOK
  <2>2. PICK d : d = [call[t] EXCEPT !.pc = "owner"]
    BY Zenon
  <2>3. "owner" \in Pcs
    BY Zenon DEF Pcs
  <2>4. d \in CallType /\ d.pc = "owner" /\ d.actor = call[t].actor
    BY <2>1, <2>2, <2>3, PcSet
  <2>5. Moved(t, d)
    BY <1>2, <2>1, <2>2, <2>3, SameSelf, GotoMoves, Zenon
  <2>6. Shape(d) /\ UpToDate(d)
    BY <1>0, <2>1, <2>4, Zenon DEF Shape, UpToDate, Answering
  <2>7. ShapeInv'
    <3>1. RestTyped'
      BY <1>0, <1>2, Zenon DEF RestTyped, ShapeInv, TypeOK, memberVars, inviteVars
    <3> QED
      BY <2>5, <2>6, <3>1, ShapeFrame, Zenon
  <2>8. AnswerInv'
    <3>1. UNCHANGED <<inv, contested, joined>> /\ d.pc # "accepted" /\ call[t].pc # "accepted"
      BY <1>0, <2>4, Zenon DEF inviteVars
    <3> QED
      BY <2>5, <2>6, <3>1, AnswerQuiet, Zenon
  <2>9. OwnerInv'
    <3>1. ~Created
      BY <1>2, Zenon DEF Created
    <3>2. /\ Owners = {} /\ \A i \in Invites : inv[i] = "none"
          /\ \A x \in Calls : call[x].pc \notin PastOwner /\ call[x].pc # "owner"
      BY <1>2, <3>1, Zenon DEF OwnerInv, Settled
    <3>3. Owners' = {} /\ \A i \in Invites : inv'[i] = "none"
      BY <1>0, <3>2, Zenon DEF Owners, memberVars, inviteVars
    <3>4. call'[t].pc = "owner" /\ \A x \in Calls \ {t} : call'[x].pc = call[x].pc
      BY <2>4, <2>5, Zenon DEF Moved, SameCall
    <3>5. \A x \in Calls : call'[x].pc \notin PastOwner
      BY <3>2, <3>4, Zenon DEF PastOwner
    <3>6. ASSUME NEW x \in Calls PROVE Settled(call[x])' /\ LeavesOwner(call[x])'
      <4>1. call'[x].pc # "purge"
        BY <3>5, Zenon DEF PastOwner, Pcs, Removing
      <4> QED
        BY <1>2, <3>3, <3>5, <4>1, Zenon DEF Settled, LeavesOwner, IsOwner
    <3>7. \A y, x \in Calls : call'[y].pc = "owner" /\ call'[x].pc = "owner" => y = x
      BY <3>2, <3>4, Zenon
    <3>8. KeepsOwner'
      BY <3>4, Zenon DEF KeepsOwner
    <3> QED
      BY <3>3, <3>6, <3>7, <3>8, Zenon DEF OwnerInv
  <2> QED
    BY <2>7, <2>8, <2>9, Zenon
<1> QED
  BY <1>1, <1>2, Zenon DEF CreateTopicInsert

\* UpdateTopicWrite, DeleteTopicWrite and RestoreWrite leave a topic.
LEMMA TopicWriteKeeps ==
    ASSUME IInv, NEW t \in Calls, UpdateTopicWrite(t) \/ DeleteTopicWrite(t) \/ RestoreWrite(t)
    PROVE  IInv'
<1> USE DEF IInv
<1>0. /\ UNCHANGED <<memberVars, inviteVars>>
      /\ call[t].pc \in {"topicWrite", "topicDelete", "restore"}
  BY Zenon DEF UpdateTopicWrite, DeleteTopicWrite, RestoreWrite
<1>1. call \in [Calls -> CallType] /\ call[t] \in CallType /\ Shape(call[t]) /\ Created
  BY <1>0, OwnerMeansCreated, Zenon DEF ShapeInv, TypeOK, PastOwner, Pcs
<1>2. topic # "none" /\ topic' \in {"active", "deleted"}
  <2>1. topic \in {"active", "deleted"}
    BY <1>1, Zenon DEF Created, ShapeInv, TypeOK
  <2>2. call[t].pc = "topicWrite" => call[t].topic \in {"active", "deleted"}
    <3>1. call[t].topic \in {"none", "active", "deleted"}
      BY <1>1 DEF CallType
    <3> QED
      BY <1>1, <3>1, Zenon DEF Shape
  <2> QED
    BY <2>1, <2>2, Zenon DEF UpdateTopicWrite, DeleteTopicWrite, RestoreWrite
<1>3. PICK d : /\ Moved(t, d) /\ Shape(d) /\ UpToDate(d) /\ Settled(d) /\ LeavesOwner(d)
               /\ d.pc \notin {"owner", "accepted"}
  <2>1. CASE Return(t, call)
    BY <1>1, <2>1, SameSelf, ReturnMoves, DoneFits, IdleType, Zenon
  <2>2. CASE Goto(t, call, "purgeList")
    <3>1. "purgeList" \in Pcs
      BY Zenon DEF Pcs
    <3>2. PICK d : d = [call[t] EXCEPT !.pc = "purgeList"]
      BY Zenon
    <3>3. d \in CallType /\ d.pc = "purgeList"
      BY <1>1, <3>1, <3>2, PcSet
    <3>4. Moved(t, d)
      BY <1>1, <2>2, <3>1, <3>2, SameSelf, GotoMoves, Zenon
    <3>5. Shape(d)
      BY <3>3, Zenon DEF Shape, Answering
    <3> QED
      BY <1>1, <3>3, <3>4, <3>5, Middle, Zenon
  <2> QED
    BY <2>1, <2>2, Zenon DEF UpdateTopicWrite, DeleteTopicWrite, RestoreWrite
<1>4. ShapeInv'
  <2>1. RestTyped'
    BY <1>0, <1>2, Zenon DEF RestTyped, ShapeInv, TypeOK, memberVars, inviteVars
  <2> QED
    BY <1>3, <2>1, ShapeFrame, Zenon
<1>5. OwnerInv'
  <2>1. Owners' = Owners /\ blind' = blind /\ inv' = inv
    BY <1>0, Zenon DEF Owners, memberVars, inviteVars
  <2>2. call[t].pc # "owner" /\ ((topic = "none") <=> (topic' = "none"))
    BY <1>0, <1>2, Zenon
  <2> QED
    BY <1>1, <1>3, <2>1, <2>2, OwnerQuiet, Zenon
<1>6. AnswerInv'
  <2>1. UNCHANGED <<inv, contested, joined>> /\ call[t].pc # "accepted"
    BY <1>0, Zenon DEF inviteVars
  <2> QED
    BY <1>3, <2>1, AnswerQuiet, Zenon
<1> QED
  BY <1>4, <1>5, <1>6, Zenon

-----------------------------------------------------------------------------
(* The steps that write a member *)

LEMMA CreateTyped ==
    ASSUME ShapeInv, NEW u \in Users, NEW r \in Roles, Create(u, r)
    PROVE  /\ role' \in [Users -> Roles \cup {"none"}] /\ gen' \in [Users -> Nat]
           /\ role[u] = "none" /\ role'[u] = r /\ \A w \in Users \ {u} : role'[w] = role[w]
<1>1. role \in [Users -> Roles \cup {"none"}] /\ gen \in [Users -> Nat]
  BY Zenon DEF ShapeInv, TypeOK
<1>2. gen' \in [Users -> Nat]
  BY <1>1 DEF Create
<1> QED
  BY <1>1, <1>2, Zenon DEF Create, IsMember

LEMMA CreateTopicOwnerKeeps == ASSUME IInv, NEW t \in Calls, CreateTopicOwner(t) PROVE IInv'
<1> USE DEF IInv
<1>1. call \in [Calls -> CallType] /\ Shape(call[t]) /\ call[t].pc = "owner"
  BY Zenon DEF ShapeInv, TypeOK, CreateTopicOwner
<1>2. PICK u \in Users : u = call[t].actor
  BY <1>1, Zenon DEF Shape
<1>3. /\ Unsettled(u, t) \in [Calls -> CallType]
      /\ \A x \in Calls : SameCall(Unsettled(u, t)[x], call[x])
      /\ \A x \in Calls \ {t} : call[x].pc \in Removing /\ Hit(u, x) => Unsettled(u, t)[x].behind
  BY <1>1, UnsettledMarks, Zenon
<1>4. Return(t, Unsettled(u, t)) /\ UNCHANGED <<topicVars, inviteVars>>
  BY <1>2, Zenon DEF CreateTopicOwner
<1> HIDE DEF Unsettled
<1>5. Moved(t, Done) /\ \A x \in Calls \ {t} : call'[x] = Unsettled(u, t)[x]
  BY <1>3, <1>4, ReturnMoves, Zenon
<1>6. /\ role' \in [Users -> Roles \cup {"none"}] /\ gen' \in [Users -> Nat] /\ blind' \in BOOLEAN
      /\ \A w \in Users \ {u} : role'[w] = role[w]
      /\ blind => blind'
      /\ blind' \/ role'[u] = "owner"
  <2>1. CASE Create(u, "owner") /\ UNCHANGED blind
    <3>1. "owner" \in Roles
      BY Zenon DEF Roles
    <3> QED
      BY <2>1, <3>1, CreateTyped, Zenon DEF ShapeInv, TypeOK
  <2>2. CASE blind' = TRUE /\ UNCHANGED <<role, gen>>
    BY <2>2, Zenon DEF ShapeInv, TypeOK
  <2> QED
    BY <1>2, <2>1, <2>2, Zenon DEF CreateTopicOwner
<1>7. ShapeInv'
  <2>1. RestTyped'
    BY <1>4, <1>6, Zenon DEF RestTyped, ShapeInv, TypeOK, topicVars, inviteVars
  <2> QED
    BY <1>5, <2>1, DoneFits, ShapeFrame, Zenon
<1>8. OwnerInv'
  <2>1. ~Created /\ topic # "none" /\ \A x \in Calls \ {t} : call[x].pc # "owner"
    BY <1>1, Zenon DEF OwnerInv, Created, Settled
  <2>2. Owners = {} /\ (\A i \in Invites : inv[i] = "none")
    BY <2>1, Zenon DEF OwnerInv
  <2>3. Owners' \subseteq {u} /\ (blind' \/ Owners' = {u})
    <3>1. \A w \in Users : role[w] # "owner"
      BY <2>2, Zenon DEF Owners
    <3>2. \A w \in Users : role'[w] = "owner" => w = u
      BY <1>6, <3>1, Zenon
    <3>3. Owners' \subseteq {u} /\ (role'[u] = "owner" => u \in Owners')
      BY <1>2, <3>2, Zenon DEF Owners
    <3> QED
      BY <1>6, <3>3, Zenon
  <2>4. topic' = topic /\ inv' = inv
    BY <1>4, Zenon DEF topicVars, inviteVars
  <2>5. ASSUME NEW x \in Calls \ {t}, call[x].pc \in Removing
        PROVE  \/ call'[x].behind \/ blind'
               \/ /\ Owners \subseteq Owners'
                  /\ call[x].target \in Owners' => call[x].target \in Owners \/ Owners # {}
    <3>1. role[u] # "owner"
      BY <2>2, Zenon DEF Owners
    <3>2. CASE blind'
      BY <3>2, Zenon
    <3>3. CASE ~blind' /\ call[x].target = u
      BY <1>3, <1>5, <1>6, <2>5, <3>1, <3>3, Zenon DEF Hit
    <3>4. CASE call[x].target # u
      BY <2>2, <2>3, <3>4, Zenon
    <3> QED
      BY <3>2, <3>3, <3>4, Zenon
  <2>6. Created'
    <3>1. \A x \in Calls \ {t} : call'[x].pc = call[x].pc
      BY <1>5, Zenon DEF Moved, SameCall
    <3>2. call'[t].pc = "done"
      BY <1>5, IdleType, Zenon DEF Moved
    <3> QED
      BY <2>1, <2>4, <3>1, <3>2, Zenon DEF Created
  <2>7. KeepsOwner'
    BY <2>3, Zenon DEF KeepsOwner
  <2>8. LeavesOwner(call[t])'
    <3>1. call'[t].pc = "done"
      BY <1>5, IdleType, Zenon DEF Moved
    <3> QED
      BY <3>1, Zenon DEF LeavesOwner
  <2>9. Done.pc # "owner" /\ (Done.pc \in PastOwner => Created)
    BY IdleType, Zenon DEF PastOwner
  <2> QED
    BY <1>5, <1>6, <2>4, <2>5, <2>6, <2>7, <2>8, <2>9, OwnerFrame, Zenon
<1>9. AnswerInv'
  <2>1. UNCHANGED <<inv, contested, joined>> /\ call[t].pc # "accepted" /\ Done.pc # "accepted"
    BY <1>1, <1>4, IdleType, Zenon DEF inviteVars
  <2> QED
    BY <1>5, <2>1, DoneFits, AnswerQuiet, Zenon
<1> QED
  BY <1>7, <1>8, <1>9, Zenon

LEMMA SubscribeCreateKeeps == ASSUME IInv, NEW t \in Calls, SubscribeCreate(t) PROVE IInv'
<1> USE DEF IInv
<1>1. call \in [Calls -> CallType] /\ Shape(call[t]) /\ call[t].pc = "subscribe"
  BY Zenon DEF ShapeInv, TypeOK, SubscribeCreate
<1>2. PICK u \in Users : u = call[t].actor
  BY <1>1, Zenon DEF Shape
<1>3. Return(t, call) /\ UNCHANGED <<topicVars, blind, inviteVars>>
  BY Zenon DEF SubscribeCreate
<1>4. Moved(t, Done)
  BY <1>1, <1>3, SameSelf, ReturnMoves, Zenon
<1>5. /\ role' \in [Users -> Roles \cup {"none"}] /\ gen' \in [Users -> Nat]
      /\ Owners' = Owners
  <2>1. CASE Create(u, "viewer")
    <3>1. "viewer" \in Roles
      BY Zenon DEF Roles
    <3>2. /\ role' \in [Users -> Roles \cup {"none"}] /\ gen' \in [Users -> Nat]
          /\ role[u] = "none" /\ role'[u] = "viewer" /\ \A w \in Users \ {u} : role'[w] = role[w]
      BY <2>1, <3>1, CreateTyped, Zenon
    <3>3. \A w \in Users : role'[w] = "owner" <=> role[w] = "owner"
      BY <3>2, Zenon
    <3> QED
      BY <3>2, <3>3, Zenon DEF Owners
  <2>2. CASE UNCHANGED <<role, gen>>
    BY <2>2, Zenon DEF ShapeInv, TypeOK, Owners
  <2> QED
    BY <1>2, <2>1, <2>2, Zenon DEF SubscribeCreate
<1>6. ShapeInv'
  <2>1. RestTyped'
    BY <1>3, <1>5, Zenon DEF RestTyped, ShapeInv, TypeOK, topicVars, inviteVars
  <2> QED
    BY <1>4, <2>1, DoneFits, ShapeFrame, Zenon
<1>7. OwnerInv'
  <2>1. topic' = topic /\ blind' = blind /\ call[t].pc # "owner" /\ Done.pc # "owner"
    BY <1>1, <1>3, IdleType, Zenon DEF topicVars
  <2>2. (\E i \in Invites : inv'[i] # "none") => Created
    BY <1>3, Zenon DEF OwnerInv, inviteVars
  <2> QED
    BY <1>4, <1>5, <2>1, <2>2, DoneFits, OwnerQuiet, Zenon
<1>8. AnswerInv'
  <2>1. UNCHANGED <<inv, contested, joined>> /\ call[t].pc # "accepted" /\ Done.pc # "accepted"
    BY <1>1, <1>3, IdleType, Zenon DEF inviteVars
  <2> QED
    BY <1>4, <2>1, DoneFits, AnswerQuiet, Zenon
<1> QED
  BY <1>6, <1>7, <1>8, Zenon

\* A step that changes the role of v and tells the others.
LEMMA RoleFrame ==
    ASSUME OwnerInv, NEW t \in Calls, NEW d, Moved(t, d), NEW v \in Users,
           \A w \in Users \ {v} : role'[w] = role[w],
           \A x \in Calls \ {t} : call[x].pc \in Removing /\ Hit(v, x) => call'[x].behind,
           UNCHANGED <<topic, inv>>, blind => blind',
           call[t].pc # "owner", d.pc # "owner", d.pc \in PastOwner => Created,
           LeavesOwner(call[t])',
           Created \/ Owners' \subseteq Owners,
           v \in Owners /\ v \notin Owners' => blind' \/ \E w \in Owners : w # v
    PROVE  OwnerInv'
<1>1. \A w : w # v => (w \in Owners' <=> w \in Owners)
  BY Zenon DEF Owners
<1>2. v \in Owners => Owners \subseteq Owners' \/ v \notin Owners'
  BY <1>1, Zenon
<1>3. ASSUME NEW x \in Calls \ {t}, call[x].pc \in Removing
      PROVE  \/ call'[x].behind \/ blind'
             \/ /\ Owners \subseteq Owners'
                /\ call[x].target \in Owners' => call[x].target \in Owners \/ Owners # {}
  <2>1. CASE Hit(v, x)
    BY <1>3, <2>1, Zenon
  <2>2. CASE ~Hit(v, x)
    <3>1. /\ v \in Owners => v \in Owners'
          /\ v \notin Owners /\ v \in Owners' => call[x].target # v
      BY <2>2, Zenon DEF Hit, Owners
    <3> QED
      BY <1>1, <3>1, Zenon
  <2> QED
    BY <2>1, <2>2, Zenon
<1>4. Created <=> Created'
  <2>1. call'[t].pc = d.pc /\ \A x \in Calls \ {t} : call'[x].pc = call[x].pc
    BY Zenon DEF Moved, SameCall
  <2> QED
    BY <2>1, Zenon DEF Created
<1>5. KeepsOwner'
  <2>1. Created => blind \/ Owners # {}
    BY Zenon DEF OwnerInv, KeepsOwner, Created
  <2>2. Created => blind' \/ Owners' # {}
    BY <1>1, <2>1, Zenon
  <2> QED
    BY <1>4, <2>2, Zenon DEF KeepsOwner, Created
<1>6. Owners' # {} \/ (\E i \in Invites : inv'[i] # "none") => Created'
  <2>1. Owners # {} \/ (\E i \in Invites : inv[i] # "none") => Created
    BY Zenon DEF OwnerInv
  <2> QED
    BY <1>4, <2>1, Zenon
<1> QED
  BY <1>3, <1>5, <1>6, OwnerFrame, Zenon

LEMMA UpdateTyped ==
    ASSUME ShapeInv, NEW v \in Users, NEW r \in Roles \cup {"none"},
           role' = [role EXCEPT ![v] = r] \/ role' = role
    PROVE  /\ role' \in [Users -> Roles \cup {"none"}]
           /\ \A w \in Users \ {v} : role'[w] = role[w]
           /\ role'[v] = r \/ role'[v] = role[v]
<1>1. role \in [Users -> Roles \cup {"none"}]
  BY Zenon DEF ShapeInv, TypeOK
<1> QED
  BY <1>1, Zenon

\* SetRole and Remove
LEMMA EditMemberWriteKeeps ==
    ASSUME IInv, NEW t \in Calls, SetRole(t) \/ Remove(t)
    PROVE  IInv'
<1> USE DEF IInv
<1>1. /\ call \in [Calls -> CallType] /\ call[t] \in CallType /\ Shape(call[t])
      /\ call[t].pc \in {"promote", "demote", "remove"}
  BY Zenon DEF ShapeInv, TypeOK, SetRole, Remove
<1>2. PICK v \in Users : v = call[t].target
  BY <1>1, Zenon DEF Shape
<1>3. /\ Unsettled(v, t) \in [Calls -> CallType]
      /\ \A x \in Calls : SameCall(Unsettled(v, t)[x], call[x])
      /\ \A x \in Calls \ {t} : call[x].pc \in Removing /\ Hit(v, x) => Unsettled(v, t)[x].behind
  BY <1>1, UnsettledMarks, Zenon
<1>4. Return(t, Unsettled(v, t)) /\ UNCHANGED <<topicVars, gen, inviteVars>>
  BY <1>2, Zenon DEF SetRole, Remove, Update, Delete
<1> HIDE DEF Unsettled
<1>5. Moved(t, Done) /\ \A x \in Calls \ {t} : call'[x] = Unsettled(v, t)[x]
  BY <1>3, <1>4, ReturnMoves, Zenon
<1>6. PICK r \in Roles \cup {"none"} :
        /\ role' = [role EXCEPT ![v] = r] \/ role' = role
        /\ call[t].pc = "promote" => r = "owner"
  <2>1. call[t].role \in Roles
    BY <1>1 DEF CallType
  <2> QED
    BY <1>1, <1>2, <2>1, Zenon DEF SetRole, Remove, Update, Delete, Shape
<1>7. /\ role' \in [Users -> Roles \cup {"none"}]
      /\ \A w \in Users \ {v} : role'[w] = role[w]
      /\ role'[v] = r \/ role'[v] = role[v]
  BY <1>6, UpdateTyped, Zenon
<1>8. blind' = (blind \/ (call[t].behind /\ v \in Owners /\ v \notin Owners'))
  <2>1. v \in Owners' <=> role'[v] = "owner"
    BY Zenon DEF Owners
  <2>2. CASE SetRole(t)
    BY <1>2, <2>1, <2>2, Zenon DEF SetRole, IsOwner
  <2>3. CASE Remove(t)
    <3>1. role \in [Users -> Roles \cup {"none"}]
      BY Zenon DEF ShapeInv, TypeOK
    <3>2. role'[v] # "owner"
      BY <1>2, <2>3, <3>1, Zenon DEF Remove, Delete
    <3> QED
      BY <1>2, <2>1, <2>3, <3>2, Zenon DEF Remove, IsOwner
  <2> QED
    BY <2>2, <2>3, Zenon
<1>9. ShapeInv'
  <2>1. blind' \in BOOLEAN
    BY <1>8, Zenon
  <2>2. RestTyped'
    BY <1>4, <1>7, <2>1, Zenon DEF RestTyped, ShapeInv, TypeOK, topicVars, inviteVars
  <2> QED
    BY <1>5, <2>2, DoneFits, ShapeFrame, Zenon
<1>10. OwnerInv'
  <2>1. UNCHANGED <<topic, inv>> /\ (blind => blind')
    BY <1>4, <1>8, Zenon DEF topicVars, inviteVars
  <2>2. call'[t].pc = "done"
    BY <1>5, IdleType, Zenon DEF Moved
  <2>3. LeavesOwner(call[t])'
    BY <2>2, Zenon DEF LeavesOwner
  <2>4. call[t].pc # "owner" /\ Done.pc # "owner" /\ (Done.pc \in PastOwner => Created)
    BY <1>1, IdleType, Zenon DEF PastOwner
  <2>5. \A x \in Calls \ {t} : call[x].pc \in Removing /\ Hit(v, x) => call'[x].behind
    BY <1>3, <1>5, Zenon
  <2>6. Created \/ Owners' \subseteq Owners
    <3>1. CASE call[t].pc \in PastOwner
      BY <3>1, OwnerMeansCreated, Zenon
    <3>2. CASE call[t].pc = "remove"
      <4>1. role' = [role EXCEPT ![v] = "none"]
        BY <1>2, <3>2, Zenon DEF SetRole, Remove, Delete
      <4>2. role \in [Users -> Roles \cup {"none"}]
        BY Zenon DEF ShapeInv, TypeOK
      <4>3. role'[v] = "none"
        BY <4>1, <4>2, Zenon
      <4> QED
        BY <1>7, <4>3, Zenon DEF Owners
    <3> QED
      BY <1>1, <3>1, <3>2, Zenon DEF PastOwner, Pcs, Removing
  <2>7. v \in Owners /\ v \notin Owners' => blind' \/ \E w \in Owners : w # v
    <3> SUFFICES ASSUME v \in Owners, v \notin Owners', ~blind'
                 PROVE  \E w \in Owners : w # v
      BY Zenon
    <3>1. ~call[t].behind /\ ~blind
      BY <1>8, Zenon
    <3>2. call[t].pc \in {"demote", "remove"}
      <4>1. role'[v] # "owner" /\ role[v] = "owner"
        BY Zenon DEF Owners
      <4> QED
        BY <1>1, <1>6, <1>7, <4>1, Zenon
    <3>3. LeavesOwner(call[t])
      BY Zenon DEF OwnerInv
    <3> QED
      BY <1>2, <3>1, <3>2, <3>3, Zenon DEF LeavesOwner, IsOwner
  <2> QED
    BY <1>5, <1>7, <2>1, <2>3, <2>4, <2>5, <2>6, <2>7, RoleFrame, Zenon
<1>11. AnswerInv'
  <2>1. UNCHANGED <<inv, contested, joined>> /\ call[t].pc # "accepted" /\ Done.pc # "accepted"
    BY <1>1, <1>4, IdleType, Zenon DEF inviteVars
  <2> QED
    BY <1>5, <2>1, DoneFits, AnswerQuiet, Zenon
<1> QED
  BY <1>9, <1>10, <1>11, Zenon

\* The fields of a purge that has dealt with v.
LEMMA TodoSet ==
    ASSUME NEW c \in CallType, NEW v, NEW d, d = [c EXCEPT !.todo = @ \ {v}]
    PROVE  d \in CallType /\ d.pc = c.pc /\ d.todo = c.todo \ {v} /\ d.behind = c.behind
  BY DEF CallType

LEMMA PurgeShape ==
    ASSUME NEW d \in CallType, d.pc = "purge"
    PROVE  Shape(d) /\ UpToDate(d)
  BY Zenon DEF Shape, UpToDate, Answering

LEMMA RestorePurgeKeeps == ASSUME IInv, NEW t \in Calls, RestorePurge(t) PROVE IInv'
<1> USE DEF IInv
<1>1. /\ call \in [Calls -> CallType] /\ call[t] \in CallType /\ Shape(call[t])
      /\ call[t].pc = "purge" /\ call[t].todo \in SUBSET Users
  <2>1. call \in [Calls -> CallType] /\ call[t] \in CallType /\ Shape(call[t])
    BY Zenon DEF ShapeInv, TypeOK
  <2>2. call[t].todo \in SUBSET Users
    BY <2>1 DEF CallType
  <2> QED
    BY <2>1, <2>2, Zenon DEF RestorePurge
<1>2. UNCHANGED <<topicVars, inviteVars>> /\ Created /\ call[t].pc \notin {"owner", "accepted"}
  BY <1>1, OwnerMeansCreated, Zenon DEF RestorePurge, PastOwner, Pcs, Removing
<1>3. CASE Return(t, call) /\ UNCHANGED memberVars
  BY <1>2, <1>3, ReturnStep, Zenon
<1>4. ASSUME NEW v \in call[t].todo, call' = [call EXCEPT ![t].todo = @ \ {v}],
             UNCHANGED memberVars
      PROVE  IInv'
  <2>1. PICK d : d = [call[t] EXCEPT !.todo = @ \ {v}]
    BY Zenon
  <2>2. d \in CallType /\ d.pc = "purge" /\ d.todo = call[t].todo \ {v} /\ d.behind = call[t].behind
    BY <1>1, <2>1, TodoSet
  <2>3. call'[t] = d /\ call' \in [Calls -> CallType] /\ \A x \in Calls \ {t} : call'[x] = call[x]
    BY <1>1, <1>4, <2>1, <2>2, Zenon
  <2>4. Moved(t, d)
    BY <1>1, <2>3, SameSelf, Zenon DEF Moved
  <2>5. LeavesOwner(call[t])
    BY Zenon DEF OwnerInv
  <2>6. LeavesOwner(d)
    BY <1>1, <2>2, <2>5, Zenon DEF LeavesOwner
  <2>7. Settled(d) /\ d.pc \notin {"owner", "accepted"}
    BY <1>2, <2>2, Zenon DEF Settled
  <2> QED
    BY <1>2, <1>4, <2>2, <2>4, <2>6, <2>7, PurgeShape, QuietStep, Zenon
<1>5. ASSUME NEW v \in call[t].todo, Delete(v),
             blind' = (blind \/ (call[t].behind /\ IsOwner(v))),
             call' = [Unsettled(v, t) EXCEPT ![t].todo = @ \ {v}]
      PROVE  IInv'
  <2>1. /\ Unsettled(v, t) \in [Calls -> CallType]
        /\ \A x \in Calls : SameCall(Unsettled(v, t)[x], call[x])
        /\ \A x \in Calls \ {t} : call[x].pc \in Removing /\ Hit(v, x) => Unsettled(v, t)[x].behind
    BY <1>1, UnsettledMarks, Zenon
  <2>2. Unsettled(v, t)[t] = call[t]
    BY Zenon DEF Unsettled
  <2> HIDE DEF Unsettled
  <2>3. PICK d : d = [call[t] EXCEPT !.todo = @ \ {v}]
    BY Zenon
  <2>4. d \in CallType /\ d.pc = "purge" /\ d.todo = call[t].todo \ {v} /\ d.behind = call[t].behind
    BY <1>1, <2>3, TodoSet
  <2>5. /\ call'[t] = d /\ call' \in [Calls -> CallType]
        /\ \A x \in Calls \ {t} : call'[x] = Unsettled(v, t)[x]
    BY <1>5, <2>1, <2>2, <2>3, <2>4, Zenon
  <2>6. Moved(t, d)
    BY <2>1, <2>5, Zenon DEF Moved
  <2>7. /\ v \in Users /\ role' \in [Users -> Roles \cup {"none"}]
        /\ \A w \in Users \ {v} : role'[w] = role[w]
        /\ role'[v] = "none" /\ gen' = gen
    <3>1. v \in Users /\ role \in [Users -> Roles \cup {"none"}]
      BY <1>1, <1>5, Zenon DEF ShapeInv, TypeOK
    <3> QED
      BY <1>5, <3>1, Zenon DEF Delete
  <2>8. ShapeInv'
    <3>1. RestTyped'
      BY <1>2, <1>5, <2>7, Zenon DEF RestTyped, ShapeInv, TypeOK, topicVars, inviteVars
    <3> QED
      BY <2>4, <2>6, <3>1, PurgeShape, ShapeFrame, Zenon
  <2>9. OwnerInv'
    <3>1. UNCHANGED <<topic, inv>> /\ (blind => blind')
      BY <1>2, <1>5, Zenon DEF topicVars, inviteVars
    <3>2. \A x \in Calls \ {t} : call[x].pc \in Removing /\ Hit(v, x) => call'[x].behind
      BY <2>1, <2>5, Zenon
    <3>3. \A w : w # v => (w \in Owners' <=> w \in Owners)
      BY <2>7, Zenon DEF Owners
    <3>4. ~call[t].behind /\ ~blind => \E w \in Owners : w \notin call[t].todo
      BY <1>1, Zenon DEF OwnerInv, LeavesOwner
    <3>5. LeavesOwner(call[t])'
      <4> SUFFICES ASSUME ~call'[t].behind, ~blind'
                   PROVE  \E w \in Owners' : w \notin call'[t].todo
        BY <2>4, <2>5, Zenon DEF LeavesOwner
      <4>1. PICK w \in Owners : w \notin call[t].todo
        BY <1>5, <2>4, <2>5, <3>4, Zenon
      <4> QED
        BY <1>5, <2>4, <2>5, <3>3, <4>1, Zenon
    <3>6. v \in Owners /\ v \notin Owners' => blind' \/ \E w \in Owners : w # v
      BY <1>5, <3>4, Zenon DEF IsOwner
    <3>7. d.pc # "owner" /\ call[t].pc # "owner"
      BY <1>1, <2>4, Zenon
    <3> QED
      BY <1>2, <2>6, <2>7, <3>1, <3>2, <3>5, <3>6, <3>7, RoleFrame, Zenon
  <2>10. AnswerInv'
    <3>1. UNCHANGED <<inv, contested, joined>> /\ call[t].pc # "accepted" /\ d.pc # "accepted"
      BY <1>1, <1>2, <2>4, Zenon DEF inviteVars
    <3> QED
      BY <2>4, <2>6, <3>1, PurgeShape, AnswerQuiet, Zenon
  <2> QED
    BY <2>8, <2>9, <2>10, Zenon
<1> QED
  BY <1>3, <1>4, <1>5, Zenon DEF RestorePurge

-----------------------------------------------------------------------------
(* The steps that write an invitation *)

\* UpToDate of a call that is at an end.
LEMMA DoneUpToDate ==
    ASSUME NEW t \in Calls, Moved(t, Done)
    PROVE  UpToDate(call[t])' /\ LeavesOwner(call[t])' /\ call'[t].pc = "done"
<1>1. call'[t].pc = "done"
  BY IdleType, Zenon DEF Moved
<1> QED
  BY <1>1, Zenon DEF UpToDate, LeavesOwner, Answering

\* A call that is not in the middle of an acceptance returns.
LEMMA SameAccepts ==
    ASSUME NEW t \in Calls, Moved(t, Done), NEW i
    PROVE  /\ \A x \in Calls \ {t} : Accepts(x, i)' <=> Accepts(x, i)
           /\ ~Accepts(t, i)'
<1>1. call'[t].pc = "done"
  BY IdleType, Zenon DEF Moved
<1> QED
  BY <1>1, Zenon DEF Accepts, Moved, SameCall

LEMMA AcceptJoinKeeps == ASSUME IInv, NEW t \in Calls, AcceptJoin(t) PROVE IInv'
<1> USE DEF IInv
<1>1. /\ call \in [Calls -> CallType] /\ call[t] \in CallType /\ Shape(call[t])
      /\ call[t].pc = "join"
  BY Zenon DEF ShapeInv, TypeOK, AcceptJoin
<1>2. PICK u \in Users, i \in Invites : u = call[t].actor /\ i = call[t].inv
  BY <1>1, Zenon DEF Shape, Answering
<1>3. UNCHANGED <<topicVars, blind, inv, due, invitee, inviter, offer>> /\ Created
  BY <1>1, OwnerMeansCreated, Zenon DEF AcceptJoin, PastOwner, Pcs, Answering
<1>4. CASE Return(t, call) /\ UNCHANGED <<role, gen, contested, joined>>
  <2>1. UNCHANGED <<topicVars, memberVars, inviteVars>> /\ call[t].pc \notin {"owner", "accepted"}
    BY <1>1, <1>3, <1>4, Zenon DEF memberVars, inviteVars
  <2> QED
    BY <1>4, <2>1, ReturnStep, Zenon
<1>5. CASE /\ Create(u, offer[i])
           /\ joined' = [joined EXCEPT ![i] = @ \cup {u}]
           /\ contested' = IF Overlapped(t, i) THEN contested \cup {i} ELSE contested
           /\ Goto(t, call, "accepted")
  <2>1. PICK d : d = [call[t] EXCEPT !.pc = "accepted"]
    BY Zenon
  <2>2. "accepted" \in Pcs
    BY Zenon DEF Pcs
  <2>3. d \in CallType /\ d.pc = "accepted" /\ d.inv = i
    BY <1>1, <1>2, <2>1, <2>2, PcSet
  <2>4. Moved(t, d)
    BY <1>1, <1>5, <2>1, <2>2, SameSelf, GotoMoves, Zenon
  <2>5. Shape(d)
    BY <2>3, Zenon DEF Shape, Answering
  <2>6. offer[i] \in Roles
    BY Zenon DEF ShapeInv, TypeOK
  <2>7. /\ role' \in [Users -> Roles \cup {"none"}] /\ gen' \in [Users -> Nat]
        /\ role[u] = "none" /\ \A w \in Users \ {u} : role'[w] = role[w]
    BY <1>5, <2>6, CreateTyped, Zenon
  <2>8. /\ joined \in [Invites -> SUBSET Users] /\ joined' \in [Invites -> SUBSET Users]
        /\ joined'[i] = joined[i] \cup {u}
        /\ \A j \in Invites \ {i} : joined'[j] = joined[j]
        /\ contested' \subseteq Invites
        /\ \A j \in Invites \ {i} : j \in contested' <=> j \in contested
    <3>1. joined \in [Invites -> SUBSET Users] /\ contested \subseteq Invites
      BY Zenon DEF ShapeInv, TypeOK
    <3>2. joined[i] \cup {u} \in SUBSET Users
      BY <3>1, Zenon
    <3> QED
      BY <1>5, <3>1, <3>2, Zenon
  <2>9. ShapeInv'
    <3>1. RestTyped'
      BY <1>3, <2>7, <2>8, Zenon DEF RestTyped, ShapeInv, TypeOK, topicVars
    <3> QED
      BY <2>4, <2>5, <3>1, ShapeFrame, Zenon
  <2>10. OwnerInv'
    <3>1. topic' = topic /\ inv' = inv /\ blind' = blind
      BY <1>3, Zenon DEF topicVars
    <3>2. Owners \subseteq Owners'
      BY <2>7, Zenon DEF Owners
    <3>3. blind \/ Owners # {}
      BY <1>3, Zenon DEF OwnerInv, KeepsOwner, Created
    <3>4. Created'
      <4>1. call'[t].pc = "accepted" /\ \A x \in Calls \ {t} : call'[x].pc = call[x].pc
        BY <2>3, <2>4, Zenon DEF Moved, SameCall
      <4> QED
        BY <1>3, <3>1, <4>1, Zenon DEF Created
    <3>5. KeepsOwner'
      BY <3>1, <3>2, <3>3, Zenon DEF KeepsOwner
    <3>6. LeavesOwner(call[t])'
      <4>1. call'[t].pc = "accepted"
        BY <2>3, <2>4, Zenon DEF Moved
      <4> QED
        BY <4>1, Zenon DEF LeavesOwner
    <3>7. d.pc # "owner"
      BY <2>3, Zenon
    <3>8. ASSUME NEW x \in Calls \ {t}
          PROVE  \/ call'[x].behind \/ blind'
                 \/ /\ Owners \subseteq Owners'
                    /\ call[x].target \in Owners' => call[x].target \in Owners \/ Owners # {}
      BY <3>1, <3>2, <3>3, Zenon
    <3>9. Owners' # {} \/ (\E j \in Invites : inv'[j] # "none") => Created'
      BY <3>4, Zenon
    <3>10. (topic = "none") <=> (topic' = "none")
      BY <3>1, Zenon
    <3>11. blind => blind'
      BY <3>1
    <3>12. Created
      BY <1>3, Zenon
    <3> QED
      BY <2>4, <3>5, <3>6, <3>7, <3>8, <3>9, <3>10, <3>11, <3>12, OwnerFrame, Zenon
  <2>11. AnswerInv'
    <3>1. call'[t].pc = "accepted" /\ call'[t].inv = i
      BY <2>3, <2>4, Zenon DEF Moved
    <3>2. Accepting(i)'
      BY <3>1, Zenon DEF Accepting, Accepts
    <3>3. UpToDate(call[t])'
      BY <3>1, Zenon DEF UpToDate, Answering
    <3>4. Answers(i)'
      <4>1. CASE i \in contested'
        BY <4>1, Zenon DEF Answers
      <4>2. CASE i \notin contested'
        <5>1. ~Overlapped(t, i) /\ i \notin contested
          BY <1>5, <4>2, Zenon
        <5>2. ~call[t].behind /\ \A x \in Calls : ~Accepts(x, i)
          BY <1>1, <5>1, Zenon DEF Overlapped, Accepts
        <5>3. UpToDate(call[t])
          BY Zenon DEF AnswerInv
        <5>4. inv[i] = "pending"
          BY <1>1, <1>2, <5>1, <5>2, <5>3, Zenon DEF UpToDate, Accepting, Answering
        <5>5. joined[i] = {}
          BY <5>1, <5>2, <5>4, Zenon DEF AnswerInv, Accepting
        <5>6. joined'[i] = {u}
          BY <2>8, <5>5, Zenon
        <5>7. \A y, x \in Calls : Accepts(y, i)' /\ Accepts(x, i)' => y = x
          <6>1. \A x \in Calls \ {t} : ~Accepts(x, i)'
            BY <2>4, <5>2, Zenon DEF Moved, SameCall, Accepts
          <6> QED
            BY <6>1, Zenon
        <5>8. inv'[i] # "accepted"
          BY <1>3, <5>4, Zenon
        <5> QED
          BY <3>2, <5>6, <5>7, <5>8, Zenon DEF Answers
      <4> QED
        BY <4>1, <4>2, Zenon
    <3>5. \A j \in Invites \ {i} : /\ inv'[j] = inv[j] /\ joined'[j] = joined[j]
                                   /\ j \in contested' <=> j \in contested
      BY <1>3, <2>8, Zenon
    <3>6. \A x \in Calls : Shape(call[x])
      BY Zenon DEF ShapeInv
    <3>7. (call[t].pc = "accepted" => call[t].inv = i) /\ (d.pc = "accepted" => d.inv = i)
      BY <1>2, <2>3, Zenon
    <3> QED
      BY <2>4, <3>2, <3>3, <3>4, <3>5, <3>6, <3>7, AnswerFrame, Zenon
  <2> QED
    BY <2>9, <2>10, <2>11, Zenon
<1> QED
  BY <1>2, <1>4, <1>5, Zenon DEF AcceptJoin

\* AcceptWrite and AnswerWrite
LEMMA WriteAnswerKeeps ==
    ASSUME IInv, NEW t \in Calls, AcceptWrite(t) \/ AnswerWrite(t)
    PROVE  IInv'
<1> USE DEF IInv
<1>1. /\ call \in [Calls -> CallType] /\ call[t] \in CallType /\ Shape(call[t])
      /\ call[t].pc \in {"accepted", "answer"}
  BY Zenon DEF ShapeInv, TypeOK, AcceptWrite, AnswerWrite
<1>2. PICK i \in Invites : i = call[t].inv
  BY <1>1, Zenon DEF Shape, Answering
<1>3. /\ UNCHANGED <<topicVars, memberVars, due, invitee, inviter, offer, joined>>
      /\ Return(t, Answered(i, {t})) /\ Created
  BY <1>1, <1>2, OwnerMeansCreated, Zenon DEF AcceptWrite, AnswerWrite, PastOwner, Pcs, Answering
<1>4. /\ Answered(i, {t}) \in [Calls -> CallType]
      /\ \A x \in Calls : SameCall(Answered(i, {t})[x], call[x])
      /\ \A x \in Calls \ {t} : call[x].inv = i /\ call[x].pc \in Answering \cup {"canceller"}
            => Answered(i, {t})[x].behind
  BY <1>1, AnsweredMarks, Zenon
<1> HIDE DEF Answered
<1>5. Moved(t, Done) /\ \A x \in Calls \ {t} : call'[x] = Answered(i, {t})[x]
  BY <1>3, <1>4, ReturnMoves, Zenon
<1>6. PICK a \in {"accepted", "expired", "declined", "cancelled"} :
        /\ inv' = [inv EXCEPT ![i] = a] \/ (inv' = inv /\ i \in contested')
        /\ a = "accepted" <=> call[t].pc = "accepted"
  <2>1. CASE AcceptWrite(t)
    BY <1>2, <2>1, Zenon DEF AcceptWrite
  <2>2. CASE AnswerWrite(t)
    <3>1. call[t].answer \in {"expired", "declined", "cancelled"} /\ call[t].pc = "answer"
      BY <1>1, <2>2, Zenon DEF Shape, AnswerWrite
    <3> QED
      BY <1>2, <2>2, <3>1, Zenon DEF AnswerWrite
  <2> QED
    BY <2>1, <2>2, Zenon
<1>7. /\ inv' \in [Invites -> InviteStates] /\ contested' \subseteq Invites
      /\ \A j \in Invites \ {i} : inv'[j] = inv[j]
      /\ \A j \in Invites \ {i} : j \in contested' <=> j \in contested
      /\ inv'[i] = a \/ i \in contested'
      /\ i \in contested => i \in contested'
  <2>1. inv \in [Invites -> InviteStates] /\ contested \subseteq Invites /\ a \in InviteStates
    BY Zenon DEF ShapeInv, TypeOK, InviteStates
  <2>2. contested' = contested \/ contested' = contested \cup {i}
    BY <1>2, Zenon DEF AcceptWrite, AnswerWrite
  <2> QED
    BY <1>6, <2>1, <2>2, Zenon
<1>8. ShapeInv'
  <2>1. RestTyped'
    BY <1>3, <1>7, Zenon DEF RestTyped, ShapeInv, TypeOK, topicVars, memberVars
  <2> QED
    BY <1>5, <2>1, DoneFits, ShapeFrame, Zenon
<1>9. OwnerInv'
  <2>1. Owners' = Owners /\ blind' = blind /\ topic' = topic
    BY <1>3, Zenon DEF Owners, memberVars, topicVars
  <2>2. call[t].pc # "owner" /\ Done.pc # "owner"
    BY <1>1, IdleType, Zenon
  <2> QED
    BY <1>3, <1>5, <2>1, <2>2, DoneFits, OwnerQuiet, Zenon
<1>10. AnswerInv'
  <2>1. /\ \A x \in Calls \ {t} : Accepts(x, i)' <=> Accepts(x, i)
        /\ ~Accepts(t, i)'
    BY <1>5, SameAccepts, Zenon
  <2>2. Answers(i)
    BY Zenon DEF AnswerInv, Answers
  <2>3. ASSUME i \notin contested', call[t].pc = "accepted" PROVE Answers(i)'
    <3>1. Accepts(t, i) /\ Accepting(i) /\ i \notin contested
      BY <1>2, <1>7, <2>3, Zenon DEF Accepts, Accepting
    <3>2. ~Accepting(i)'
      BY <2>1, <2>2, <3>1, Zenon DEF Answers, Accepting
    <3>3. inv'[i] = "accepted" /\ joined' = joined
      BY <1>3, <1>6, <1>7, <2>3, Zenon
    <3> QED
      BY <2>1, <2>2, <3>1, <3>2, <3>3, Zenon DEF Answers, Accepting
  <2>4. ASSUME i \notin contested', call[t].pc = "answer" PROVE Answers(i)'
    <3>1. i \notin contested /\ ~Overlapped(t, i)
      BY <1>2, <1>7, <2>4, Zenon DEF AnswerWrite, AcceptWrite
    <3>2. ~call[t].behind /\ \A x \in Calls : ~Accepts(x, i)
      BY <2>4, <3>1, Zenon DEF Overlapped, Accepts
    <3>3. UpToDate(call[t])
      BY Zenon DEF AnswerInv
    <3>4. inv[i] = "pending"
      BY <1>2, <2>4, <3>1, <3>2, <3>3, Zenon DEF UpToDate, Accepting, Answering
    <3>5. joined[i] = {} /\ joined' = joined
      BY <1>3, <2>2, <3>1, <3>2, <3>4, Zenon DEF Answers, Accepting
    <3>6. \A x \in Calls : ~Accepts(x, i)'
      BY <2>1, <3>2, Zenon
    <3>7. inv'[i] # "accepted"
      BY <1>6, <1>7, <2>4, Zenon
    <3> QED
      BY <3>5, <3>6, <3>7, Zenon DEF Answers, Accepting
  <2>5. Answers(i)'
    <3>1. CASE i \in contested'
      BY <3>1, Zenon DEF Answers
    <3> QED
      BY <1>1, <2>3, <2>4, <3>1, Zenon
  <2>6. UpToDate(call[t])'
    BY <1>5, DoneUpToDate, Zenon
  <2>7. \A j \in Invites \ {i} : /\ inv'[j] = inv[j] /\ joined'[j] = joined[j]
                                 /\ j \in contested' <=> j \in contested
    BY <1>3, <1>7, Zenon
  <2>8. \A x \in Calls : Shape(call[x])
    BY Zenon DEF ShapeInv
  <2>9. (call[t].pc = "accepted" => call[t].inv = i) /\ (Done.pc = "accepted" => Done.inv = i)
    BY <1>2, IdleType, Zenon
  <2>10. \A x \in Calls \ {t} :
            call[x].inv = i /\ call[x].pc \in Answering \cup {"canceller"} => call'[x].behind
    BY <1>4, <1>5, Zenon
  <2> QED
    BY <1>5, <2>5, <2>6, <2>7, <2>8, <2>9, <2>10, AnswerFrame, ZenonT(60)
<1> QED
  BY <1>8, <1>9, <1>10, Zenon

LEMMA InviteCreateKeeps ==
    ASSUME IInv, NEW t \in Calls, NEW i \in Invites, InviteCreate(t, i)
    PROVE  IInv'
<1> USE DEF IInv
<1>1. /\ call \in [Calls -> CallType] /\ call[t] \in CallType
      /\ call[t].pc = "invite" /\ inv[i] = "none"
  BY Zenon DEF ShapeInv, TypeOK, InviteCreate
<1>2. /\ UNCHANGED <<topicVars, memberVars, due, contested, joined>> /\ Return(t, call) /\ Created
  BY <1>1, OwnerMeansCreated, Zenon DEF InviteCreate, PastOwner, Pcs
<1>3. Moved(t, Done)
  BY <1>1, <1>2, SameSelf, ReturnMoves, Zenon
<1>4. /\ inv' \in [Invites -> InviteStates] /\ inv'[i] = "pending"
      /\ \A j \in Invites \ {i} : inv'[j] = inv[j]
      /\ invitee' \in [Invites -> Users \cup {NoUser}]
      /\ inviter' \in [Invites -> Users \cup {NoUser}]
      /\ offer' \in [Invites -> Roles]
  <2>1. /\ call[t].actor \in Users \cup {NoUser} /\ call[t].target \in Users \cup {NoUser}
        /\ call[t].role \in Roles
    BY <1>1 DEF CallType
  <2>2. /\ inv \in [Invites -> InviteStates] /\ invitee \in [Invites -> Users \cup {NoUser}]
        /\ inviter \in [Invites -> Users \cup {NoUser}] /\ offer \in [Invites -> Roles]
        /\ "pending" \in InviteStates
    BY Zenon DEF ShapeInv, TypeOK, InviteStates
  <2> QED
    BY <2>1, <2>2, Zenon DEF InviteCreate
<1>5. ShapeInv'
  <2>1. RestTyped'
    BY <1>2, <1>4, Zenon DEF RestTyped, ShapeInv, TypeOK, topicVars, memberVars
  <2> QED
    BY <1>3, <2>1, DoneFits, ShapeFrame, Zenon
<1>6. OwnerInv'
  <2>1. Owners' = Owners /\ blind' = blind /\ topic' = topic
    BY <1>2, Zenon DEF Owners, memberVars, topicVars
  <2>2. call[t].pc # "owner" /\ Done.pc # "owner"
    BY <1>1, IdleType, Zenon
  <2> QED
    BY <1>2, <1>3, <2>1, <2>2, DoneFits, OwnerQuiet, Zenon
<1>7. AnswerInv'
  <2>1. \A x \in Calls : Accepts(x, i)' <=> Accepts(x, i)
    <3>1. ~Accepts(t, i)
      BY <1>1, Zenon DEF Accepts
    <3> QED
      BY <1>3, <3>1, SameAccepts, Zenon
  <2>2. Answers(i)'
    <3>1. Answers(i)
      BY Zenon DEF AnswerInv, Answers
    <3> QED
      BY <1>1, <1>2, <1>4, <2>1, <3>1, Zenon DEF Answers, Accepting
  <2>3. UpToDate(call[t])'
    BY <1>3, DoneUpToDate, Zenon
  <2>4. \A j \in Invites \ {i} : /\ inv'[j] = inv[j] /\ joined'[j] = joined[j]
                                 /\ j \in contested' <=> j \in contested
    BY <1>2, <1>4, Zenon
  <2>5. \A x \in Calls : Shape(call[x])
    BY Zenon DEF ShapeInv
  <2>6. (call[t].pc = "accepted" => call[t].inv = i) /\ (Done.pc = "accepted" => Done.inv = i)
    BY <1>1, IdleType, Zenon
  <2> QED
    BY <1>3, <1>4, <2>2, <2>3, <2>4, <2>5, <2>6, AnswerFrame, Zenon
<1> QED
  BY <1>5, <1>6, <1>7, Zenon

LEMMA InvitationDueKeeps == ASSUME IInv, NEW i \in Invites, InvitationDue(i) PROVE IInv'
<1> USE DEF IInv, InvitationDue, topicVars, memberVars
<1>1. ShapeInv'
  <2>1. due' \subseteq Invites
    BY Zenon DEF ShapeInv, TypeOK
  <2> QED
    BY <2>1, Zenon DEF ShapeInv, TypeOK
<1>2. OwnerInv'
  BY Zenon DEF OwnerInv, Settled, LeavesOwner, Created, Owners, IsOwner, KeepsOwner
<1>3. AnswerInv'
  <2>1. /\ \A j : Accepting(j)' <=> Accepting(j)
        /\ \A j, x : Accepts(x, j)' <=> Accepts(x, j)
    BY Zenon DEF Accepting, Accepts
  <2>2. ASSUME NEW x \in Calls PROVE UpToDate(call[x])'
    <3>1. UpToDate(call[x])
      BY Zenon DEF AnswerInv
    <3> QED
      BY <3>1, Zenon DEF UpToDate, Accepting, Accepts
  <2>3. ASSUME NEW j \in Invites PROVE Answers(j)'
    <3>1. Answers(j)
      BY Zenon DEF AnswerInv, Answers
    <3> QED
      BY <2>1, <3>1, Zenon DEF Answers
  <2> QED
    BY <2>2, <2>3, Zenon DEF AnswerInv, Answers
<1> QED
  BY <1>1, <1>2, <1>3, Zenon

LEMMA ExpirePendingKeeps == ASSUME IInv, NEW i \in Invites, ExpirePending(i) PROVE IInv'
<1> USE DEF IInv
<1>1. /\ call \in [Calls -> CallType] /\ inv[i] = "pending" /\ call' = Answered(i, {})
      /\ inv' = [inv EXCEPT ![i] = "expired"]
      /\ UNCHANGED <<topicVars, memberVars, due, invitee, inviter, offer, contested, joined>>
  BY Zenon DEF ShapeInv, TypeOK, ExpirePending
<1>2. /\ call' \in [Calls -> CallType]
      /\ \A x \in Calls : SameCall(call'[x], call[x])
      /\ \A x \in Calls : call[x].inv = i /\ call[x].pc \in Answering \cup {"canceller"}
            => call'[x].behind
  <2>1. /\ Answered(i, {}) \in [Calls -> CallType]
        /\ \A x \in Calls : SameCall(Answered(i, {})[x], call[x])
        /\ \A x \in Calls \ {} : call[x].inv = i /\ call[x].pc \in Answering \cup {"canceller"}
              => Answered(i, {})[x].behind
    BY <1>1, AnsweredMarks, Zenon
  <2> HIDE DEF Answered
  <2> QED
    BY <1>1, <2>1, Zenon
<1>3. /\ inv' \in [Invites -> InviteStates] /\ inv'[i] = "expired"
      /\ \A j \in Invites \ {i} : inv'[j] = inv[j]
  <2>1. inv \in [Invites -> InviteStates] /\ "expired" \in InviteStates
    BY Zenon DEF ShapeInv, TypeOK, InviteStates
  <2> QED
    BY <1>1, <2>1, Zenon
<1>4. ShapeInv'
  <2>1. \A x \in Calls : Shape(call'[x])
    BY <1>2, ShapeSame, Zenon DEF ShapeInv
  <2>2. TypeOK'
    BY <1>1, <1>2, <1>3, Zenon DEF ShapeInv, TypeOK, topicVars, memberVars
  <2> QED
    BY <2>1, <2>2, Zenon DEF ShapeInv, Shape
<1>5. \A x \in Calls : /\ call'[x].pc = call[x].pc /\ call'[x].inv = call[x].inv
                       /\ call'[x].target = call[x].target /\ call'[x].todo = call[x].todo
                       /\ call[x].behind => call'[x].behind
  BY <1>2, Zenon DEF SameCall
<1>6. OwnerInv'
  <2>1. Owners' = Owners /\ blind' = blind /\ topic' = topic
    BY <1>1, Zenon DEF Owners, memberVars, topicVars
  <2>2. Created' <=> Created
    BY <1>5, <2>1, Zenon DEF Created
  <2>3. \A x \in Calls : Settled(call[x])' /\ LeavesOwner(call[x])'
    BY <1>5, <2>1, <2>2, Zenon DEF OwnerInv, Settled, LeavesOwner, IsOwner
  <2>4. ASSUME NEW y \in Calls, NEW x \in Calls, call'[y].pc = "owner", call'[x].pc = "owner"
        PROVE  y = x
    <3>1. call[y].pc = "owner" /\ call[x].pc = "owner"
      BY <1>5, <2>4, Zenon
    <3> QED
      BY <3>1, Zenon DEF OwnerInv
  <2>5. KeepsOwner'
    BY <1>5, <2>1, Zenon DEF OwnerInv, KeepsOwner
  <2>6. Owners' # {} \/ (\E j \in Invites : inv'[j] # "none") => Created'
    <3>1. Created
      BY <1>1, OwnerMeansCreated, Zenon
    <3> QED
      BY <2>2, <3>1, Zenon
  <2> QED
    BY <2>3, <2>4, <2>5, <2>6, Zenon DEF OwnerInv
<1>7. AnswerInv'
  <2>1. \A j : \A x \in Calls : Accepts(x, j)' <=> Accepts(x, j)
    BY <1>5, Zenon DEF Accepts
  <2>2. \A j : Accepting(j)' <=> Accepting(j)
    BY <2>1, Zenon DEF Accepting
  <2>3. ASSUME NEW x \in Calls PROVE UpToDate(call[x])'
    <3>1. PICK j : j = call[x].inv /\ j = call'[x].inv
      BY <1>5, Zenon
    <3> SUFFICES ASSUME call[x].pc \in Answering \cup {"canceller"}
                 PROVE  call'[x].behind \/ j \in contested' \/ Accepting(j)' \/ inv'[j] = "pending"
      BY <1>5, <3>1, Zenon DEF UpToDate, Accepting, Accepts
    <3>2. j \in Invites
      BY <3>1, Zenon DEF ShapeInv, Shape
    <3>3. call[x].behind \/ j \in contested \/ Accepting(j) \/ inv[j] = "pending"
      BY <3>1, Zenon DEF AnswerInv, UpToDate
    <3> QED
      BY <1>1, <1>2, <1>3, <1>5, <2>2, <3>1, <3>2, <3>3, Zenon
  <2>4. ASSUME NEW j \in Invites PROVE Answers(j)'
    <3>1. Answers(j) /\ joined' = joined /\ contested' = contested
      BY <1>1, Zenon DEF AnswerInv, Answers
    <3>2. inv'[j] = "accepted" <=> inv[j] = "accepted"
      BY <1>1, <1>3, Zenon
    <3> QED
      BY <2>1, <2>2, <3>1, <3>2, Zenon DEF Answers
  <2> QED
    BY <2>3, <2>4, Zenon DEF AnswerInv, Answers
<1> QED
  BY <1>4, <1>6, <1>7, Zenon

LEMMA AbandonKeeps == ASSUME IInv, NEW t \in Calls, Abandon(t) PROVE IInv'
<1> USE DEF IInv
<1>1. /\ call \in [Calls -> CallType] /\ call[t] \in CallType /\ Shape(call[t]) /\ Return(t, call)
      /\ UNCHANGED <<topicVars, role, gen, inv, due, invitee, inviter, offer, joined>>
  BY Zenon DEF ShapeInv, TypeOK, Abandon
<1>2. Moved(t, Done)
  BY <1>1, SameSelf, ReturnMoves, Zenon
<1>3. /\ blind' \in BOOLEAN /\ contested' \subseteq Invites
      /\ blind => blind'
      /\ call[t].pc = "owner" => blind'
      /\ call[t].pc # "owner" => blind' = blind
      /\ call[t].pc # "accepted" => contested' = contested
      /\ call[t].pc = "accepted" => contested' = contested \cup {call[t].inv} /\ call[t].inv \in Invites
  <2>1. blind \in BOOLEAN /\ contested \subseteq Invites
    BY Zenon DEF ShapeInv, TypeOK
  <2>2. call[t].pc = "accepted" => call[t].inv \in Invites
    BY <1>1, Zenon DEF Shape
  <2> QED
    BY <2>1, <2>2, Zenon DEF Abandon
<1>4. ShapeInv'
  <2>1. RestTyped'
    BY <1>1, <1>3, Zenon DEF RestTyped, ShapeInv, TypeOK, topicVars
  <2> QED
    BY <1>2, <2>1, DoneFits, ShapeFrame, Zenon
<1>5. Owners' = Owners /\ topic' = topic /\ inv' = inv /\ Done.pc # "owner" /\ Done.pc # "accepted"
  BY <1>1, IdleType, Zenon DEF Owners, topicVars
<1>6. CASE call[t].pc = "owner"
  <2>1. ~Created /\ blind'
    BY <1>3, <1>6, Zenon DEF Created
  <2>2. Owners' = {} /\ \A i \in Invites : inv'[i] = "none"
    BY <1>5, <2>1, Zenon DEF OwnerInv
  <2>3. KeepsOwner'
    BY <2>1, Zenon DEF KeepsOwner
  <2>4. LeavesOwner(call[t])'
    BY <1>2, DoneUpToDate, Zenon
  <2>5. Done.pc \in PastOwner => Created
    BY IdleType, Zenon DEF PastOwner
  <2>6. OwnerInv'
    BY <1>2, <1>3, <1>5, <2>1, <2>2, <2>3, <2>4, <2>5, OwnerFrame, Zenon
  <2>7. AnswerInv'
    <3>1. UNCHANGED <<inv, contested, joined>> /\ call[t].pc # "accepted"
      BY <1>1, <1>3, <1>6, Zenon
    <3> QED
      BY <1>2, <1>5, <3>1, DoneFits, AnswerQuiet, Zenon
  <2> QED
    BY <1>4, <2>6, <2>7, Zenon
<1>7. CASE call[t].pc # "owner"
  <2>1. OwnerInv'
    <3>1. (\E i \in Invites : inv'[i] # "none") => Created
      BY <1>5, Zenon DEF OwnerInv
    <3> QED
      BY <1>2, <1>3, <1>5, <1>7, <3>1, DoneFits, OwnerQuiet, Zenon
  <2>2. CASE call[t].pc # "accepted"
    <3>1. UNCHANGED <<inv, contested, joined>>
      BY <1>1, <1>3, <2>2, Zenon
    <3>2. AnswerInv'
      BY <1>2, <1>5, <2>2, <3>1, DoneFits, AnswerQuiet, Zenon
    <3> QED
      BY <1>4, <2>1, <3>2, Zenon
  <2>3. CASE call[t].pc = "accepted"
    <3>1. PICK i \in Invites : i = call[t].inv /\ contested' = contested \cup {i}
      BY <1>3, <2>3, Zenon
    <3>2. Answers(i)'
      BY <3>1, Zenon DEF Answers
    <3>3. UpToDate(call[t])'
      BY <1>2, DoneUpToDate, Zenon
    <3>4. \A j \in Invites \ {i} : /\ inv'[j] = inv[j] /\ joined'[j] = joined[j]
                                   /\ j \in contested' <=> j \in contested
      BY <1>1, <3>1, Zenon
    <3>5. \A x \in Calls : Shape(call[x])
      BY Zenon DEF ShapeInv
    <3>6. (call[t].pc = "accepted" => call[t].inv = i) /\ (Done.pc = "accepted" => Done.inv = i)
      BY <1>5, <3>1, Zenon
    <3>7. i \in contested'
      BY <3>1, Zenon
    <3>8. AnswerInv'
      BY <1>2, <3>2, <3>3, <3>4, <3>5, <3>6, <3>7, AnswerFrame, Zenon
    <3> QED
      BY <1>4, <2>1, <3>8, Zenon
  <2> QED
    BY <2>2, <2>3, Zenon
<1> QED
  BY <1>6, <1>7, Zenon

-----------------------------------------------------------------------------
(* The invariant holds *)

LEMMA InitInv == Init => IInv
<1> SUFFICES ASSUME Init PROVE IInv
  BY Zenon
<1>1. /\ \A t \in Calls : call[t] = Idle
      /\ gen = [u \in Users |-> 0] /\ inv = [i \in Invites |-> "none"] /\ due = {}
      /\ invitee = [i \in Invites |-> NoUser] /\ inviter = [i \in Invites |-> NoUser]
      /\ offer = [i \in Invites |-> "viewer"] /\ blind = FALSE /\ contested = {}
      /\ joined = [i \in Invites |-> {}] /\ call = [t \in Calls |-> Idle]
  BY Zenon DEF Init
<1>2. \/ topic = "none" /\ role = [u \in Users |-> "none"]
      \/ /\ topic = "active" /\ role \in [Users -> Roles \cup {"none"}]
         /\ \E u \in Users : role[u] = "owner"
  BY Zenon DEF Init
<1>3. TypeOK
  <2>1. topic \in {"none", "active", "deleted"} /\ role \in [Users -> Roles \cup {"none"}]
    BY <1>2, Zenon
  <2>2. gen \in [Users -> Nat]
    BY <1>1
  <2>3. /\ inv \in [Invites -> InviteStates] /\ due \subseteq Invites
        /\ invitee \in [Invites -> Users \cup {NoUser}]
        /\ inviter \in [Invites -> Users \cup {NoUser}]
        /\ offer \in [Invites -> Roles]
    BY <1>1, Zenon DEF InviteStates, Roles
  <2>4. blind \in BOOLEAN /\ contested \subseteq Invites /\ joined \in [Invites -> SUBSET Users]
    BY <1>1, Zenon
  <2>5. call \in [Calls -> CallType]
    BY <1>1, IdleType, Zenon
  <2> QED
    BY <2>1, <2>2, <2>3, <2>4, <2>5, Zenon DEF TypeOK
<1>4. \A t \in Calls : call[t].pc = "idle"
  BY <1>1, IdleType, Zenon
<1>5. ShapeInv
  <2>1. Shape(Idle)
    BY IdleType, Zenon DEF Shape, Answering
  <2> QED
    BY <1>1, <1>3, <2>1, Zenon DEF ShapeInv
<1>6. OwnerInv
  <2>1. \A t \in Calls : Settled(call[t]) /\ LeavesOwner(call[t])
    BY <1>4, Zenon DEF Settled, LeavesOwner, PastOwner
  <2>2. \A i \in Invites : inv[i] = "none"
    BY <1>1, Zenon
  <2>3. topic = "none" => Owners = {}
    BY <1>2, Zenon DEF Owners
  <2>4. topic # "none" => Owners # {} /\ Created
    BY <1>2, <1>4, Zenon DEF Owners, Created
  <2> QED
    BY <1>4, <2>1, <2>2, <2>3, <2>4, Zenon DEF OwnerInv, KeepsOwner
<1>7. AnswerInv
  <2>1. \A t \in Calls : UpToDate(call[t])
    BY <1>4, Zenon DEF UpToDate, Answering
  <2>2. \A i : ~Accepting(i) /\ \A t \in Calls : ~Accepts(t, i)
    BY <1>4, Zenon DEF Accepting, Accepts
  <2>3. \A i \in Invites : inv[i] # "accepted" /\ joined[i] = {}
    BY <1>1, Zenon
  <2> QED
    BY <2>1, <2>2, <2>3, Zenon DEF AnswerInv
<1> QED
  BY <1>5, <1>6, <1>7, Zenon DEF IInv

LEMMA BeginningKeeps ==
    ASSUME IInv, NEW t \in Calls, NEW u \in Users,
           \/ CreateTopic(t, u) \/ UpdateTopic(t, u) \/ DeleteTopic(t, u)
           \/ Subscribe(t, u) \/ Unsubscribe(t, u) \/ RestoreTopic(t, u)
           \/ \E v \in Users :
               \/ \E r \in Roles : UpdateMemberRole(t, u, v, r)
               \/ TransferOwnership(t, u, v)
               \/ RemoveMember(t, u, v)
           \/ \E v \in Users \cup {NoUser}, r \in Roles : InviteMember(t, u, v, r)
           \/ \E i \in Invites :
               \/ AcceptInvitation(t, i, u)
               \/ DeclineInvitation(t, i, u)
               \/ CancelInvitation(t, i, u)
    PROVE  IInv'
<1>1. ASSUME NEW v \in Users,
             \/ \E r \in Roles : UpdateMemberRole(t, u, v, r)
             \/ TransferOwnership(t, u, v)
             \/ RemoveMember(t, u, v)
      PROVE  IInv'
  <2>1. \E r \in Roles, op \in {"setRole", "remove"} : EditMember(t, u, v, op, r)
    BY <1>1, Zenon DEF UpdateMemberRole, TransferOwnership, RemoveMember, Roles
  <2> QED
    BY <2>1, EditMemberKeeps, Zenon
<1> QED
  BY <1>1, CreateTopicKeeps, EditTopicKeeps, UnsubscribeKeeps, RestoreTopicKeeps,
     InviteMemberKeeps, ReadInvitationKeeps, Zenon

LEMMA NextInv == ASSUME IInv, [Next]_vars PROVE IInv'
<1>1. CASE UNCHANGED vars
  <2>1. ShapeInv'
    BY <1>1, Zenon DEF vars, topicVars, memberVars, inviteVars, IInv, ShapeInv, TypeOK
  <2>2. OwnerInv'
    BY <1>1, Zenon DEF vars, topicVars, memberVars, inviteVars, IInv, OwnerInv, Settled, LeavesOwner,
       Created, Owners, IsOwner, KeepsOwner
  <2>3. AnswerInv'
    <3>1. UNCHANGED <<call, inv, joined, contested>>
      BY <1>1, Zenon DEF vars, inviteVars
    <3>2. ASSUME NEW x \in Calls PROVE UpToDate(call[x])'
      <4>1. UpToDate(call[x])
        BY Zenon DEF IInv, AnswerInv
      <4> QED
        BY <3>1, <4>1, Zenon DEF UpToDate, Accepting, Accepts
    <3>3. ASSUME NEW j \in Invites PROVE Answers(j)'
      <4>1. Answers(j)
        BY Zenon DEF IInv, AnswerInv, Answers
      <4> QED
        BY <3>1, <4>1, Zenon DEF Answers, Accepting, Accepts
    <3> QED
      BY <3>2, <3>3, Zenon DEF AnswerInv, Answers
  <2> QED
    BY <2>1, <2>2, <2>3, Zenon DEF IInv
<1>2. ASSUME NEW t \in Calls,
             \/ CreateTopicInsert(t) \/ CreateTopicOwner(t)
             \/ EditTopicRole(t) \/ UpdateTopicWrite(t) \/ DeleteTopicWrite(t)
             \/ SubscribeCreate(t)
             \/ EditMemberGet(t) \/ CountOwners(t) \/ SetRole(t) \/ Remove(t)
             \/ RestoreGet(t) \/ RestoreWrite(t) \/ RestoreList(t) \/ RestorePurge(t)
             \/ \E i \in Invites : InviteCreate(t, i)
             \/ AcceptJoin(t) \/ AcceptWrite(t) \/ CancelRole(t) \/ AnswerWrite(t)
             \/ Abandon(t)
      PROVE  IInv'
  BY <1>2, CreateTopicInsertKeeps, CreateTopicOwnerKeeps, EditTopicRoleKeeps, TopicWriteKeeps,
     SubscribeCreateKeeps, EditMemberGetKeeps, CountOwnersKeeps, EditMemberWriteKeeps,
     RestoreListKeeps, RestorePurgeKeeps, InviteCreateKeeps, AcceptJoinKeeps, WriteAnswerKeeps,
     CancelRoleKeeps, AbandonKeeps, ZenonT(60)
<1>3. ASSUME NEW i \in Invites, InvitationDue(i) \/ ExpirePending(i) PROVE IInv'
  BY <1>3, InvitationDueKeeps, ExpirePendingKeeps, Zenon
<1> QED
  BY <1>1, <1>2, <1>3, BeginningKeeps, Zenon DEF Next

\* The invariant that the other theorems rest on: what a call about to remove a
\* member or to answer an invitation may rely on, unless it was overtaken.
THEOREM Invariance == Spec => []IInv
<1>1. Init => IInv
  BY InitInv, Zenon
<1>2. IInv /\ [Next]_vars => IInv'
  BY NextInv, Zenon
<1> QED
  BY <1>1, <1>2, PTL DEF Spec

\* Every variable has its type, for any users, invitations and calls.
THEOREM TypeCorrect == Spec => []TypeOK
<1>1. IInv => TypeOK
  BY Zenon DEF IInv, ShapeInv
<1> QED
  BY <1>1, Invariance, PTL

\* A topic has an owner, whatever calls overlap, unless one of them removed an
\* owner after its check had become out of date (membership.go).
THEOREM TopicHasOwner == Spec => []KeepsOwner
<1>1. IInv => KeepsOwner
  BY Zenon DEF IInv, OwnerInv
<1> QED
  BY <1>1, Invariance, PTL

\* An invitation makes one member and is accepted, or none and is not, unless two
\* answers to it overlapped or the second write failed (membership.go).
THEOREM AnsweredOnce == Spec => []OneAnswer
<1>1. IInv => OneAnswer
  <2> SUFFICES ASSUME IInv PROVE OneAnswer
    BY Zenon
  <2>1. \A i \in Invites : Answers(i)
    BY Zenon DEF IInv, AnswerInv, Answers
  <2> QED
    BY <2>1, Zenon DEF OneAnswer, Answers, Accepting, Accepts
<1> QED
  BY <1>1, Invariance, PTL

=============================================================================
