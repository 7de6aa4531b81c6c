------------------------------- MODULE Topics -------------------------------
(***************************************************************************)
(* Topics, their members and invitations: the topic service and its        *)
(* membership manager (internal/grpc/services/topic) over the topic,       *)
(* member and invitation repositories of the SQLite store.                 *)
(*                                                                         *)
(* There is one topic, since no call deals with two.  As in Accounts each  *)
(* statement of a repository is a step and a call keeps what it read.      *)
(* Members().Update finds its row by the membership id, Members().Delete   *)
(* by the user, Invitations().Update writes the status unconditionally.    *)
(*                                                                         *)
(* Role "viewer" stands for editors too, which these calls treat alike.    *)
(* Names, schemas, messages, datasets, private topics, audit entries and   *)
(* the read-only calls are left out.                                       *)
(*                                                                         *)
(* A definition whose name ends in _NoCount or the like is the definition  *)
(* that follows it with a plausible mistake; no specification uses it.     *)
(***************************************************************************)
EXTENDS Integers, FiniteSets

CONSTANTS
    Users,     \* authenticated users
    NoUser,    \* nobody; as an invitee, anyone who has the token
    Invites,   \* invitation ids
    NoInvite,
    Calls      \* requests; each is served once, in any overlap with the others

ASSUME TopicsAssumption ==
    /\ NoUser \notin Users /\ NoInvite \notin Invites
    /\ Users # {}

VARIABLES
    topic,      \* topics.status, "none" when there is no row
    role,       \* topic_members.role of each user, "none" when there is no row
    gen,        \* topic_members.id, as the number of memberships the user has had
    inv,        \* topic_invitations.status, "none" when there is no row
    due,        \* invitations whose expires_at has passed
    invitee,    \* topic_invitations.invitee_user_id
    inviter,    \* topic_invitations.inviter_id
    offer,      \* topic_invitations.role
    call,       \* the requests in flight, see CallType
    blind,      \* history: an owner was removed, or not recorded, without a valid check
    contested,  \* history: invitations answered by a call that had been overtaken
    joined      \* history: who became a member with an invitation

topicVars == <<topic>>
memberVars == <<role, gen, blind>>
inviteVars == <<inv, due, invitee, inviter, offer, contested, joined>>
vars == <<topicVars, memberVars, inviteVars, call>>

Roles == {"owner", "viewer"}
InviteStates == {"none", "pending", "accepted", "declined", "cancelled", "expired"}

Removing == {"demote", "remove", "purge"}               \* the last check is done
Answering == {"join", "answer"}                  \* the invitation was read as pending
Pcs == Removing \cup Answering \cup
       {"idle", "done", "insert", "owner", "member", "count", "promote", "subscribe",
        "invite", "canceller", "accepted", "topicGet", "topicWrite",
        "topicDelete", "restoreGet", "restore", "purgeList"}

\* What a handler keeps between two statements.
CallType == [
    pc : Pcs,
    op : {"none", "setRole", "remove", "unsubscribe", "update", "delete"},
    actor : Users \cup {NoUser},
    target : Users \cup {NoUser},
    role : Roles,                  \* the role to give
    gen : Nat,                     \* the membership it read
    inv : Invites \cup {NoInvite},
    answer : InviteStates,         \* the status it is to write
    topic : {"none", "active", "deleted"},   \* the topic row it read
    todo : SUBSET Users,           \* members it is to remove
    behind : BOOLEAN]              \* history: what it checked was changed by another call

TypeOK ==
    /\ topic \in {"none", "active", "deleted"}
    /\ role \in [Users -> Roles \cup {"none"}]
    /\ gen \in [Users -> Nat]
    /\ inv \in [Invites -> InviteStates]
    /\ due \subseteq Invites
    /\ invitee \in [Invites -> Users \cup {NoUser}]
    /\ inviter \in [Invites -> Users \cup {NoUser}]
    /\ offer \in [Invites -> Roles]
    /\ call \in [Calls -> CallType]
    /\ blind \in BOOLEAN
    /\ contested \subseteq Invites
    /\ joined \in [Invites -> SUBSET Users]

Idle == [pc |-> "idle", op |-> "none", actor |-> NoUser, target |-> NoUser,
         role |-> "viewer", gen |-> 0, inv |-> NoInvite, answer |-> "none",
         topic |-> "none", todo |-> {}, behind |-> FALSE]

Done == [Idle EXCEPT !.pc = "done"]

\* The daemon starts with no topic, or with one that has an owner.
Init ==
    /\ \/ topic = "none" /\ role = [u \in Users |-> "none"]
       \/ /\ topic = "active"
          /\ role \in [Users -> Roles \cup {"none"}]
          /\ \E u \in Users : role[u] = "owner"
    /\ gen = [u \in Users |-> 0]
    /\ inv = [i \in Invites |-> "none"]
    /\ due = {}
    /\ invitee = [i \in Invites |-> NoUser]
    /\ inviter = [i \in Invites |-> NoUser]
    /\ offer = [i \in Invites |-> "viewer"]
    /\ call = [t \in Calls |-> Idle]
    /\ blind = FALSE /\ contested = {}
    /\ joined = [i \in Invites |-> {}]

-----------------------------------------------------------------------------
(***************************************************************************)
(* The repositories                                                        *)
(***************************************************************************)

Owners == {u \in Users : role[u] = "owner"}

\* Members().GetRole
IsOwner(u) == u \in Owners

\* Members().Get
IsMember(u) == role[u] # "none"

\* Once the role of u is written: marks the other calls about to remove
\* somebody, when the owner u is gone or when u, whom they remove, is an owner now.
Unsettled(u, t) ==
    [x \in Calls |->
        IF /\ x # t /\ call[x].pc \in Removing
           /\ \/ role[u] = "owner" /\ role'[u] # "owner"
              \/ role[u] # "owner" /\ role'[u] = "owner" /\ call[x].target = u
        THEN [call[x] EXCEPT !.behind = TRUE]
        ELSE call[x]]

\* Members().Create: one row for a topic and a user.
Create(u, r) ==
    /\ ~IsMember(u)
    /\ role' = [role EXCEPT ![u] = r]
    /\ gen' = [gen EXCEPT ![u] = @ + 1]

\* Members().Update: no row is found when the membership is another one by now.
Update(u, g, r) ==
    /\ role' = IF IsMember(u) /\ gen[u] = g THEN [role EXCEPT ![u] = r] ELSE role
    /\ UNCHANGED gen

\* Members().Delete
Delete(u) == role' = [role EXCEPT ![u] = "none"] /\ UNCHANGED gen

\* Marks the calls, other than those of T, that have read invitation i as pending.
Answered(i, T) ==
    [x \in Calls |->
        IF x \notin T /\ call[x].inv = i /\ call[x].pc \in Answering \cup {"canceller"}
        THEN [call[x] EXCEPT !.behind = TRUE]
        ELSE call[x]]

\* t read invitation i before another answer to it was stored.
Overlapped(t, i) ==
    \/ call[t].behind
    \/ \E x \in Calls \ {t} : call[x].pc = "accepted" /\ call[x].inv = i

Begin(t, c) == call[t].pc = "idle" /\ call' = [call EXCEPT ![t] = c]

Goto(t, calls, pc) == call' = [calls EXCEPT ![t].pc = pc]

Return(t, calls) == call' = [calls EXCEPT ![t] = Done]
-----------------------------------------------------------------------------
(***************************************************************************)
(* The topic service                                                       *)
(***************************************************************************)

\* CreateTopic: GetByName,
CreateTopic(t, u) ==
    /\ topic = "none"
    /\ Begin(t, [Idle EXCEPT !.pc = "insert", !.actor = u])
    /\ UNCHANGED <<topicVars, memberVars, inviteVars>>

\* Topics().Create, which the name makes unique,
CreateTopicInsert(t) ==
    /\ call[t].pc = "insert"
    /\ \/ topic = "none" /\ topic' = "active" /\ Goto(t, call, "owner")
       \/ topic # "none" /\ Return(t, call) /\ UNCHANGED topic
    /\ UNCHANGED <<memberVars, inviteVars>>

\* and the membership of the creator, whose errors are ignored.
CreateTopicOwner(t) ==
    /\ call[t].pc = "owner"
    /\ \/ Create(call[t].actor, "owner") /\ UNCHANGED blind
       \/ blind' = TRUE /\ UNCHANGED <<role, gen>>
    /\ Return(t, Unsettled(call[t].actor, t))
    /\ UNCHANGED <<topicVars, inviteVars>>

\* UpdateTopic and DeleteTopic: Topics().Get,
EditTopic(t, u, op) ==
    /\ topic # "none"
    /\ Begin(t, [Idle EXCEPT !.pc = "topicGet", !.op = op, !.actor = u, !.topic = topic])
    /\ UNCHANGED <<topicVars, memberVars, inviteVars>>

UpdateTopic(t, u) == EditTopic(t, u, "update")

DeleteTopic(t, u) == EditTopic(t, u, "delete")

\* GetRole, and
EditTopicRole(t) ==
    /\ call[t].pc = "topicGet"
    /\ \/ /\ IsOwner(call[t].actor)
          /\ Goto(t, call, IF call[t].op = "delete" THEN "topicDelete" ELSE "topicWrite")
       \/ /\ ~IsOwner(call[t].actor)
          /\ Return(t, call)
    /\ UNCHANGED <<topicVars, memberVars, inviteVars>>

\* Topics().Update, which writes the status as it was read, or
UpdateTopicWrite(t) ==
    /\ call[t].pc = "topicWrite"
    /\ topic' = call[t].topic
    /\ Return(t, call)
    /\ UNCHANGED <<memberVars, inviteVars>>

\* Topics().Delete, unless there are datasets and no force flag.
DeleteTopicWrite(t) ==
    /\ call[t].pc = "topicDelete"
    /\ topic' \in {topic, "deleted"}
    /\ Return(t, call)
    /\ UNCHANGED <<memberVars, inviteVars>>

\* Subscribe: the topic, deleted or not, and the membership,
Subscribe(t, u) ==
    /\ topic # "none" /\ ~IsMember(u)
    /\ Begin(t, [Idle EXCEPT !.pc = "subscribe", !.actor = u])
    /\ UNCHANGED <<topicVars, memberVars, inviteVars>>

\* and Members().Create.
SubscribeCreate(t) ==
    /\ call[t].pc = "subscribe"
    /\ \/ Create(call[t].actor, "viewer")
       \/ IsMember(call[t].actor) /\ UNCHANGED <<role, gen>>
    /\ Return(t, call)
    /\ UNCHANGED <<topicVars, blind, inviteVars>>

\* Unsubscribe: GetRole, whose error counts as no role.
Unsubscribe(t, u) ==
    /\ topic # "none"
    /\ \E pc \in {IF IsOwner(u) THEN "count" ELSE "remove"} \cup {"remove"} :
        Begin(t, [Idle EXCEPT !.pc = pc, !.op = "unsubscribe", !.actor = u, !.target = u,
                              !.behind = (pc = "remove") /\ IsOwner(u)])
    /\ UNCHANGED <<topicVars, memberVars, inviteVars>>

-----------------------------------------------------------------------------
(***************************************************************************)
(* Members                                                                 *)
(***************************************************************************)

\* UpdateMemberRole, RemoveMember and TransferOwnership: GetRole of the actor,
EditMember(t, u, v, op, r) ==
    /\ IsOwner(u)
    /\ Begin(t, [Idle EXCEPT !.pc = "member", !.op = op, !.actor = u, !.target = v, !.role = r])
    /\ UNCHANGED <<topicVars, memberVars, inviteVars>>

UpdateMemberRole(t, u, v, r) == EditMember(t, u, v, "setRole", r)

\* The old owner stays an owner.
TransferOwnership(t, u, v) == EditMember(t, u, v, "setRole", "owner")

RemoveMember(t, u, v) == EditMember(t, u, v, "remove", "viewer")

\* Members().Get of the member,
EditMemberGet(t) ==
    LET v == call[t].target
        write == IF call[t].op = "remove" THEN "remove"
                 ELSE IF call[t].role = "owner" THEN "promote" ELSE "demote" IN
    /\ call[t].pc = "member"
    /\ \/ /\ IsMember(v)
          /\ call' = [call EXCEPT ![t].gen = gen[v],
                         ![t].pc = IF IsOwner(v) /\ write # "promote" THEN "count" ELSE write]
       \/ /\ ~IsMember(v)
          /\ Return(t, call)
    /\ UNCHANGED <<topicVars, memberVars, inviteVars>>

CountOwners_NoCount(t) ==
    /\ call[t].pc = "count"
    /\ Goto(t, call, IF call[t].op = "setRole" THEN "demote" ELSE "remove")
    /\ UNCHANGED <<topicVars, memberVars, inviteVars>>

\* CountOwners, when an owner is to go,
CountOwners(t) ==
    /\ call[t].pc = "count"
    /\ \/ /\ Cardinality(Owners) > 1
          /\ Goto(t, call, IF call[t].op = "setRole" THEN "demote" ELSE "remove")
       \/ /\ Cardinality(Owners) <= 1
          /\ Return(t, call)
    /\ UNCHANGED <<topicVars, memberVars, inviteVars>>

\* and Members().Update
SetRole(t) ==
    LET v == call[t].target IN
    /\ call[t].pc \in {"promote", "demote"}
    /\ Update(v, call[t].gen, call[t].role)
    /\ blind' = (blind \/ (call[t].behind /\ IsOwner(v) /\ role'[v] # "owner"))
    /\ Return(t, Unsettled(v, t))
    /\ UNCHANGED <<topicVars, inviteVars>>

\* or Members().Delete.
Remove(t) ==
    LET v == call[t].target IN
    /\ call[t].pc = "remove"
    /\ Delete(v)
    /\ blind' = (blind \/ (call[t].behind /\ IsOwner(v)))
    /\ Return(t, Unsettled(v, t))
    /\ UNCHANGED <<topicVars, inviteVars>>

\* RestoreTopic: GetRole,
RestoreTopic(t, u) ==
    /\ IsOwner(u)
    /\ Begin(t, [Idle EXCEPT !.pc = "restoreGet", !.actor = u])
    /\ UNCHANGED <<topicVars, memberVars, inviteVars>>

\* Topics().Get,
RestoreGet(t) ==
    /\ call[t].pc = "restoreGet"
    /\ \/ topic = "deleted" /\ Goto(t, call, "restore")
       \/ topic # "deleted" /\ Return(t, call)
    /\ UNCHANGED <<topicVars, memberVars, inviteVars>>

\* Topics().Update,
RestoreWrite(t) ==
    /\ call[t].pc = "restore"
    /\ topic' = "active"
    /\ Goto(t, call, "purgeList")
    /\ UNCHANGED <<memberVars, inviteVars>>

\* Members().ListByTopic,
RestoreList(t) ==
    /\ call[t].pc = "purgeList"
    /\ call' = [call EXCEPT ![t].pc = "purge",
                            ![t].todo = {u \in Users : IsMember(u) /\ ~IsOwner(u)}]
    /\ UNCHANGED <<topicVars, memberVars, inviteVars>>

\* and Members().Delete of those who were not owners; errors are ignored.
RestorePurge(t) ==
    /\ call[t].pc = "purge"
    /\ \/ \E v \in call[t].todo :
          /\ Delete(v)
          /\ blind' = (blind \/ (call[t].behind /\ IsOwner(v)))
          /\ call' = [Unsettled(v, t) EXCEPT ![t].todo = @ \ {v}]
       \/ \E v \in call[t].todo :
          /\ call' = [call EXCEPT ![t].todo = @ \ {v}]
          /\ UNCHANGED memberVars
       \/ /\ call[t].todo = {}
          /\ Return(t, call)
          /\ UNCHANGED memberVars
    /\ UNCHANGED <<topicVars, inviteVars>>

-----------------------------------------------------------------------------
(***************************************************************************)
(* Invitations                                                             *)
(***************************************************************************)

\* InviteMember: GetRole of the inviter, and Get of the invitee when one is
\* named: a member is refused (Abandon), but an error counts as no member,
InviteMember(t, u, v, r) ==
    /\ IsOwner(u)
    /\ Begin(t, [Idle EXCEPT !.pc = "invite", !.actor = u, !.target = v, !.role = r])
    /\ UNCHANGED <<topicVars, memberVars, inviteVars>>

\* and Invitations().Create.
InviteCreate(t, i) ==
    /\ call[t].pc = "invite"
    /\ inv[i] = "none"
    /\ inv' = [inv EXCEPT ![i] = "pending"]
    /\ invitee' = [invitee EXCEPT ![i] = call[t].target]
    /\ inviter' = [inviter EXCEPT ![i] = call[t].actor]
    /\ offer' = [offer EXCEPT ![i] = call[t].role]
    /\ Return(t, call)
    /\ UNCHANGED <<topicVars, memberVars, due, contested, joined>>

\* expires_at passes.
InvitationDue(i) ==
    /\ inv[i] # "none" /\ i \notin due
    /\ due' = due \cup {i}
    /\ UNCHANGED <<topicVars, memberVars, call, inv, invitee, inviter, offer, contested, joined>>

\* Invitations().ExpirePending
ExpirePending(i) ==
    /\ inv[i] = "pending" /\ i \in due
    /\ inv' = [inv EXCEPT ![i] = "expired"]
    /\ call' = Answered(i, {})
    /\ UNCHANGED <<topicVars, memberVars, due, invitee, inviter, offer, contested, joined>>

\* AcceptInvitation: GetByToken and the checks,
AcceptInvitation(t, i, u) ==
    /\ inv[i] = "pending"
    /\ \/ /\ i \in due
          /\ Begin(t, [Idle EXCEPT !.actor = u, !.inv = i, !.pc = "answer", !.answer = "expired"])
       \/ /\ i \notin due /\ invitee[i] \in {u, NoUser}
          /\ Begin(t, [Idle EXCEPT !.actor = u, !.inv = i, !.pc = "join"])
    /\ UNCHANGED <<topicVars, memberVars, inviteVars>>

\* Members().Create
AcceptJoin(t) ==
    LET u == call[t].actor  i == call[t].inv IN
    /\ call[t].pc = "join"
    /\ \/ /\ Create(u, offer[i])
          /\ joined' = [joined EXCEPT ![i] = @ \cup {u}]
          /\ contested' = IF Overlapped(t, i) THEN contested \cup {i} ELSE contested
          /\ Goto(t, call, "accepted")
       \/ /\ IsMember(u)
          /\ Return(t, call)
          /\ UNCHANGED <<role, gen, contested, joined>>
    /\ UNCHANGED <<topicVars, blind, inv, due, invitee, inviter, offer>>

AcceptWrite_Unsaved(t) ==
    /\ call[t].pc = "accepted"
    /\ Return(t, call)
    /\ UNCHANGED <<topicVars, memberVars, inviteVars>>

\* and Invitations().Update, whose error is ignored.
AcceptWrite(t) ==
    LET i == call[t].inv IN
    /\ call[t].pc = "accepted"
    /\ \/ inv' = [inv EXCEPT ![i] = "accepted"] /\ UNCHANGED contested
       \/ contested' = contested \cup {i} /\ UNCHANGED inv
    /\ Return(t, Answered(i, {t}))
    /\ UNCHANGED <<topicVars, memberVars, due, invitee, inviter, offer, joined>>

\* DeclineInvitation: GetByToken and the checks,
DeclineInvitation(t, i, u) ==
    /\ inv[i] = "pending" /\ invitee[i] \in {u, NoUser}
    /\ Begin(t, [Idle EXCEPT !.actor = u, !.inv = i, !.pc = "answer", !.answer = "declined"])
    /\ UNCHANGED <<topicVars, memberVars, inviteVars>>

\* CancelInvitation: Invitations().Get,
CancelInvitation(t, i, u) ==
    /\ inv[i] = "pending"
    /\ Begin(t, [Idle EXCEPT !.actor = u, !.inv = i, !.answer = "cancelled",
                             !.pc = IF inviter[i] = u THEN "answer" ELSE "canceller"])
    /\ UNCHANGED <<topicVars, memberVars, inviteVars>>

\* GetRole, when it is not the inviter who cancels,
CancelRole(t) ==
    /\ call[t].pc = "canceller"
    /\ \/ IsOwner(call[t].actor) /\ Goto(t, call, "answer")
       \/ ~IsOwner(call[t].actor) /\ Return(t, call)
    /\ UNCHANGED <<topicVars, memberVars, inviteVars>>

\* and for all three Invitations().Update.
AnswerWrite(t) ==
    LET i == call[t].inv IN
    /\ call[t].pc = "answer"
    /\ inv' = [inv EXCEPT ![i] = call[t].answer]
    /\ contested' = IF Overlapped(t, i) THEN contested \cup {i} ELSE contested
    /\ Return(t, Answered(i, {t}))
    /\ UNCHANGED <<topicVars, memberVars, due, invitee, inviter, offer, joined>>

\* The context of a call is cancelled, or a statement fails: it returns.
Abandon(t) ==
    /\ call[t].pc \notin {"idle", "done"}
    /\ blind' = (blind \/ call[t].pc = "owner")
    /\ contested' = IF call[t].pc = "accepted" THEN contested \cup {call[t].inv} ELSE contested
    /\ Return(t, call)
    /\ UNCHANGED <<topicVars, role, gen, inv, due, invitee, inviter, offer, joined>>

-----------------------------------------------------------------------------

Next ==
    \/ \E t \in Calls :
        \/ \E u \in Users :
            \/ CreateTopic(t, u) \/ UpdateTopic(t, u) \/ DeleteTopic(t, u)
            \/ Subscribe(t, u) \/ Unsubscribe(t, u) \/ RestoreTopic(t, u)
            \/ \E v \in Users :
                \/ \E r \in Roles : UpdateMemberRole(t, u, v, r)
                \/ TransferOwnership(t, u, v)
                \/ RemoveMember(t, u, v)
            \/ \E v \in Users \cup {NoUser}, r \in Roles : InviteMember(t, u, v, r)
            \/ \E i \in Invites :
                \/ AcceptInvitation(t, i, u)
                \/ DeclineInvitation(t, i, u)
                \/ CancelInvitation(t, i, u)
        \/ CreateTopicInsert(t) \/ CreateTopicOwner(t)
        \/ EditTopicRole(t) \/ UpdateTopicWrite(t) \/ DeleteTopicWrite(t)
        \/ SubscribeCreate(t)
        \/ EditMemberGet(t) \/ CountOwners(t) \/ SetRole(t) \/ Remove(t)
        \/ RestoreGet(t) \/ RestoreWrite(t) \/ RestoreList(t) \/ RestorePurge(t)
        \/ \E i \in Invites : InviteCreate(t, i)
        \/ AcceptJoin(t) \/ AcceptWrite(t) \/ CancelRole(t) \/ AnswerWrite(t)
        \/ Abandon(t)
    \/ \E i \in Invites : InvitationDue(i) \/ ExpirePending(i)

Spec == Init /\ [][Next]_vars

-----------------------------------------------------------------------------
(***************************************************************************)
(* Properties                                                              *)
(***************************************************************************)

\* The topic always has an owner (ErrCannotRemoveLastOwner).  The exceptions
\* are exact: an owner was removed or demoted by a call that had looked at the
\* owners before another removal, or at the member before it became an owner,
\* or whose lookup of the role failed; or the membership of the creator could
\* not be stored.
KeepsOwner ==
    topic # "none" /\ (\A t \in Calls : call[t].pc # "owner") => blind \/ Owners # {}

\* An invitation is answered once: it has made one user a member and is
\* accepted, or it has made nobody a member and is not.  The exception is an
\* answer by a call that read the invitation before another answer was stored,
\* or a failure to store that it was accepted.
OneAnswer ==
    \A i \in Invites :
        \/ i \in contested
        \/ \E t \in Calls : call[t].pc = "accepted" /\ call[t].inv = i
        \/ IF inv[i] = "accepted" THEN \E u \in Users : joined[i] = {u} ELSE joined[i] = {}

====
