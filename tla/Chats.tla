------------------------------- MODULE Chats -------------------------------
(***************************************************************************)
(* Conversations and the WebSocket consumers that serve them (src/chats).  *)
(*                                                                         *)
(* A consumer handles one thing at a time: a frame of its client or an     *)
(* event of its user's channel.  A frame that changes something is a       *)
(* handler of up to three steps: the reads that may refuse it, the writes  *)
(* with what was read (no row is locked in between, so another handler may *)
(* have changed it), and, after the commit, one event per user that is     *)
(* told of a conversation.  Whatever raises through a handler, as a broken *)
(* uniqueness constraint does, drops the socket without disconnect(), and  *)
(* so does a server that dies: nobody does the rest of the handler.        *)
(*                                                                         *)
(* The reads of one handler are taken together.  Broadcasts that clients   *)
(* only display (new_message, typing, presence, call signalling) change no *)
(* state here.  MaxFrames bounds connections and frames of a behaviour.    *)
(***************************************************************************)
EXTENDS Integers, FiniteSets

CONSTANTS
  ChatUsers,     \* users
  ChatSockets,   \* client connections; each may connect, drop and return
  SocketUser,    \* SocketUser[s]: whose connection it is
  Convs,         \* conversations that may come to exist
  Msgs,          \* messages that may come to exist
  GroupMin,      \* GROUP_MIN_MEMBERS
  GroupMax,      \* GROUP_MAX_MEMBERS
  MaxFrames      \* bound: connections made and frames (and calls of Disputes) handled

ASSUME ChatUsersFinite == IsFiniteSet(ChatUsers)
ASSUME MsgsFinite      == IsFiniteSet(Msgs)
ASSUME SocketsOwned    == SocketUser \in [ChatSockets -> ChatUsers]
ASSUME GroupSizes      == GroupMin \in Nat /\ GroupMax \in Nat
ASSUME FramesNat       == MaxFrames \in Nat

VARIABLES
  conv,      \* conv[c]: the Conversation row: kind, locked
  row,       \* row[c][u]: the ConversationMember row: state, role, unread
  request,   \* request[c][u]: JoinRequest.status
  msg,       \* msg[m]: the Message row: conv, sender, state, text
  calls,     \* <<caller, receiver, conversation>> of the CallLog rows
  sock,      \* sock[s]: the consumer: state, joined groups, unread events
  online,    \* users with a presence key in the cache
  handler,   \* handler[s]: the frame being handled
  untold,    \* history: <<s, c>> when s was to be told of c, and the handler
             \* died or the event was dropped
  frames     \* connections, frames and calls still to come

tables   == <<conv, row, request, msg, calls>>
chatVars == <<tables, sock, online, handler, untold, frames>>

Conversations == [kind : {"none", "direct", "group"}, locked : BOOLEAN]
Roles         == {"member", "admin", "owner"}
Memberships   == [state : {"none", "active", "left"}, role : Roles, unread : Nat]
RequestStates == {"none", "pending", "approved", "rejected"}
Messages      == [conv : Convs, sender : ChatUsers, deleted : BOOLEAN,
                  text : {"sent", "edited", "cleared"}]
NoMessage     == [text |-> "none"]
Consumers     == [state : {"closed", "opening", "joining", "open"}, joined : SUBSET Convs,
                  mail : SUBSET Convs]
ClosedSocket  == [state |-> "closed", joined |-> {}, mail |-> {}]
NoFrame       == [op |-> "idle"]
Frames ==
  {NoFrame}
  \cup [op : {"direct"}, who : ChatUsers]
  \cup [op : {"group"}, who : SUBSET ChatUsers]
  \cup [op : {"remove"}, c : Convs, who : ChatUsers, role : Roles]
  \cup [op : {"removing"}, c : Convs, who : ChatUsers, heir : SUBSET ChatUsers]
  \cup [op : {"lock"}, c : Convs, to : BOOLEAN]
  \cup [op : {"send", "read", "join"}, c : Convs]
  \cup [op : {"delete", "edit"}, m : Msgs]
  \cup [op : {"approve", "reject", "promote"}, c : Convs, who : ChatUsers]
  \cup [op : {"announce", "answered"}, c : Convs]
  \cup [op : {"add", "seated", "tell"}, c : Convs, who : SUBSET ChatUsers]

Me(s)           == SocketUser[s]
IsMember(c, u)  == row[c][u].state = "active"
IsAdmin(c, u)   == IsMember(c, u) /\ row[c][u].role \in {"admin", "owner"}
MembersOf(c)    == {u \in ChatUsers : IsMember(c, u)}
ConversationsOf(u) == {c \in Convs : IsMember(c, u)}
Group(c)        == conv[c].kind = "group"
Seated(c, u)    == row[c][u].state # "none"
NoRow           == [state |-> "none", role |-> "member", unread |-> 0]
MemberAs(role)  == [state |-> "active", role |-> role, unread |-> 0]
Fresh(c)        == conv[c].kind = "none"

ChatInit ==
  /\ conv = [c \in Convs |-> [kind |-> "none", locked |-> FALSE]]
  /\ row = [c \in Convs |-> [u \in ChatUsers |-> NoRow]]
  /\ request = [c \in Convs |-> [u \in ChatUsers |-> "none"]]
  /\ msg = [m \in Msgs |-> NoMessage]
  /\ calls = {}
  /\ sock = [s \in ChatSockets |-> ClosedSocket]
  /\ online = {}
  /\ handler = [s \in ChatSockets |-> NoFrame]
  /\ untold = {}
  /\ frames = MaxFrames

-----------------------------------------------------------------------------
(* Connections *)

\* connect: authenticated and accepted; the socket first joins its user's
\* own channel, only then reads the conversations.
Open(s) ==
  /\ sock[s].state = "closed" /\ frames > 0
  /\ sock' = [sock EXCEPT ![s].state = "opening"]
  /\ frames' = frames - 1
  /\ UNCHANGED <<tables, online, handler>>

\* The user's conversations are read, and joined one by one.
ReadConversations(s) ==
  /\ sock[s].state = "opening"
  /\ sock' = [sock EXCEPT ![s].state = "joining", ![s].joined = ConversationsOf(Me(s))]
  /\ untold' = {p \in untold : p[1] # s}
  /\ UNCHANGED <<tables, online, handler, frames>>

\* The presence key is set; only now are frames and events served.
SetOnline(s) ==
  /\ sock[s].state = "joining"
  /\ sock' = [sock EXCEPT ![s].state = "open"]
  /\ online' = online \cup {Me(s)}
  /\ UNCHANGED <<tables, handler, frames>>

\* disconnect: every group is left and the presence key deleted, whatever
\* other sockets the user has.
Disconnect(s) ==
  /\ sock[s].state = "open" /\ handler[s] = NoFrame
  /\ sock' = [sock EXCEPT ![s] = ClosedSocket]
  /\ online' = online \ {Me(s)}
  /\ UNCHANGED <<tables, handler, frames>>

\* The presence key of somebody without a connection expires; connected
\* clients ping in time, which extends a key that is still there.
PresenceExpires(u) ==
  /\ u \in online
  /\ \A s \in ChatSockets : Me(s) = u => sock[s].state # "open"
  /\ online' = online \ {u}
  /\ UNCHANGED <<tables, sock, handler, frames>>

\* The conversation_added event: joined without asking the database.
Deliver(s, c) ==
  /\ sock[s].state = "open" /\ handler[s] = NoFrame
  /\ c \in sock[s].mail
  /\ sock' = [sock EXCEPT ![s].mail = @ \ {c}, ![s].joined = @ \cup {c}]
  /\ UNCHANGED <<tables, online, handler, frames>>

-----------------------------------------------------------------------------
(* Reads of a handler *)

\* The frame is accepted and its handler goes on with what it read.
Ask(s, f) ==
  /\ sock[s].state = "open" /\ handler[s] = NoFrame
  /\ frames > 0
  /\ frames' = frames - 1
  /\ handler' = [handler EXCEPT ![s] = f]
  /\ UNCHANGED <<tables, sock, online>>

\* Convs and Msgs bound what may be created.
Pending(ops) == Cardinality({z \in ChatSockets : handler[z].op \in ops})
MoreConvs == Pending({"direct", "group"}) < Cardinality({c \in Convs : Fresh(c)})
MoreMsgs  == Pending({"send"}) < Cardinality({m \in Msgs : msg[m] = NoMessage})

\* get_or_create_direct_conversation: any conversation that both are in will
\* do, a group too.
Shared(u, v) == {c \in Convs : IsMember(c, u) /\ IsMember(c, v)}
AskDirect(s, u) ==
  \/ Shared(Me(s), u) = {} /\ MoreConvs /\ Ask(s, [op |-> "direct", who |-> u])
  \/ \E c \in Shared(Me(s), u) : Ask(s, [op |-> "announce", c |-> c])

GroupSized(who) == Cardinality(who) \in GroupMin .. GroupMax
AskGroup(s, who) ==
  /\ MoreConvs
  /\ GroupSized(who \cup {Me(s)})
  /\ Ask(s, [op |-> "group", who |-> who])

\* add_group_members: the names of the frame are never among the ids of the
\* members, which are of another type, so all count as new.
MayAdd(c, new) == Cardinality(MembersOf(c)) + Cardinality(new) <= GroupMax
AskAdd(s, c, who) ==
  /\ Group(c) /\ IsAdmin(c, Me(s))
  /\ MayAdd(c, who)
  /\ Ask(s, [op |-> "add", c |-> c, who |-> who])

\* remove_group_member: never oneself, never the owner.
MayRemoveAnyone(c, me, u) ==
  Group(c) /\ IsAdmin(c, me) /\ u # me /\ IsMember(c, u)
MayRemove(c, me, u) ==
  Group(c) /\ IsAdmin(c, me) /\ u # me /\ IsMember(c, u) /\ row[c][u].role # "owner"
AskRemove(s, c, u) ==
  /\ MayRemove(c, Me(s), u)
  /\ Ask(s, [op |-> "remove", c |-> c, who |-> u, role |-> row[c][u].role])

AskLock(s, c) ==
  /\ Group(c) /\ IsAdmin(c, Me(s))
  /\ Ask(s, [op |-> "lock", c |-> c, to |-> ~conv[c].locked])

\* The consumer asks for membership and the lock, send_message for the lock
\* again: what counts is the last answer before the writes.
MaySend(c, me) == conv[c].locked => IsAdmin(c, me)
AskSend(s, c) ==
  /\ MoreMsgs
  /\ IsMember(c, Me(s)) /\ MaySend(c, Me(s))
  /\ Ask(s, [op |-> "send", c |-> c])

\* delete_message: by the sender, or by an admin of the group.
MayDelete(m, me) ==
  /\ msg[m] # NoMessage
  /\ \/ msg[m].sender = me
     \/ Group(msg[m].conv) /\ IsAdmin(msg[m].conv, me)
AskDelete(s, m) == MayDelete(m, Me(s)) /\ Ask(s, [op |-> "delete", m |-> m])

MayEdit(m, me) == msg[m] # NoMessage /\ ~msg[m].deleted /\ msg[m].sender = me
AskEdit(s, m)  == MayEdit(m, Me(s)) /\ Ask(s, [op |-> "edit", m |-> m])

AskRead(s, c) == IsMember(c, Me(s)) /\ Ask(s, [op |-> "read", c |-> c])

\* request_to_join_group: a request that was rejected does not stop a second
\* one here, but the pair is unique in the table.
MayJoin(c, me) ==
  Group(c) /\ ~IsMember(c, me) /\ request[c][me] \notin {"pending", "approved"}
AskJoin(s, c) == MayJoin(c, Me(s)) /\ Ask(s, [op |-> "join", c |-> c])

MayProcess(c, me, u) == Group(c) /\ IsAdmin(c, me) /\ request[c][u] = "pending"
AskProcess(s, op, c, u) ==
  MayProcess(c, Me(s), u) /\ Ask(s, [op |-> op, c |-> c, who |-> u])

MayPromote(c, me, u) == IsAdmin(c, me) /\ IsMember(c, u) /\ row[c][u].role = "member"
AskPromote(s, c, u) ==
  MayPromote(c, Me(s), u) /\ Ask(s, [op |-> "promote", c |-> c, who |-> u])

-----------------------------------------------------------------------------
(* Writes of a handler *)

Handles(s, op) == handler[s].op = op
Onto(s, f)     == handler' = [handler EXCEPT ![s] = f]
Reply(s)       == Onto(s, NoFrame)
Announced(s, c)    == Onto(s, [op |-> "announce", c |-> c])
TellThem(s, c, who) == Onto(s, [op |-> "seated", c |-> c, who |-> who])

\* An IntegrityError that no handler catches: the transaction rolls back and
\* the consumer is gone; nothing is said to the cache.
DropSocket(s) ==
  /\ sock' = [sock EXCEPT ![s] = ClosedSocket]
  /\ Reply(s)
  /\ UNCHANGED <<tables, online, frames>>

DoDirect(s) ==
  /\ Handles(s, "direct")
  /\ \E c \in Convs :
       /\ Fresh(c)
       /\ conv' = [conv EXCEPT ![c].kind = "direct"]
       /\ row' = [row EXCEPT ![c] = [u \in ChatUsers |->
                    IF u \in {Me(s), handler[s].who} THEN MemberAs("member") ELSE @[u]]]
       /\ Announced(s, c)
  /\ UNCHANGED <<request, msg, calls, sock, online, frames>>

DoGroup(s) ==
  /\ Handles(s, "group")
  /\ \E c \in Convs :
       /\ Fresh(c)
       /\ conv' = [conv EXCEPT ![c].kind = "group"]
       /\ row' = [row EXCEPT ![c] = [u \in ChatUsers |->
                    IF u = Me(s) THEN MemberAs("owner")
                    ELSE IF u \in handler[s].who THEN MemberAs("member") ELSE @[u]]]
       /\ Announced(s, c)
  /\ UNCHANGED <<request, msg, calls, sock, online, frames>>

\* Somebody who has a row already, a member or one who has left, fails the
\* insert of them all.
InsertableBack(c, u) == row[c][u].state # "active"
Insertable(c, u)     == row[c][u].state = "none"
DoAdd(s) ==
  LET f == handler[s]
  IN  /\ Handles(s, "add")
      /\ IF \A u \in f.who : Insertable(f.c, u)
         THEN /\ row' = [row EXCEPT ![f.c] = [u \in ChatUsers |->
                           IF u \in f.who THEN MemberAs("member") ELSE @[u]]]
              /\ TellThem(s, f.c, f.who)
              /\ UNCHANGED <<conv, request, msg, calls, sock, online, frames>>
         ELSE DropSocket(s)

\* _auto_assign_admin_on_leave, inside the removal's transaction: it sees its
\* own removal but not those that others have not committed.  When nobody
\* else is an admin the oldest member is to become one.
Others(f) == MembersOf(f.c) \ {f.who}
Heirs(f) ==
  IF \E u \in Others(f) : IsAdmin(f.c, u) THEN {{}}
  ELSE IF Others(f) = {} THEN {{}} ELSE {{u} : u \in Others(f)}
FindHeir(s) ==
  LET f == handler[s]
  IN  /\ Handles(s, "remove") /\ f.role = "admin"
      /\ \E heir \in Heirs(f) :
           handler' = [handler EXCEPT ![s] =
             [op |-> "removing", c |-> f.c, who |-> f.who, heir |-> heir]]
      /\ UNCHANGED <<tables, sock, online, frames>>

\* The commit: left_at of the target and the role of the heir, no more.
Without(c, u, heir) ==
  [row EXCEPT ![c] = [v \in ChatUsers |->
     IF v = u THEN [@[v] EXCEPT !.state = "left"]
     ELSE IF v \in heir THEN [@[v] EXCEPT !.role = "admin"] ELSE @[v]]]
DoRemove(s) ==
  LET f == handler[s]
  IN  /\ \/ /\ Handles(s, "remove") /\ f.role # "admin"
            /\ row' = Without(f.c, f.who, {})
         \/ /\ Handles(s, "removing")
            /\ row' = Without(f.c, f.who, f.heir)
      /\ Reply(s)
      /\ UNCHANGED <<conv, request, msg, calls, sock, online, frames>>

DoLock(s) ==
  /\ Handles(s, "lock")
  /\ conv' = [conv EXCEPT ![handler[s].c].locked = handler[s].to]
  /\ Reply(s)
  /\ UNCHANGED <<row, request, msg, calls, sock, online, frames>>

\* The message, and one more unread for every other row, left ones included.
DoSend(s) ==
  LET c == handler[s].c
  IN  /\ Handles(s, "send")
      /\ \E m \in Msgs :
           /\ msg[m] = NoMessage
           /\ msg' = [msg EXCEPT ![m] = [conv |-> c, sender |-> Me(s),
                                         deleted |-> FALSE, text |-> "sent"]]
      /\ row' = [row EXCEPT ![c] = [u \in ChatUsers |->
                   IF u # Me(s) /\ Seated(c, u)
                   THEN [row[c][u] EXCEPT !.unread = @ + 1] ELSE row[c][u]]]
      /\ Reply(s)
      /\ UNCHANGED <<conv, request, calls, sock, online, frames>>

DoDelete(s) ==
  /\ Handles(s, "delete")
  /\ msg' = [msg EXCEPT ![handler[s].m].text = "cleared",
                        ![handler[s].m].deleted = TRUE]
  /\ Reply(s)
  /\ UNCHANGED <<conv, row, request, calls, sock, online, frames>>

\* Only the body and the edit marks are saved.
DoEdit(s) ==
  /\ Handles(s, "edit")
  /\ msg' = [msg EXCEPT ![handler[s].m].text = "edited"]
  /\ Reply(s)
  /\ UNCHANGED <<conv, row, request, calls, sock, online, frames>>

DoRead(s) ==
  /\ Handles(s, "read")
  /\ row' = [row EXCEPT ![handler[s].c][Me(s)].unread = 0]
  /\ Reply(s)
  /\ UNCHANGED <<conv, request, msg, calls, sock, online, frames>>

DoJoin(s) ==
  LET c == handler[s].c
  IN  /\ Handles(s, "join")
      /\ IF request[c][Me(s)] = "none"
         THEN /\ request' = [request EXCEPT ![c][Me(s)] = "pending"]
              /\ Reply(s)
              /\ UNCHANGED <<conv, row, msg, calls, sock, online, frames>>
         ELSE DropSocket(s)

DoApprove(s) ==
  LET f == handler[s]
  IN  /\ Handles(s, "approve")
      /\ IF Insertable(f.c, f.who)
         THEN /\ row' = [row EXCEPT ![f.c][f.who] = MemberAs("member")]
              /\ request' = [request EXCEPT ![f.c][f.who] = "approved"]
              /\ TellThem(s, f.c, {f.who})
              /\ UNCHANGED <<conv, msg, calls, sock, online, frames>>
         ELSE DropSocket(s)

DoReject(s) ==
  /\ Handles(s, "reject")
  /\ request' = [request EXCEPT ![handler[s].c][handler[s].who] = "rejected"]
  /\ Reply(s)
  /\ UNCHANGED <<conv, row, msg, calls, sock, online, frames>>

DoPromote(s) ==
  /\ Handles(s, "promote")
  /\ row' = [row EXCEPT ![handler[s].c][handler[s].who].role = "admin"]
  /\ Reply(s)
  /\ UNCHANGED <<conv, request, msg, calls, sock, online, frames>>

\* call.end writes the log with whoever ends the call as the caller; the
\* other call frames are relayed to the peer's channel unchanged.
EndCall(s, c, u) ==
  /\ sock[s].state = "open" /\ handler[s] = NoFrame
  /\ frames > 0 /\ ~Fresh(c) /\ u # Me(s)
  /\ frames' = frames - 1
  /\ calls' = calls \cup {<<Me(s), u, c>>}
  /\ UNCHANGED <<conv, row, request, msg, sock, online, handler>>

-----------------------------------------------------------------------------
(* Telling users, after the commit *)

\* The event carries the conversation with its last message, whose ids the
\* channel layer cannot pack: while there is a message, telling raises.
Packs(c) == \A m \in Msgs : msg[m] # NoMessage /\ msg[m].conv = c => msg[m].deleted

\* Whoever made the conversation joins it and is answered, then its members
\* are read.
JoinOwn(s) ==
  LET c == handler[s].c
  IN  /\ Handles(s, "announce") /\ Packs(c)
      /\ sock' = [sock EXCEPT ![s].joined = @ \cup {c}]
      /\ Onto(s, [op |-> "answered", c |-> c])
      /\ UNCHANGED <<tables, online, frames>>
ReadMembers(s) ==
  LET c == handler[s].c
  IN  /\ Handles(s, "answered")
      /\ Onto(s, [op |-> "tell", c |-> c, who |-> MembersOf(c)])
      /\ UNCHANGED <<tables, sock, online, frames>>
Pack(s) ==
  LET f == handler[s]
  IN  /\ Handles(s, "seated") /\ Packs(f.c)
      /\ Onto(s, [op |-> "tell", c |-> f.c, who |-> f.who])
      /\ UNCHANGED <<tables, sock, online, frames>>

\* Whose sockets an event reaches: those on the user's own channel.  One that
\* has joined the conversation, or is going to, learns nothing from it.
SubscribedLate(z) == sock[z].state = "open"
Subscribed(z)     == sock[z].state # "closed"
Reached(c, who) ==
  {z \in ChatSockets : Subscribed(z) /\ Me(z) \in who /\ c \notin sock[z].joined \cup sock[z].mail}
\* The sockets zs learn nothing of c; one that has not read its user's
\* conversations yet will find c there.
Listens(z) == sock[z].state \in {"joining", "open"}
Miss(c, zs) == untold' = untold \cup ({z \in zs : Listens(z)} \X {c})

\* conversation_added to the channel of one user after the other; a socket
\* whose queue is full is passed over.
TellOne(s, u) ==
  LET f == handler[s]
  IN  /\ Handles(s, "tell") /\ u \in f.who
      /\ \E got \in SUBSET Reached(f.c, {u}) :
           /\ sock' = [z \in ChatSockets |->
                IF z \in got THEN [sock[z] EXCEPT !.mail = @ \cup {f.c}] ELSE sock[z]]
           /\ Miss(f.c, Reached(f.c, {u}) \ got)
      /\ Onto(s, IF f.who = {u} THEN NoFrame ELSE [f EXCEPT !.who = @ \ {u}])
      /\ UNCHANGED <<tables, online, frames>>

\* A socket whose server dies, or whose handler raises between two steps:
\* whom it had still to tell is not told.
ToTell(f) ==
  IF f.op \in {"announce", "answered"} THEN MembersOf(f.c)
  ELSE IF f.op \in {"seated", "tell"} THEN f.who ELSE {}
LoseSocket(s) ==
  LET f == handler[s]
  IN  /\ sock[s].state # "closed"
      /\ DropSocket(s)
      /\ IF ToTell(f) = {} THEN UNCHANGED untold ELSE Miss(f.c, Reached(f.c, ToTell(f)) \ {s})

\* conversation.join, by a client that knows the conversation.
AskListen(s, c) ==
  /\ sock[s].state = "open" /\ handler[s] = NoFrame
  /\ frames > 0 /\ IsMember(c, Me(s))
  /\ frames' = frames - 1
  /\ sock' = [sock EXCEPT ![s].joined = @ \cup {c}]
  /\ UNCHANGED <<tables, online, handler>>

-----------------------------------------------------------------------------
Connection(s) == \/ Open(s) \/ SetOnline(s) \/ Disconnect(s)
                 \/ \E c \in Convs : Deliver(s, c) \/ AskListen(s, c)

FrameOf(s) ==
  /\ sock[s].state = "open" /\ handler[s] = NoFrame /\ frames > 0
  /\ \/ \E u \in ChatUsers \ {Me(s)} : AskDirect(s, u)
     \/ \E who \in SUBSET ChatUsers \ {{}} : AskGroup(s, who)
     \/ \E c \in Convs :
          \/ AskLock(s, c) \/ AskSend(s, c) \/ AskRead(s, c) \/ AskJoin(s, c)
          \/ \E who \in SUBSET ChatUsers \ {{}} : AskAdd(s, c, who)
          \/ \E u \in ChatUsers :
               \/ AskRemove(s, c, u) \/ AskPromote(s, c, u) \/ EndCall(s, c, u)
               \/ \E op \in {"approve", "reject"} : AskProcess(s, op, c, u)
     \/ \E m \in Msgs : AskDelete(s, m) \/ AskEdit(s, m)

Write(s) ==
  \/ DoDirect(s) \/ DoGroup(s) \/ DoAdd(s) \/ FindHeir(s) \/ DoRemove(s) \/ DoLock(s)
  \/ DoSend(s) \/ DoDelete(s) \/ DoEdit(s) \/ DoRead(s) \/ DoJoin(s)
  \/ DoApprove(s) \/ DoReject(s) \/ DoPromote(s)

Prepare(s) == JoinOwn(s) \/ ReadMembers(s) \/ Pack(s)

ChatNext ==
  \/ \E s \in ChatSockets : /\ Connection(s) \/ FrameOf(s) \/ Write(s) \/ Prepare(s)
                            /\ UNCHANGED untold
  \/ \E s \in ChatSockets : \/ ReadConversations(s) \/ LoseSocket(s)
                            \/ \E u \in ChatUsers : TellOne(s, u)
  \/ \E u \in ChatUsers : PresenceExpires(u) /\ UNCHANGED untold

-----------------------------------------------------------------------------
(* Properties *)

\* Every column and every consumer keeps its type.
ChatTypeOK ==
  /\ conv \in [Convs -> Conversations]
  /\ row \in [Convs -> [ChatUsers -> Memberships]]
  /\ request \in [Convs -> [ChatUsers -> RequestStates]]
  /\ msg \in [Msgs -> Messages \cup {NoMessage}]
  /\ calls \subseteq ChatUsers \X ChatUsers \X Convs
  /\ sock \in [ChatSockets -> Consumers]
  /\ online \subseteq ChatUsers
  /\ handler \in [ChatSockets -> Frames]
  /\ frames \in 0 .. MaxFrames

\* The owner of a group stays in it and stays its only owner, whatever
\* removals and promotions overlap.
OwnersStay ==
  \A c \in Convs, o \in ChatUsers : row[c][o].role = "owner" =>
    /\ IsMember(c, o)
    /\ \A u \in ChatUsers : row[c][u].role = "owner" => u = o

\* A request is approved only together with the member's row.
ApprovedJoined ==
  \A c \in Convs, u \in ChatUsers :
    request[c][u] = "approved" => row[c][u].state # "none"

\* Whoever wrote in a conversation, and whoever's socket hears it or is told
\* of it, is or has been one of its members.
OnlyMembersHear ==
  /\ \A m \in Msgs : msg[m] # NoMessage => row[msg[m].conv][msg[m].sender].state # "none"
  /\ \A s \in ChatSockets : \A c \in sock[s].joined \cup sock[s].mail :
       row[c][Me(s)].state # "none"

FromOthers(c, u) == {m \in Msgs : msg[m] # NoMessage /\ msg[m].conv = c /\ msg[m].sender # u}

\* Nobody is told of more unread messages than others have written.
UnreadCovered ==
  \A c \in Convs, u \in ChatUsers : row[c][u].unread <= Cardinality(FromOthers(c, u))

\* What these rest on: a conversation that is not there yet has no members, and
\* what a handler read of the rows it will write, or the users it will tell,
\* still holds when it does.  Nobody becomes or ceases to be an owner meanwhile.
Ordinate(c, u) == Seated(c, u) /\ row[c][u].role # "owner"
FreshUnseated  == \A c \in Convs : Fresh(c) => \A u \in ChatUsers : ~Seated(c, u)
Aimed(s, f) ==
  /\ f.op \in {"add", "approve"} => ~Fresh(f.c)
  /\ f.op \in {"remove", "removing", "promote"} => Ordinate(f.c, f.who)
  /\ f.op = "removing" => \A u \in f.heir : Ordinate(f.c, u)
  /\ f.op = "send" => Seated(f.c, Me(s))
  /\ f.op \in {"delete", "edit"} => msg[f.m] # NoMessage
  /\ f.op \in {"announce", "answered"} => Seated(f.c, Me(s))
  /\ f.op \in {"seated", "tell"} => \A u \in f.who : Seated(f.c, u)
FramesAimed == \A s \in ChatSockets : Aimed(s, handler[s])

\* The conversations by themselves: what overlapping frames of several sockets
\* never bend in memberships, messages and counters.
ChatInv == /\ ChatTypeOK /\ OwnersStay /\ ApprovedJoined /\ OnlyMembersHear /\ UnreadCovered
           /\ FreshUnseated /\ FramesAimed

\* Socket s hears conversation c, or somebody is about to tell it.
Telling(f, c, u) == \/ f.op \in {"announce", "answered"} /\ f.c = c
                    \/ f.op \in {"seated", "tell"} /\ f.c = c /\ u \in f.who
Hears(s, c) ==
  \/ c \in sock[s].joined \cup sock[s].mail
  \/ \E z \in ChatSockets : Telling(handler[z], c, Me(s))

\* No step brings a member who left back, takes a deletion back, makes a
\* processed request pending again or takes the ownership away.
PastIsPast ==
  /\ \A c \in Convs, u \in ChatUsers :
       /\ row[c][u].state = "left" => row'[c][u].state = "left"
       /\ row[c][u].role = "owner" => row'[c][u].role = "owner"
       /\ request[c][u] \in {"approved", "rejected"} => request'[c][u] # "pending"
  /\ \A m \in Msgs : msg[m] # NoMessage /\ msg[m].deleted => msg'[m].deleted
ChatPastKept == [][PastIsPast]_chatVars

ChatSpec == ChatInit /\ [][ChatNext]_chatVars
=============================================================================
