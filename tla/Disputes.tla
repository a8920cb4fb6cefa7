------------------------------ MODULE Disputes ------------------------------
(***************************************************************************)
(* Ticket disputes (src/tickets/services/dispute_service.py) on top of the *)
(* chat they use: a dispute opens a group conversation of the buyer and    *)
(* the seller, without an owner; moderators join it as its admins; the     *)
(* resolution locks it.  Chats and disputes write the same rows, each with *)
(* its own checks: the frames of Chats run in between every step.          *)
(*                                                                         *)
(* A REST call reads the dispute (get_object, or the duplicate check), and *)
(* writes later what it had read; no row is locked.                        *)
(***************************************************************************)
EXTENDS Chats

CONSTANTS
  DisputeIds,   \* disputes that may come to exist, all for one sold ticket
  Buyer,        \* the ticket's buyer
  Seller,       \* the event's seller
  Moderators,   \* the staff
  Desks         \* threads serving dispute calls

ASSUME DisputeUsers == Buyer \in ChatUsers /\ Seller \in ChatUsers /\ Moderators \subseteq ChatUsers
ASSUME PartiesDiffer == Buyer # Seller

VARIABLES
  dispute,   \* dispute[d]: the Dispute row: status, moderator, conversation
  desk       \* desk[w]: the call that thread w serves

deskVars    == <<dispute, desk>>
disputeVars == <<chatVars, deskVars>>

NoDispute  == [status |-> "none"]
Resolved   == {"resolved_buyer", "resolved_seller", "closed"}
DisputeRows == [status : {"open", "under_review"} \cup Resolved,
                moderator : SUBSET Moderators, room : Convs]
NoCall     == [call |-> "idle"]
DeskCalls  == {NoCall, [call |-> "open"]}
              \cup [call : {"assign"}, d : DisputeIds, by : Moderators]
              \cup [call : {"resolve"}, d : DisputeIds, by : Moderators, to : Resolved]

DisputeInit ==
  /\ ChatInit
  /\ dispute = [d \in DisputeIds |-> NoDispute]
  /\ desk = [w \in Desks |-> NoCall]

\* A call passes its checks and will write.
Serve(w, call) ==
  /\ desk[w] = NoCall /\ frames > 0
  /\ frames' = frames - 1
  /\ desk' = [desk EXCEPT ![w] = call]
  /\ UNCHANGED <<tables, sock, online, handler, dispute>>
Served(w) == desk' = [desk EXCEPT ![w] = NoCall]

\* open_dispute: an unclosed dispute of the ticket is returned as it is.
Unclosed == {d \in DisputeIds : dispute[d] # NoDispute /\ dispute[d].status # "closed"}
BeginOpen(w) == Unclosed = {} /\ Serve(w, [call |-> "open"])

\* The conversation, its two members and the dispute, in one transaction.
\* Nobody's socket is told to join.
CommitOpen(w) ==
  /\ desk[w] = [call |-> "open"]
  /\ \E c \in Convs, d \in DisputeIds :
       /\ Fresh(c) /\ dispute[d] = NoDispute
       /\ conv' = [conv EXCEPT ![c].kind = "group"]
       /\ row' = [row EXCEPT ![c] = [u \in ChatUsers |->
                    IF u \in {Buyer, Seller} THEN MemberAs("member") ELSE @[u]]]
       /\ dispute' = [dispute EXCEPT ![d] =
                        [status |-> "open", moderator |-> {}, room |-> c]]
  /\ Served(w)
  /\ UNCHANGED <<request, msg, calls, sock, online, handler, frames>>

Undecided(d) == dispute[d] # NoDispute /\ dispute[d].status \notin Resolved
BeginAssign(w, d, m) ==
  Undecided(d) /\ Serve(w, [call |-> "assign", d |-> d, by |-> m])

\* assign_moderator: status and moderator are saved and the moderator gets a
\* row, unless there is one, in one transaction.
CommitAssign(w) ==
  LET f == desk[w]
      c == dispute[f.d].room
  IN  /\ f.call = "assign"
      /\ dispute' = [dispute EXCEPT ![f.d].status = "under_review",
                                    ![f.d].moderator = {f.by}]
      /\ row' = [row EXCEPT ![c][f.by] = IF @.state = "none" THEN MemberAs("admin") ELSE @]
      /\ Served(w)
      /\ UNCHANGED <<conv, request, msg, calls, sock, online, handler, frames>>

BeginResolve(w, d, m, to) ==
  Undecided(d) /\ Serve(w, [call |-> "resolve", d |-> d, by |-> m, to |-> to])

\* resolve: the moderator who decides need not be in the conversation.
CommitResolve(w) ==
  LET f == desk[w]
  IN  /\ f.call = "resolve"
      /\ dispute' = [dispute EXCEPT ![f.d].status = f.to, ![f.d].moderator = {f.by}]
      /\ conv' = [conv EXCEPT ![dispute[f.d].room].locked = TRUE]
      /\ Served(w)
      /\ UNCHANGED <<row, request, msg, calls, sock, online, handler, frames>>

DisputeStep(w) ==
  \/ BeginOpen(w) \/ CommitOpen(w) \/ CommitAssign(w) \/ CommitResolve(w)
  \/ \E d \in DisputeIds, m \in Moderators :
       \/ BeginAssign(w, d, m)
       \/ \E to \in Resolved : BeginResolve(w, d, m, to)

DisputeNext ==
  \/ ChatNext /\ UNCHANGED deskVars
  \/ \E w \in Desks : DisputeStep(w) /\ UNCHANGED untold

DisputeSpec == DisputeInit /\ [][DisputeNext]_disputeVars

-----------------------------------------------------------------------------
(* Properties *)

\* The buyer and the seller of a dispute have, or had, a seat in its room,
\* and so has the moderator of one under review, however assignments and
\* resolutions overlap.
RoomsSeated ==
  \A d \in DisputeIds : dispute[d] # NoDispute =>
    LET c == dispute[d].room
    IN  /\ Group(c)
        /\ \A u \in {Buyer, Seller} : row[c][u].state # "none"
        /\ dispute[d].status = "under_review" =>
             \A m \in dispute[d].moderator : row[c][m].state # "none"

DisputeTypeOK ==
  /\ dispute \in [DisputeIds -> DisputeRows \cup {NoDispute}]
  /\ desk \in [Desks -> DeskCalls]

\* A call in flight is about a dispute that exists.
CallsAimed ==
  \A w \in Desks : desk[w].call \in {"assign", "resolve"} => dispute[desk[w].d] # NoDispute

\* Chats and disputes as a whole: membership, ownership, unread counters and
\* the seats of a dispute's room survive overlapping frames and calls.
DisputeInv == ChatInv /\ DisputeTypeOK /\ CallsAimed /\ RoomsSeated

\* A conversation of the chat itself: no dispute opened it.
Ordinary(c) == \A d \in DisputeIds : dispute[d] # NoDispute => dispute[d].room # c

\* A socket that has read its user's conversations hears every conversation
\* of the chat that the user is a member of, or somebody is about to tell it,
\* unless the teller died or the event was dropped: a membership written while
\* the socket connects, or while others are told, is not missed.  A dispute's
\* room is heard only by those who connect later or ask to.
OrdinaryMembersListen ==
  \A c \in Convs : Ordinary(c) => \A s \in ChatSockets :
    Listens(s) /\ IsMember(c, Me(s)) /\ <<s, c>> \notin untold => Hears(s, c)
=============================================================================
