------------------------------ MODULE Notices ------------------------------
(***************************************************************************)
(* The notifications of one recipient about one source (src/notifications: *)
(* services/notification_services.py, dispatcher.py, tasks.py, views.py,   *)
(* and the services that create and dispatch).                             *)
(*                                                                         *)
(* Something happens (an event); its notification is created, in the       *)
(* transaction of the call or in a task of its own, and a task is queued   *)
(* to dispatch it over the socket and as a push.  A call inside a          *)
(* transaction queues that task before it commits.  Tasks are acknowledged *)
(* late: the task of a lost worker runs again from its start, the creating *)
(* one under a new primary key.  MaxTries bounds the keys of an event,     *)
(* MaxNoticeLosses the workers lost, MaxInboxCalls the recipient's calls.   *)
(***************************************************************************)
EXTENDS Integers, Sequences, FiniteSets

CONSTANTS
  Happenings,       \* likes, comments, ... that somebody is told of
  NoticeActors,     \* users whose doing they are
  PreviewLimit,     \* BATCH_PREVIEW_LIMIT
  MaxTries,         \* bound: attempts to create one event's notification
  MaxNoticeLosses,  \* bound: workers lost
  MaxInboxCalls     \* bound: calls of the recipient

ASSUME PreviewNat   == PreviewLimit \in Nat \ {0}
ASSUME NoticeBounds == MaxTries \in Nat \ {0} /\ MaxNoticeLosses \in Nat /\ MaxInboxCalls \in Nat
ASSUME HappeningsFinite == IsFiniteSet(Happenings)

VARIABLES
  creating,   \* creating[h]: where the creation of h's notification is
  notice,     \* notice[n]: the committed Notification row of key n
  batch,      \* the NotificationBatch row of the group
  muted,      \* actors the recipient has muted
  channels,   \* channels the recipient has on
  delivery,   \* delivery[n]: where the dispatch of n is
  pushed,       \* pushed[n]: how often n went out, over each channel
  repeats,    \* repeats[n]: losses of a worker between sending and recording
  noticeLosses,  \* workers that may still be lost
  inboxCalls  \* calls of the recipient still to come

noticeVars == <<creating, notice, batch, muted, channels, delivery, pushed,
                repeats, noticeLosses, inboxCalls>>

Channels   == {"ws", "push"}
Keys       == Happenings \X (1 .. MaxTries)
NoNotice   == [state |-> "none"]
NoticeRows == [state : {"there", "hidden", "erased"}, actor : NoticeActors,
               muted : BOOLEAN, flags : SUBSET Channels]
NoBatch    == [total |-> 0]
Previews   == UNION {[1 .. k -> NoticeActors] : k \in 0 .. PreviewLimit}
\* born: the notification that began the batch, for the primary key of its row.
BatchRows  == [total : Nat, preview : Previews, latest : Keys, born : Keys]
Creations  ==
  [at : {"new", "done", "failed"}, try : 1 .. MaxTries]
  \cup [at : {"checked", "written", "queued", "committed"}, try : 1 .. MaxTries,
        actor : NoticeActors, inside : BOOLEAN, quiet : BOOLEAN, seen : BatchRows \cup {NoBatch}]
NotQueued  == [at |-> "none"]
Deliveries == [at : {"none", "queued", "over"}]
              \cup [at : {"ws", "push"}, stage : {"send", "record"},
                    flags : SUBSET Channels, on : SUBSET Channels]

NoticeInit ==
  /\ creating = [h \in Happenings |-> [at |-> "new", try |-> 1]]
  /\ notice = [n \in Keys |-> NoNotice]
  /\ batch = NoBatch /\ muted = {} /\ channels = Channels
  /\ delivery = [n \in Keys |-> NotQueued]
  /\ pushed = [n \in Keys |-> [ch \in Channels |-> 0]]
  /\ repeats = [n \in Keys |-> [ch \in Channels |-> 0]]
  /\ noticeLosses = MaxNoticeLosses /\ inboxCalls = MaxInboxCalls

Key(h)      == <<h, creating[h].try>>
Goes(h, to) == creating' = [creating EXCEPT ![h] = to]
Fails(h)    == Goes(h, [at |-> "failed", try |-> creating[h].try])
               /\ UNCHANGED <<notice, batch, delivery>>

-----------------------------------------------------------------------------
(* Creation *)

\* create(): the mutes of the recipient, then the batch of the group; inside
\* says that the caller has a transaction open.  A notification of high priority
\* would ignore the mutes, but every caller of create() gives a normal one.
Happens(h) ==
  /\ creating[h].at = "new"
  /\ \E a \in NoticeActors, inside \in BOOLEAN :
       /\ inside => creating[h].try = 1
       /\ Goes(h, [at |-> "checked", try |-> creating[h].try, actor |-> a,
                   inside |-> inside, quiet |-> a \in muted, seen |-> batch])
  /\ UNCHANGED <<notice, batch, muted, channels, delivery, pushed, repeats, noticeLosses, inboxCalls>>

\* The rows are written, and held until the commit: a second writer of the
\* batch waits for it.  A batch that was inserted or deleted meanwhile fails
\* the insert or the refresh, and the callers log the exception.
SameBatch(seen) == IF seen = NoBatch \/ batch = NoBatch THEN seen = batch
                   ELSE seen.born = batch.born
Holding == {h \in Happenings : creating[h].at \in {"written", "queued"} /\ ~creating[h].quiet}
WriteNotice(h) ==
  LET c == creating[h]
  IN  /\ c.at = "checked"
      /\ c.quiet \/ Holding = {}
      /\ IF ~c.quiet /\ ~SameBatch(c.seen) THEN Fails(h)
         ELSE Goes(h, [c EXCEPT !.at = "written"]) /\ UNCHANGED <<notice, batch, delivery>>
  /\ UNCHANGED <<muted, channels, pushed, repeats, noticeLosses, inboxCalls>>

\* _upsert_batch: the total as it is, the preview as it was read.
Preview(seen, a) ==
  IF \E i \in DOMAIN seen : seen[i] = a THEN seen
  ELSE SubSeq(<<a>> \o seen, 1, IF Len(seen) < PreviewLimit THEN Len(seen) + 1 ELSE PreviewLimit)
Upsert(c, n) ==
  IF batch = NoBatch THEN [total |-> 1, preview |-> <<c.actor>>, latest |-> n, born |-> n]
  ELSE [batch EXCEPT !.total = @ + 1, !.preview = Preview(c.seen.preview, c.actor), !.latest = n]
Commit(h) ==
  LET c == creating[h]
  IN  /\ \/ c.at = "written" /\ ~c.inside
         \/ c.at = "queued"
      /\ notice' = [notice EXCEPT ![Key(h)] =
           [state |-> "there", actor |-> c.actor, muted |-> c.quiet,
            flags |-> IF c.quiet THEN Channels ELSE {}]]
      /\ batch' = IF c.quiet THEN batch ELSE Upsert(c, Key(h))
      /\ Goes(h, IF c.inside THEN [at |-> "done", try |-> c.try] ELSE [c EXCEPT !.at = "committed"])
      /\ UNCHANGED <<muted, channels, delivery, pushed, repeats, noticeLosses, inboxCalls>>

\* dispatch_notification.delay: before the commit inside a transaction.
Enqueue(h) ==
  LET c == creating[h]
  IN  /\ \/ c.at = "written" /\ c.inside
         \/ c.at = "committed"
      /\ delivery' = [delivery EXCEPT ![Key(h)] = [at |-> "queued"]]
      /\ Goes(h, IF c.inside THEN [c EXCEPT !.at = "queued"] ELSE [at |-> "done", try |-> c.try])
      /\ UNCHANGED <<notice, batch, muted, channels, pushed, repeats, noticeLosses, inboxCalls>>

\* The process ends: what is uncommitted is undone, a call is not repeated,
\* a task starts again.
CreatorLost(h) ==
  LET c == creating[h]
  IN  /\ c.at \in {"checked", "written", "queued", "committed"}
      /\ noticeLosses > 0 /\ noticeLosses' = noticeLosses - 1
      /\ IF c.inside \/ c.try = MaxTries THEN Goes(h, [at |-> "failed", try |-> c.try])
         ELSE Goes(h, [at |-> "new", try |-> c.try + 1])
      /\ UNCHANGED <<notice, batch, muted, channels, delivery, pushed, repeats, inboxCalls>>

-----------------------------------------------------------------------------
(* Dispatch *)

Stays == UNCHANGED <<creating, batch, muted, channels, inboxCalls>>
At(n, to) == delivery' = [delivery EXCEPT ![n] = to]
WrittenFor(n) == notice[n] # NoNotice /\ notice[n].state # "erased"

\* Read once: the row, with its flags, and the preferences.
Load(n) ==
  /\ delivery[n] = [at |-> "queued"]
  /\ At(n, IF WrittenFor(n) THEN [at |-> "ws", stage |-> "send", flags |-> notice[n].flags, on |-> channels]
           ELSE [at |-> "over"])
  /\ UNCHANGED <<notice, pushed, repeats, noticeLosses>> /\ Stays

Onward(n) == IF delivery[n].at = "ws" THEN [delivery[n] EXCEPT !.at = "push", !.stage = "send"]
             ELSE [at |-> "over"]
\* A bug the properties would find: the flags forgotten.
WantedAnyhow(n) == delivery[n].at \in delivery[n].on
Wanted(n) == delivery[n].at \in delivery[n].on \ delivery[n].flags
Send(n) ==
  /\ delivery[n].at \in Channels /\ delivery[n].stage = "send"
  /\ IF Wanted(n)
     THEN /\ pushed' = [pushed EXCEPT ![n][delivery[n].at] = @ + 1]
          /\ At(n, [delivery[n] EXCEPT !.stage = "record"])
     ELSE At(n, Onward(n)) /\ UNCHANGED pushed
  /\ UNCHANGED <<notice, repeats, noticeLosses>> /\ Stays
\* record_ws_sent, record_push_sent; a row that is gone raises, and is logged.
Record(n) ==
  /\ delivery[n].at \in Channels /\ delivery[n].stage = "record"
  /\ notice' = IF WrittenFor(n) THEN [notice EXCEPT ![n].flags = @ \cup {delivery[n].at}] ELSE notice
  /\ At(n, Onward(n))
  /\ UNCHANGED <<pushed, repeats, noticeLosses>> /\ Stays

DispatcherLost(n) ==
  /\ delivery[n].at \in Channels
  /\ noticeLosses > 0 /\ noticeLosses' = noticeLosses - 1
  /\ repeats' = IF delivery[n].stage = "record"
                THEN [repeats EXCEPT ![n][delivery[n].at] = @ + 1] ELSE repeats
  /\ At(n, [at |-> "queued"])
  /\ UNCHANGED <<notice, pushed>> /\ Stays

-----------------------------------------------------------------------------
(* The recipient *)

Inbox ==
  /\ inboxCalls > 0 /\ inboxCalls' = inboxCalls - 1
  /\ UNCHANGED <<creating, delivery, pushed, repeats, noticeLosses>>

\* One notification is hidden; deleting all erases every row still shown, and
\* with its latest row the batch, unless a writer holds it.
Hide(n) ==
  /\ notice[n] # NoNotice /\ notice[n].state = "there"
  /\ notice' = [notice EXCEPT ![n].state = "hidden"]
  /\ Inbox /\ UNCHANGED <<batch, muted, channels>>
Shown == {n \in Keys : notice[n] # NoNotice /\ notice[n].state = "there"}
EraseAll ==
  /\ Shown # {} /\ Holding = {}
  /\ notice' = [n \in Keys |-> IF n \in Shown THEN [notice[n] EXCEPT !.state = "erased"] ELSE notice[n]]
  /\ batch' = IF batch # NoBatch /\ batch.latest \in Shown THEN NoBatch ELSE batch
  /\ Inbox /\ UNCHANGED <<muted, channels>>
Mute(a)    == muted' = muted \cup {a} /\ Inbox /\ UNCHANGED <<notice, batch, channels>>
Unmute(a)  == a \in muted /\ muted' = muted \ {a} /\ Inbox /\ UNCHANGED <<notice, batch, channels>>
Prefer(on) == channels' = on /\ Inbox /\ UNCHANGED <<notice, batch, muted>>

-----------------------------------------------------------------------------
NoticeNext ==
  \/ \E h \in Happenings : Happens(h) \/ WriteNotice(h) \/ Commit(h) \/ Enqueue(h) \/ CreatorLost(h)
  \/ \E n \in Keys : Load(n) \/ Send(n) \/ Record(n) \/ DispatcherLost(n) \/ Hide(n)
  \/ EraseAll
  \/ \E a \in NoticeActors : Mute(a) \/ Unmute(a)
  \/ \E on \in SUBSET Channels : Prefer(on)

NoticeSpec == NoticeInit /\ [][NoticeNext]_noticeVars

-----------------------------------------------------------------------------
(* Properties *)

\* Every row, task and creation keeps its type.
NoticeTypeOK ==
  /\ creating \in [Happenings -> Creations]
  /\ notice \in [Keys -> NoticeRows \cup {NoNotice}]
  /\ batch \in BatchRows \cup {NoBatch}
  /\ muted \subseteq NoticeActors /\ channels \subseteq Channels
  /\ delivery \in [Keys -> Deliveries]
  /\ pushed \in [Keys -> [Channels -> Nat]] /\ repeats \in [Keys -> [Channels -> Nat]]
  /\ noticeLosses \in 0 .. MaxNoticeLosses /\ inboxCalls \in 0 .. MaxInboxCalls

\* A notification goes out over a channel once, and once more for every worker
\* that was lost between sending it and recording so; one that was created
\* while its actor was muted never goes out.
SentOnce ==
  \A n \in Keys, ch \in Channels :
    /\ pushed[n][ch] <= 1 + repeats[n][ch]
    /\ notice[n] # NoNotice /\ notice[n].muted => pushed[n][ch] = 0

\* What is announced was committed: nobody is told of a transaction that was
\* rolled back, although its dispatch is queued before it ends.
AnnouncedIsCommitted ==
  \A n \in Keys : notice[n] = NoNotice =>
    delivery[n].at \notin Channels /\ \A ch \in Channels : pushed[n][ch] = 0

\* A key is used in one attempt and in its order: no row before the attempt has
\* committed it, no dispatch before it has queued one; a call inside a
\* transaction queues first, the others commit first.
Before(n, stages) == LET c == creating[n[1]] IN n[2] > c.try \/ (n[2] = c.try /\ c.at \in stages)
KeysInOrder ==
  /\ \A n \in Keys :
       /\ Before(n, {"new", "checked", "written", "queued"}) => notice[n] = NoNotice
       /\ Before(n, {"new", "checked", "written", "committed"}) => delivery[n] = NotQueued
  /\ \A h \in Happenings : LET c == creating[h] IN
       /\ c.at = "queued" => c.inside
       /\ c.at = "committed" => ~c.inside

\* is_sent_ws and is_sent_push are true of what was pushed, and of what was
\* muted.
FlagsHonest ==
  \A n \in Keys : notice[n] # NoNotice =>
    /\ \A ch \in notice[n].flags : pushed[n][ch] > 0 \/ notice[n].muted
    /\ notice[n].muted => notice[n].flags = Channels

\* A dispatch works from flags that were true when it read them, so what it
\* still means to send has gone out no more often than workers were lost.
Recording(n, ch) == delivery[n].at = ch /\ delivery[n].stage = "record"
ToCome(n, ch)    == \/ delivery[n].at = ch /\ delivery[n].stage = "send"
                    \/ delivery[n].at = "ws" /\ ch = "push"
DispatchInStep ==
  \A n \in Keys :
    /\ delivery[n].at \in Channels => /\ delivery[n].flags \subseteq notice[n].flags
                                      /\ notice[n].muted => delivery[n].flags = Channels
    /\ \A ch \in Channels :
         /\ Recording(n, ch) => pushed[n][ch] > 0
         /\ ToCome(n, ch) /\ ch \notin delivery[n].flags => pushed[n][ch] <= repeats[n][ch]
         /\ WrittenFor(n) /\ ch \notin notice[n].flags /\ ~Recording(n, ch) => pushed[n][ch] <= repeats[n][ch]

\* The batch counts no more than the notifications there were, shows actors of
\* theirs, each once, and its latest one was never erased.
Grouped == {n \in Keys : notice[n] # NoNotice /\ ~notice[n].muted}
ShowsGrouped(preview) ==
  /\ \A i \in DOMAIN preview : \E n \in Grouped : notice[n].actor = preview[i]
  /\ \A i, j \in DOMAIN preview : i # j => preview[i] # preview[j]
BatchHonest ==
  batch # NoBatch =>
    /\ batch.total <= Cardinality(Grouped)
    /\ batch.latest \in Grouped /\ WrittenFor(batch.latest)
    /\ ShowsGrouped(batch.preview)

\* One creation at a time writes the batch, the batch it writes is the one it
\* had read, and what it had read of it was true.
BatchHeld ==
  /\ \A h \in Holding : SameBatch(creating[h].seen) /\ \A o \in Holding : o = h
  /\ \A h \in Happenings : creating[h].at \in {"checked", "written", "queued"} /\ creating[h].seen # NoBatch =>
       ShowsGrouped(creating[h].seen.preview)

\* Notifications as a whole: what is announced exists, goes out once, and
\* flags and batch tell what happened, although tasks run again.
NoticeInv ==
  /\ NoticeTypeOK /\ SentOnce /\ AnnouncedIsCommitted /\ KeysInOrder
  /\ FlagsHonest /\ DispatchInStep /\ BatchHonest /\ BatchHeld
=============================================================================
