------------------------------ MODULE Displays ------------------------------
(***************************************************************************)
(* A display (a story that lives 24 hours): its views, likes and comments, *)
(* their counters, and the sweep that removes it (src/displays).           *)
(*                                                                         *)
(* A like is counted twice, once by DisplayService.toggle_like and once by *)
(* the signal of its row; so is its removal.  A view is inserted and       *)
(* counted in two transactions.  A display and a comment that are deleted  *)
(* by a user are only marked; the sweep deletes for real, row by row with  *)
(* the rows' signals, and never looks at a display that is marked.  A      *)
(* counter below zero fails the transaction it is written in.              *)
(* MaxDisplayLikes, MaxDisplayComments and MaxDisplayCalls are bounds.     *)
(* Nobody deletes an account here, which would take its likes, views and   *)
(* comments along.                                                         *)
(***************************************************************************)
EXTENDS Integers, FiniteSets

CONSTANTS
  Viewers,             \* users
  MaxDisplayLikes,     \* bound: like rows, numbered as they are created
  MaxDisplayComments,  \* bound: comment rows
  DisplayThreads,      \* threads serving calls
  MaxDisplayCalls      \* bound: calls and sweeps begun

ASSUME ViewersFinite == IsFiniteSet(Viewers)
ASSUME DisplayThreadsFinite == IsFiniteSet(DisplayThreads)
ASSUME DisplayNats   == /\ MaxDisplayLikes \in Nat /\ MaxDisplayComments \in Nat
                        /\ MaxDisplayCalls \in Nat

VARIABLES
  display,       \* the row: its state, past its hour or not, and its counters
  fan,           \* fan[u]: primary key of u's DisplayLike row, 0 when none
  fanKeys,       \* keys given so far
  viewRows,      \* users with a DisplayView row
  remarks,       \* DisplayComment rows, the marked ones included
  hidden,        \* how many of them are marked deleted
  displayCall,   \* displayCall[t]: the call or sweep that thread t runs
  displayLeft,   \* calls and sweeps still to come
  lostViews,     \* history: workers lost between a view and its count
  unfanned       \* history: the deletion of a like that was gone was counted

displayRows == <<display, fan, fanKeys, viewRows, remarks, hidden>>
displayHist == <<lostViews, unfanned>>
displayVars == <<displayRows, displayCall, displayLeft, displayHist>>

DisplayStates == {"live", "marked", "gone"}
DisplayRow    == [state : DisplayStates, over : BOOLEAN, seen : BOOLEAN,
                  likes : Nat, comments : Nat, views : Nat]
AtRest        == [op |-> "idle"]
DisplayCalls  == {AtRest}
                 \cup [op : {"comment", "delete", "sweep"}]
                 \cup [op : {"view", "count", "like"}, u : Viewers]
                 \cup [op : {"unlike"}, u : Viewers, key : 1 .. MaxDisplayLikes]

Fans == {u \in Viewers : fan[u] # 0}

DisplayInit ==
  /\ display = [state |-> "live", over |-> FALSE, seen |-> FALSE,
                 likes |-> 0, comments |-> 0, views |-> 0]
  /\ fan = [u \in Viewers |-> 0] /\ fanKeys = 0
  /\ viewRows = {} /\ remarks = 0 /\ hidden = 0
  /\ displayCall = [t \in DisplayThreads |-> AtRest]
  /\ displayLeft = MaxDisplayCalls
  /\ lostViews = 0 /\ unfanned = FALSE

DisplayGoes(t, c)  == displayCall' = [displayCall EXCEPT ![t] = c]
Rests(t)    == DisplayGoes(t, AtRest) /\ UNCHANGED displayLeft
DisplayFails(t)    == Rests(t) /\ UNCHANGED <<displayRows, displayHist>>
Doing(t, o) == displayCall[t].op = o
Admit(t, c) ==
  /\ displayCall[t] = AtRest /\ displayLeft > 0
  /\ displayLeft' = displayLeft - 1 /\ DisplayGoes(t, c)
  /\ UNCHANGED <<displayRows, displayHist>>

\* get_queryset: neither marked nor past its hour.
OnShow == display.state = "live" /\ ~display.over

-----------------------------------------------------------------------------
(* Views *)

BeginView(t, u) == OnShow /\ Admit(t, [op |-> "view", u |-> u])
\* get_or_create; the foreign key refuses a view of a display that is gone.
\* A bug the properties would find: a view counted every time.
CreatedAlways(u) == TRUE
Created(u) == u \notin viewRows
InsertView(t) ==
  LET u == displayCall[t].u
  IN  /\ Doing(t, "view")
      /\ IF display.state # "gone" /\ Created(u)
         THEN /\ viewRows' = viewRows \cup {u}
              /\ DisplayGoes(t, [op |-> "count", u |-> u])
              /\ UNCHANGED <<display, fan, fanKeys, remarks, hidden, displayLeft, displayHist>>
         ELSE DisplayFails(t)
CountView(t) ==
  /\ Doing(t, "count")
  /\ display' = IF display.state = "gone" THEN display
                ELSE [display EXCEPT !.views = @ + 1]
  /\ Rests(t)
  /\ UNCHANGED <<fan, fanKeys, viewRows, remarks, hidden, displayHist>>
LoseView(t) ==
  /\ Doing(t, "count")
  /\ lostViews' = lostViews + 1
  /\ Rests(t)
  /\ UNCHANGED <<displayRows, unfanned>>

-----------------------------------------------------------------------------
(* Likes and comments *)

BeginToggle(t, u) == OnShow /\ Admit(t, [op |-> "like", u |-> u])
\* get_or_create: the row, counted by the signal and by the service, or the
\* row that is there, to be deleted.
Toggle(t) ==
  LET u == displayCall[t].u
  IN  /\ Doing(t, "like")
      /\ \/ display.state = "gone" /\ DisplayFails(t)
         \/ /\ display.state # "gone" /\ fan[u] # 0
            /\ DisplayGoes(t, [op |-> "unlike", u |-> u, key |-> fan[u]])
            /\ UNCHANGED <<displayRows, displayLeft, displayHist>>
         \/ /\ display.state # "gone" /\ fan[u] = 0 /\ fanKeys < MaxDisplayLikes
            /\ fanKeys' = fanKeys + 1
            /\ fan' = [fan EXCEPT ![u] = fanKeys + 1]
            /\ display' = [display EXCEPT !.likes = @ + 2]
            /\ Rests(t)
            /\ UNCHANGED <<viewRows, remarks, hidden, displayHist>>
\* like.delete() counts a row that somebody else has deleted, too.
Untoggle(t) ==
  LET c == displayCall[t]
  IN  /\ Doing(t, "unlike")
      /\ IF display.state = "gone" \/ display.likes < 2 THEN DisplayFails(t)
         ELSE /\ fan' = [fan EXCEPT ![c.u] = IF @ = c.key THEN 0 ELSE @]
              /\ display' = [display EXCEPT !.likes = @ - 2]
              /\ unfanned' = (unfanned \/ fan[c.u] # c.key)
              /\ Rests(t)
              /\ UNCHANGED <<fanKeys, viewRows, remarks, hidden, lostViews>>

\* A comment asks for the mark only, not for the hour.
BeginRemark(t) == display.state = "live" /\ Admit(t, [op |-> "comment"])
CommitRemark(t) ==
  /\ Doing(t, "comment")
  /\ IF display.state = "gone" \/ remarks = MaxDisplayComments THEN DisplayFails(t)
     ELSE /\ remarks' = remarks + 1
          /\ display' = [display EXCEPT !.comments = @ + 1]
          /\ Rests(t)
          /\ UNCHANGED <<fan, fanKeys, viewRows, hidden, displayHist>>

\* A deleted comment is only marked, which no counter hears of.
HideRemark ==
  /\ hidden < remarks
  /\ hidden' = hidden + 1
  /\ UNCHANGED <<display, fan, fanKeys, viewRows, remarks, displayCall, displayLeft, displayHist>>

\* record_seen, by the author.
MarkSeen ==
  /\ OnShow
  /\ display' = [display EXCEPT !.seen = TRUE]
  /\ UNCHANGED <<fan, fanKeys, viewRows, remarks, hidden, displayCall, displayLeft, displayHist>>

-----------------------------------------------------------------------------
(* The end of a display *)

BeginRemove(t) == OnShow /\ Admit(t, [op |-> "delete"])
CommitRemove(t) ==
  /\ Doing(t, "delete")
  /\ display' = IF display.state = "gone" THEN display ELSE [display EXCEPT !.state = "marked"]
  /\ Rests(t)
  /\ UNCHANGED <<fan, fanKeys, viewRows, remarks, hidden, displayHist>>

HourPasses ==
  /\ ~display.over
  /\ display' = [display EXCEPT !.over = TRUE]
  /\ UNCHANGED <<fan, fanKeys, viewRows, remarks, hidden, displayCall, displayLeft, displayHist>>

BeginSweep(t) == display.state = "live" /\ display.over /\ Admit(t, [op |-> "sweep"])
\* One transaction: comments, likes and views of the display that was read,
\* each row with its signal, then the display, if it is still not marked.
Sweepable == display.likes >= Cardinality(Fans) /\ display.comments >= remarks
CommitSweep(t) ==
  /\ Doing(t, "sweep")
  /\ IF ~Sweepable THEN DisplayFails(t)
     ELSE /\ fan' = [u \in Viewers |-> 0] /\ viewRows' = {} /\ remarks' = 0 /\ hidden' = 0
          /\ display' = [display EXCEPT
               !.state = IF @ = "live" THEN "gone" ELSE @,
               !.likes = @ - Cardinality(Fans), !.comments = @ - remarks]
          /\ Rests(t)
          /\ UNCHANGED <<fanKeys, displayHist>>

DisplayStep(t) ==
  \/ \E u \in Viewers : BeginView(t, u) \/ BeginToggle(t, u)
  \/ InsertView(t) \/ CountView(t) \/ LoseView(t)
  \/ Toggle(t) \/ Untoggle(t)
  \/ BeginRemark(t) \/ CommitRemark(t) \/ BeginRemove(t) \/ CommitRemove(t)
  \/ BeginSweep(t) \/ CommitSweep(t)

DisplayNext == (\E t \in DisplayThreads : DisplayStep(t)) \/ HideRemark \/ MarkSeen \/ HourPasses

DisplaySpec == DisplayInit /\ [][DisplayNext]_displayVars

-----------------------------------------------------------------------------
(* Properties *)

\* Every row and call keeps its type.
DisplayTypeOK ==
  /\ display \in DisplayRow
  /\ fan \in [Viewers -> 0 .. MaxDisplayLikes] /\ fanKeys \in 0 .. MaxDisplayLikes
  /\ viewRows \subseteq Viewers /\ remarks \in 0 .. MaxDisplayComments /\ hidden \in 0 .. remarks
  /\ displayCall \in [DisplayThreads -> DisplayCalls]
  /\ displayLeft \in 0 .. MaxDisplayCalls
  /\ lostViews \in Nat /\ unfanned \in BOOLEAN

\* likes_count stands at two for every like, however toggles overlap, as long
\* as no like is taken away twice.
LikesCountedTwice ==
  display.state = "live" /\ ~unfanned => display.likes = 2 * Cardinality(Fans)

\* A view is counted once: views_count is the number of views less those that
\* are still to be counted and those whose worker was lost.
Counting == {t \in DisplayThreads : Doing(t, "count")}
ViewsCountedOnce ==
  display.state = "live" =>
    display.views + Cardinality(Counting) + lostViews = Cardinality(viewRows)

\* comments_count is the number of comments ever made of a display in the
\* table, marked ones included: of the operations modelled here only the sweep
\* takes a comment out of it, and then the display as well.
CommentsCounted == display.state = "live" => display.comments = remarks

\* A display that is gone has left nothing behind.
GoneIsEmpty ==
  display.state = "gone" => Fans = {} /\ viewRows = {} /\ remarks = 0

\* A display as a whole: each of its counters is a known function of its rows,
\* through overlapping calls and the sweep.
DisplayInv == DisplayTypeOK /\ LikesCountedTwice /\ ViewsCountedOnce
              /\ CommentsCounted /\ GoneIsEmpty

=============================================================================
