----------------------------- MODULE PollViews -----------------------------
(***************************************************************************)
(* The views of one poll and its total_views (PollService.record_view, and *)
(* the edit that saves every column of the poll as it was read).           *)
(*                                                                         *)
(* A view of a known viewer is looked for, inserted and counted in three   *)
(* statements that no transaction holds together; nothing makes the pair   *)
(* of poll and viewer unique.  A view of nobody in particular is always    *)
(* inserted.  MaxViewCalls bounds the views and edits.                     *)
(***************************************************************************)
EXTENDS Integers, FiniteSets

CONSTANTS
  Watchers,      \* users who look at the poll
  Anonymous,     \* whoever looks without logging in
  ViewThreads,   \* threads serving requests
  MaxViewCalls   \* bound: views and edits

ASSUME AnonymousIsNobody == Anonymous \notin Watchers
ASSUME ViewCallsNat      == MaxViewCalls \in Nat
ASSUME ViewThreadsFinite == IsFiniteSet(ViewThreads)

VARIABLES
  pollViews,   \* pollViews[v]: the PollView rows of v
  totalViews,  \* Poll.total_views
  viewCall,    \* viewCall[t]: the request thread t serves
  viewsToCome, \* requests still to come
  uncounted,   \* history: views whose thread was lost before it counted them
  together,    \* history: watchers two of whose first views overlapped
  rewritten    \* history: an edit saved an outdated total_views

viewVars == <<pollViews, totalViews, viewCall, viewsToCome, uncounted, together, rewritten>>

Lookers == Watchers \cup {Anonymous}
NoView  == [at |-> "idle"]
ViewRequests ==
  {NoView} \cup [at : {"unseen", "inserted"}, who : Lookers] \cup [at : {"edit"}, total : Nat]

ViewsInit ==
  /\ pollViews = [v \in Lookers |-> 0] /\ totalViews = 0
  /\ viewCall = [t \in ViewThreads |-> NoView] /\ viewsToCome = MaxViewCalls
  /\ uncounted = 0 /\ together = {} /\ rewritten = FALSE

EndView(t) == viewCall' = [viewCall EXCEPT ![t] = NoView]
NewRequest(t, call) ==
  /\ viewCall[t] = NoView /\ viewsToCome > 0
  /\ viewsToCome' = viewsToCome - 1
  /\ viewCall' = [viewCall EXCEPT ![t] = call]
  /\ UNCHANGED <<pollViews, totalViews, uncounted, rewritten>>

\* A bug the properties would find: the query asks for no viewer.
UnseenByAll(v) == v = v
Unseen(v) == v = Anonymous \/ pollViews[v] = 0
LooksAt(t, v) ==
  /\ Unseen(v)
  /\ NewRequest(t, [at |-> "unseen", who |-> v])
  /\ together' = together \cup {w \in Watchers \cap {v} :
                     \E o \in ViewThreads : viewCall[o] = [at |-> "unseen", who |-> w]}
InsertPollView(t) ==
  /\ viewCall[t].at = "unseen"
  /\ pollViews' = [pollViews EXCEPT ![viewCall[t].who] = @ + 1]
  /\ viewCall' = [viewCall EXCEPT ![t].at = "inserted"]
  /\ UNCHANGED <<totalViews, viewsToCome, uncounted, together, rewritten>>
CountPollView(t) ==
  /\ viewCall[t].at = "inserted"
  /\ totalViews' = totalViews + 1
  /\ EndView(t)
  /\ UNCHANGED <<pollViews, viewsToCome, uncounted, together, rewritten>>
\* The server stops between two statements.
ServerStops(t) ==
  /\ viewCall[t] # NoView
  /\ uncounted' = IF viewCall[t].at = "inserted" THEN uncounted + 1 ELSE uncounted
  /\ EndView(t)
  /\ UNCHANGED <<pollViews, totalViews, viewsToCome, together, rewritten>>

\* PollService.update: instance.save() of what get_object() read.
ReadsForEdit(t) ==
  NewRequest(t, [at |-> "edit", total |-> totalViews]) /\ UNCHANGED together
SavesEdit(t) ==
  /\ viewCall[t].at = "edit"
  /\ totalViews' = viewCall[t].total
  /\ rewritten' = (rewritten \/ totalViews # viewCall[t].total)
  /\ EndView(t)
  /\ UNCHANGED <<pollViews, viewsToCome, uncounted, together>>

ViewsNext == \E t \in ViewThreads :
  \/ \E v \in Lookers : LooksAt(t, v)
  \/ InsertPollView(t) \/ CountPollView(t) \/ ServerStops(t) \/ ReadsForEdit(t) \/ SavesEdit(t)

ViewsSpec == ViewsInit /\ [][ViewsNext]_viewVars

-----------------------------------------------------------------------------
(* Properties *)

\* Every row and request keeps its type.
ViewTypeOK ==
  /\ pollViews \in [Lookers -> Nat] /\ totalViews \in Nat /\ uncounted \in Nat
  /\ viewCall \in [ViewThreads -> ViewRequests] /\ viewsToCome \in 0 .. MaxViewCalls
  /\ together \subseteq Watchers /\ rewritten \in BOOLEAN

PollViewRows == UNION {{v} \X (1 .. pollViews[v]) : v \in Lookers}
AllViews     == Cardinality(PollViewRows)
BeingCounted == {t \in ViewThreads : viewCall[t].at = "inserted"}
Looking(v)   == {t \in ViewThreads : viewCall[t] = [at |-> "unseen", who |-> v]}
Uncounted    == Cardinality(BeingCounted) + uncounted

\* total_views is the number of rows less those still to be counted and those
\* whose server stopped, until an edit puts an older number back; and then it
\* is never too many, neither now nor by an edit still to be saved.
ViewsTotalled ==
  /\ ~rewritten => totalViews + Uncounted = AllViews
  /\ totalViews + Uncounted <= AllViews
  /\ \A t \in ViewThreads : viewCall[t].at = "edit" => viewCall[t].total + Uncounted <= AllViews

\* A viewer has one row, unless two of his first views overlapped.
ViewedOnce ==
  \A v \in Watchers \ together : pollViews[v] + Cardinality(Looking(v)) <= 1

\* Views as a whole: the counter tells the rows, and a viewer has one row, but
\* for the overlaps that the two parts name.
ViewInv == ViewTypeOK /\ ViewsTotalled /\ ViewedOnce
=============================================================================
