---------------------------- MODULE PhoneCatalog ----------------------------
(***************************************************************************)
(* A user's phone catalog: at most ten entries, and a list in Redis under  *)
(* a version that every change increments (UserPhoneCataLogModelViewSet in *)
(* src/accounts/views.py, services/phone_catalog_cache.py).                *)
(*                                                                         *)
(* A creation counts and inserts under a lock on the user.  An update and  *)
(* a deletion take no lock: they read the entry, and write it later.  The  *)
(* deletion writes two columns, the update all, and so an entry that was   *)
(* deleted since is there again, which nobody counts.  A list is read, and *)
(* cached later under whatever version there is by then; Redis may fail,   *)
(* and a process may die, at any call.  MaxCatalogCalls bounds the calls.  *)
(***************************************************************************)
EXTENDS Integers, FiniteSets

CONSTANTS
  Entries,         \* entries that may come to exist
  EntryLimit,      \* 10 in the code
  CatalogThreads,  \* threads serving the user's calls
  MaxCatalogCalls  \* bound: calls served

ASSUME EntriesFinite == IsFiniteSet(Entries)
ASSUME CatalogNats   == EntryLimit \in Nat /\ MaxCatalogCalls \in Nat

VARIABLES
  entries,    \* the user's rows that are not deleted
  gone,       \* and the deleted ones
  undeleted,  \* history: entries an update brought back
  locked,     \* the thread that holds the User row
  cached,     \* the cached list: the version and the entries, or none
  version,    \* the version key
  catcall,    \* catcall[t]: the call thread t serves
  catleft     \* calls still to come

catVars == <<entries, gone, undeleted, locked, cached, version, catcall, catleft>>

NoList   == [entries |-> {}, version |-> 0]
CatIdle  == [op |-> "idle"]
CatCalls == {CatIdle} \cup [op : {"create", "insert", "changed"}]
            \cup [op : {"update", "delete"}, entry : Entries]
            \cup [op : {"list"}, seen : SUBSET Entries]
catRows  == <<entries, gone, undeleted>>

CatInit ==
  /\ entries = {} /\ gone = {} /\ undeleted = {} /\ locked = {} /\ cached = NoList /\ version = 1
  /\ catcall = [t \in CatalogThreads |-> CatIdle]
  /\ catleft = MaxCatalogCalls

StartCat(t, c) ==
  /\ catcall[t] = CatIdle /\ catleft > 0
  /\ catleft' = catleft - 1
  /\ catcall' = [catcall EXCEPT ![t] = c]
MoveCat(t, c) == catcall' = [catcall EXCEPT ![t] = c] /\ UNCHANGED catleft

\* perform_create: the user's row, the count, the insert, the commit.
LockUser(t) ==
  /\ locked = {} /\ locked' = {t}
  /\ StartCat(t, [op |-> "create"])
  /\ UNCHANGED <<catRows, cached, version>>
\* A bug the properties would find: the limit itself let through.
MayInsertOneMore == Cardinality(entries) <= EntryLimit
MayInsert == Cardinality(entries) < EntryLimit
CountEntries(t) ==
  /\ catcall[t].op = "create"
  /\ IF MayInsert THEN MoveCat(t, [op |-> "insert"]) /\ UNCHANGED locked
     ELSE MoveCat(t, CatIdle) /\ locked' = {}
  /\ UNCHANGED <<catRows, cached, version>>
InsertEntry(t) ==
  /\ catcall[t].op = "insert"
  /\ \E e \in Entries \ (entries \cup gone) : entries' = entries \cup {e}
  /\ locked' = {}
  /\ MoveCat(t, [op |-> "changed"])
  /\ UNCHANGED <<gone, undeleted, cached, version>>

\* get_object, then perform_destroy or perform_update.
ReadEntry(t, op, e) ==
  /\ e \in entries
  /\ StartCat(t, [op |-> op, entry |-> e])
  /\ UNCHANGED <<catRows, locked, cached, version>>
DeleteEntry(t) ==
  /\ catcall[t].op = "delete"
  /\ entries' = entries \ {catcall[t].entry}
  /\ gone' = gone \cup {catcall[t].entry}
  /\ MoveCat(t, [op |-> "changed"])
  /\ UNCHANGED <<undeleted, locked, cached, version>>
UpdateEntry(t) ==
  /\ catcall[t].op = "update"
  /\ entries' = entries \cup {catcall[t].entry}
  /\ gone' = gone \ {catcall[t].entry}
  /\ undeleted' = undeleted \cup ({catcall[t].entry} \cap gone)
  /\ MoveCat(t, [op |-> "changed"])
  /\ UNCHANGED <<locked, cached, version>>

\* invalidate_list, after the commit; that Redis fails it is only logged.
InvalidateList(t) ==
  /\ catcall[t].op = "changed"
  /\ version' \in {version, version + 1}
  /\ MoveCat(t, CatIdle)
  /\ UNCHANGED <<catRows, locked, cached>>

\* list: a hit is served as it is; a miss is read, serialised and cached.
Hit == cached.version = version
ListMiss(t) ==
  /\ ~Hit
  /\ StartCat(t, [op |-> "list", seen |-> entries])
  /\ UNCHANGED <<catRows, locked, cached, version>>
SetList(t) ==
  /\ catcall[t].op = "list"
  /\ cached' = [entries |-> catcall[t].seen, version |-> version]
  /\ MoveCat(t, CatIdle)
  /\ UNCHANGED <<catRows, locked, version>>
ListExpires ==
  /\ cached # NoList /\ cached' = NoList
  /\ UNCHANGED <<catRows, locked, version, catcall, catleft>>

\* The process dies: its transaction rolls back and its row lock is free.
LoseCall(t) ==
  /\ catcall[t] # CatIdle
  /\ MoveCat(t, CatIdle)
  /\ locked' = locked \ {t}
  /\ UNCHANGED <<catRows, cached, version>>

CatNext ==
  \/ \E t \in CatalogThreads :
       \/ LockUser(t) \/ CountEntries(t) \/ InsertEntry(t) \/ InvalidateList(t)
       \/ DeleteEntry(t) \/ UpdateEntry(t)
       \/ ListMiss(t) \/ SetList(t) \/ LoseCall(t)
       \/ \E e \in Entries, op \in {"update", "delete"} : ReadEntry(t, op, e)
  \/ ListExpires

CatSpec == CatInit /\ [][CatNext]_catVars

-----------------------------------------------------------------------------
(* Properties *)

\* Every row, key and call keeps its type.
CatTypeOK ==
  /\ entries \subseteq Entries /\ gone \subseteq Entries /\ undeleted \subseteq Entries
  /\ locked \subseteq CatalogThreads
  /\ cached \in [entries : SUBSET Entries, version : Nat]
  /\ version \in Nat /\ version > 0
  /\ catcall \in [CatalogThreads -> CatCalls]
  /\ catleft \in 0 .. MaxCatalogCalls

\* However creations and deletions overlap, there are never more entries than
\* the limit but for those that an update in flight brought back from deletion,
\* nor is a longer list ever cached.  (The limit itself does not hold: each such
\* entry is one beyond what was counted.)
Counted(set) == Cardinality(set \ undeleted) <= EntryLimit
CatalogLimited ==
  /\ Counted(entries) /\ Counted(cached.entries)
  /\ \A t \in CatalogThreads : catcall[t].op = "list" => Counted(catcall[t].seen)

\* One creation at a time is between its count and its insert, and then there
\* is room for it.
InsertsAlone ==
  \A t \in CatalogThreads : catcall[t].op \in {"create", "insert"} =>
    /\ locked = {t}
    /\ catcall[t].op = "insert" => Cardinality(entries \ undeleted) < EntryLimit

\* An entry is either there or deleted, and whoever writes one writes a row that
\* exists; only a row that exists was brought back.
RowsApart ==
  /\ entries \cap gone = {} /\ undeleted \subseteq entries \cup gone
  /\ \A t \in CatalogThreads :
       catcall[t].op \in {"update", "delete"} => catcall[t].entry \in entries \cup gone

\* The phone catalog as a whole: the limit that CountEntries checks under the
\* lock of the User row holds for the rows and for every list cached of them,
\* those apart.
CatInv == CatTypeOK /\ CatalogLimited /\ InsertsAlone /\ RowsApart
=============================================================================
