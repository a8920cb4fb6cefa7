----------------------------- MODULE UserPages -----------------------------
(***************************************************************************)
(* What the cache keeps of one user (src/accounts: cache, signals, views,  *)
(* services/profile.py): the answer of /me, which never expires, the       *)
(* detail page, and the list of users under a version number.  Every       *)
(* post_save and post_delete of a User or UserProfile bumps the version    *)
(* and deletes the other two, within the transaction that saves and so     *)
(* before it commits.  The F() updates of signals send no post_save.       *)
(*                                                                         *)
(* A read meets a cold key, reads the rows and stores what it read; /me    *)
(* stores the row that authentication read first of all.  A profile edit   *)
(* that changes a column of the User saves all of its columns, the         *)
(* password included, as authentication read them; Django inserts the row  *)
(* when its UPDATE meets none.                                             *)
(*                                                                         *)
(* Contents are numbered by the change that made them.  MaxPageCalls       *)
(* bounds the requests, MaxVersion the versions.                           *)
(***************************************************************************)
EXTENDS Naturals, FiniteSets

CONSTANTS
  PageThreads,   \* threads serving requests
  MaxPageCalls,  \* bound: requests served
  MaxVersion     \* bound: versions of the list

ASSUME PageBounds == MaxPageCalls \in Nat /\ MaxVersion \in Nat \ {0, 1}

VARIABLES
  userRows,     \* the committed rows: user and secret of User, profile of UserProfile
  myself,       \* the answer of /me under user_me, {} when there is none
  detail,       \* the page under user_detail
  pages,        \* pages[v]: the list under version v
  listVersion,  \* user_list_cache_version, 0 when there is none
  pageCall,     \* pageCall[t]: the request thread t serves
  pagesLeft,    \* requests still to come
  changes,      \* history: the changes that were committed
  newest,       \* history: the password set last
  outrun,       \* history: caches that held, or were about to, a row when it changed
  rewound,      \* history: the version was set to one that had been
  reverted,     \* history: an edit has saved a password of before
  revived       \* history: an edit has inserted the account that was deleted

pageCaches == <<myself, detail, pages, listVersion>>
pageHist   == <<changes, newest, outrun, rewound, reverted, revived>>
pageVars   == <<userRows, pageCaches, pageCall, pagesLeft, pageHist>>

Versions == 1 .. MaxVersion
Gone     == 0   \* the revision of a row that was deleted
\* The content of the two pages.
PageOf(a) == <<a.user, a.profile>>
Serving(t, op) == pageCall[t].op = op
Ready(t) == pageCall' = [pageCall EXCEPT ![t] = [op |-> "idle"]]
PageGoes(t, c) == pageCall' = [pageCall EXCEPT ![t] = c]
TakePage(t) == Serving(t, "idle") /\ pagesLeft > 0 /\ pagesLeft' = pagesLeft - 1

UserPagesInit ==
  /\ userRows = [user |-> 1, profile |-> 1, secret |-> 1]
  /\ myself = {} /\ detail = {} /\ pages = [v \in Versions |-> {}] /\ listVersion = 0
  /\ pageCall = [t \in PageThreads |-> [op |-> "idle"]] /\ pagesLeft = MaxPageCalls
  /\ changes = 1 /\ newest = 1 /\ outrun = {}
  /\ rewound = FALSE /\ reverted = FALSE /\ revived = FALSE

-----------------------------------------------------------------------------
(* Reads *)

\* MeView: request.user is read, then the cache is asked.
BeginMe(t) ==
  /\ userRows.user # Gone /\ TakePage(t)
  /\ PageGoes(t, [op |-> "me", seen |-> userRows.user])
  /\ UNCHANGED <<userRows, pageCaches, pageHist>>
MeCached(t) ==
  /\ Serving(t, "me") /\ myself # {} /\ Ready(t)
  /\ UNCHANGED <<userRows, pageCaches, pagesLeft, pageHist>>
MeMissed(t) ==
  /\ Serving(t, "me") /\ myself = {}
  /\ PageGoes(t, [pageCall[t] EXCEPT !.op = "storeMe"])
  /\ UNCHANGED <<userRows, pageCaches, pagesLeft, pageHist>>
StoreMe(t) ==
  /\ Serving(t, "storeMe") /\ myself' = {pageCall[t].seen} /\ Ready(t)
  /\ UNCHANGED <<userRows, detail, pages, listVersion, pagesLeft, pageHist>>

\* UserDetailView: a miss and the query are one step, then the page is stored.
ReadDetail(t) ==
  /\ detail = {} /\ userRows.user # Gone /\ TakePage(t)
  /\ PageGoes(t, [op |-> "detail", seen |-> PageOf(userRows)])
  /\ UNCHANGED <<userRows, pageCaches, pageHist>>
StoreDetail(t) ==
  /\ Serving(t, "detail") /\ detail' = {pageCall[t].seen} /\ Ready(t)
  /\ UNCHANGED <<userRows, myself, pages, listVersion, pagesLeft, pageHist>>

\* UserListView: the version makes the key, and the first to miss it sets it.
AskVersion(t) ==
  /\ TakePage(t)
  /\ PageGoes(t, IF listVersion = 0 THEN [op |-> "first"] ELSE [op |-> "key", v |-> listVersion])
  /\ UNCHANGED <<userRows, pageCaches, pageHist>>
SetVersionOne(t) ==
  /\ Serving(t, "first")
  /\ listVersion' = 1 /\ rewound' = (rewound \/ listVersion > 1)
  /\ PageGoes(t, [op |-> "key", v |-> 1])
  /\ UNCHANGED <<userRows, myself, detail, pages, pagesLeft, changes, newest, outrun, reverted, revived>>
PageCached(t) ==
  /\ Serving(t, "key") /\ pages[pageCall[t].v] # {} /\ Ready(t)
  /\ UNCHANGED <<userRows, pageCaches, pagesLeft, pageHist>>
ReadPage(t) ==
  /\ Serving(t, "key") /\ pages[pageCall[t].v] = {}
  /\ PageGoes(t, [op |-> "page", v |-> pageCall[t].v, seen |-> PageOf(userRows)])
  /\ UNCHANGED <<userRows, pageCaches, pagesLeft, pageHist>>
StorePage(t) ==
  /\ Serving(t, "page")
  /\ pages' = [pages EXCEPT ![pageCall[t].v] = {pageCall[t].seen}] /\ Ready(t)
  /\ UNCHANGED <<userRows, myself, detail, listVersion, pagesLeft, pageHist>>

\* CACHE_DETAIL_TTL and CACHE_LIST_TTL; /me has none.
PageExpires ==
  /\ \/ detail # {} /\ detail' = {} /\ UNCHANGED pages
     \/ \E v \in Versions : pages[v] # {} /\ pages' = [pages EXCEPT ![v] = {}] /\ UNCHANGED detail
  /\ UNCHANGED <<userRows, myself, listVersion, pageCall, pagesLeft, pageHist>>

-----------------------------------------------------------------------------
(* Writes.  A call of kind "user" or "profile" is a profile edit (or the     *)
(* swap of an image), "password" a new password, "delete" the userRows's end. *)

Writes == {"write", "bump", "setTwo", "next", "commit"}
Kinds  == {"user", "profile", "password", "delete"}
\* The row a transaction saves first, and the one that may follow.
FirstRow(kind) == IF kind \in {"profile", "delete"} THEN "profile" ELSE "user"
OtherRow(kind) == IF FirstRow(kind) = "user" THEN "profile" ELSE "user"
Twice(kind) == kind \in {"user", "delete"}
\* Rows that the transaction of a request has locked.
RowsOf(c) ==
  IF c.op \notin Writes \ {"write"} THEN {}
  ELSE {FirstRow(c.kind)} \cup (IF Twice(c.kind) /\ ~c.more THEN {OtherRow(c.kind)} ELSE {})
RowAvailable(t, r) == \A z \in PageThreads \ {t} : r \notin RowsOf(pageCall[z])

BeginWrite(t, kind) ==
  /\ userRows.user # Gone /\ TakePage(t)
  /\ PageGoes(t, [op |-> "write", kind |-> kind, copy |-> userRows.secret, more |-> Twice(kind)])
  /\ UNCHANGED <<userRows, pageCaches, pageHist>>
\* The first row is locked and saved; its signal comes next.  When the account
\* is gone the edit of a profile and a new password end in an error.
SaveRow(t) ==
  /\ Serving(t, "write") /\ RowAvailable(t, FirstRow(pageCall[t].kind))
  /\ IF userRows.user = Gone /\ ~Twice(pageCall[t].kind) THEN Ready(t)
     ELSE PageGoes(t, [pageCall[t] EXCEPT !.op = "bump"])
  /\ UNCHANGED <<userRows, pageCaches, pagesLeft, pageHist>>

\* The rest of the receiver: user_detail and user_me are deleted.  What was
\* cached while a row changed is forgotten with them, unless a reader holds
\* it still.
Reading(c) ==
  \E t \in PageThreads :
    \/ c = "myself" /\ pageCall[t].op \in {"me", "storeMe"}
    \/ c = "detail" /\ Serving(t, "detail")
    \/ c = "pages"  /\ Serving(t, "page") /\ pageCall[t].v = listVersion'
DeleteKeysNotMe(t) ==
  /\ detail' = {} /\ UNCHANGED <<myself, pages>>
  /\ PageGoes(t, [pageCall[t] EXCEPT !.op = IF pageCall[t].more THEN "next" ELSE "commit"])
  /\ outrun' = {c \in outrun : Reading(c)}
DeleteKeys(t) ==
  /\ myself' = {} /\ detail' = {} /\ UNCHANGED pages
  /\ PageGoes(t, [pageCall[t] EXCEPT !.op = IF pageCall[t].more THEN "next" ELSE "commit"])
  /\ outrun' = {c \in outrun : Reading(c)}
BumpVersion(t) ==
  /\ Serving(t, "bump") /\ listVersion \in 1 .. MaxVersion - 1
  /\ listVersion' = listVersion + 1
  /\ DeleteKeys(t)
  /\ UNCHANGED <<userRows, pagesLeft, changes, newest, rewound, reverted, revived>>
VersionMissing(t) ==
  /\ Serving(t, "bump") /\ listVersion = 0
  /\ PageGoes(t, [pageCall[t] EXCEPT !.op = "setTwo"])
  /\ UNCHANGED <<userRows, pageCaches, pagesLeft, pageHist>>
SetVersionTwo(t) ==
  /\ Serving(t, "setTwo")
  /\ listVersion' = 2 /\ rewound' = (rewound \/ listVersion > 1)
  /\ DeleteKeys(t)
  /\ UNCHANGED <<userRows, pagesLeft, changes, newest, reverted, revived>>
\* The other row of an edit or a deletion follows with its own signal.
SaveOther(t) ==
  /\ Serving(t, "next") /\ RowAvailable(t, OtherRow(pageCall[t].kind))
  /\ PageGoes(t, [pageCall[t] EXCEPT !.op = "bump", !.more = FALSE])
  /\ UNCHANGED <<userRows, pageCaches, pagesLeft, pageHist>>

\* Caches that show the rows a commit changes, or are about to.
Showing(changed) ==
  {c \in changed :
     \/ c = "myself" /\ myself # {}
     \/ c = "detail" /\ detail # {}
     \/ c = "pages"  /\ listVersion > 0 /\ pages[listVersion] # {}
     \/ \E t \in PageThreads :
          \/ c = "myself" /\ pageCall[t].op \in {"me", "storeMe"}
          \/ c = "detail" /\ Serving(t, "detail")
          \/ c = "pages"  /\ Serving(t, "page") /\ pageCall[t].v = listVersion}
Committing(t, kind) == Serving(t, "commit") /\ pageCall[t].kind = kind
CommitUserEdit(t) ==
  /\ Committing(t, "user") /\ Ready(t) /\ changes' = changes + 1
  /\ userRows' = [user |-> changes', profile |-> changes', secret |-> pageCall[t].copy]
  /\ reverted' = (reverted \/ pageCall[t].copy # userRows.secret)
  /\ revived' = (revived \/ userRows.user = Gone)
  /\ outrun' = outrun \cup Showing({"myself", "detail", "pages"})
  /\ UNCHANGED <<pageCaches, pagesLeft, newest, rewound>>
CommitProfile(t) ==
  /\ Committing(t, "profile") /\ Ready(t) /\ changes' = changes + 1
  /\ userRows' = [userRows EXCEPT !.profile = changes']
  /\ outrun' = outrun \cup Showing({"detail", "pages"})
  /\ UNCHANGED <<pageCaches, pagesLeft, newest, rewound, reverted, revived>>
CommitPassword(t) ==
  /\ Committing(t, "password") /\ Ready(t) /\ changes' = changes + 1
  /\ userRows' = [userRows EXCEPT !.secret = changes'] /\ newest' = changes'
  /\ UNCHANGED <<pageCaches, pagesLeft, outrun, rewound, reverted, revived>>
CommitDeletion(t) ==
  /\ Committing(t, "delete") /\ Ready(t)
  /\ userRows' = [userRows EXCEPT !.user = Gone, !.profile = Gone]
  /\ outrun' = outrun \cup Showing({"myself", "detail", "pages"})
  /\ UNCHANGED <<pageCaches, pagesLeft, changes, newest, rewound, reverted, revived>>
\* Two transactions that wait for each other's row are a case of this.
RollBackWrite(t) ==
  /\ pageCall[t].op \in {"next", "commit"} /\ Ready(t)
  /\ UNCHANGED <<userRows, pageCaches, pagesLeft, pageHist>>

\* A follower counted or a badge given by an UPDATE: no signal, no deletion.
UpdateQuietly ==
  /\ userRows.user # Gone /\ pagesLeft > 0 /\ pagesLeft' = pagesLeft - 1
  /\ \A t \in PageThreads : "profile" \notin RowsOf(pageCall[t])
  /\ changes' = changes + 1 /\ userRows' = [userRows EXCEPT !.profile = changes']
  /\ outrun' = outrun \cup Showing({"detail", "pages"})
  /\ UNCHANGED <<pageCaches, pageCall, newest, rewound, reverted, revived>>

UserPagesNext ==
  \/ \E t \in PageThreads :
       \/ BeginMe(t) \/ MeCached(t) \/ MeMissed(t) \/ StoreMe(t)
       \/ ReadDetail(t) \/ StoreDetail(t)
       \/ AskVersion(t) \/ SetVersionOne(t) \/ PageCached(t) \/ ReadPage(t) \/ StorePage(t)
       \/ \E kind \in Kinds : BeginWrite(t, kind)
       \/ SaveRow(t) \/ BumpVersion(t) \/ VersionMissing(t) \/ SetVersionTwo(t) \/ SaveOther(t)
       \/ CommitUserEdit(t) \/ CommitProfile(t) \/ CommitPassword(t) \/ CommitDeletion(t)
       \/ RollBackWrite(t)
  \/ PageExpires \/ UpdateQuietly

UserPagesSpec == UserPagesInit /\ [][UserPagesNext]_pageVars

-----------------------------------------------------------------------------
(* Properties *)

PageCalls ==
  [op : {"idle", "first"}]
  \cup [op : {"me", "storeMe"}, seen : Nat] \cup [op : {"detail"}, seen : Nat \X Nat]
  \cup [op : {"key"}, v : Versions] \cup [op : {"page"}, v : Versions, seen : Nat \X Nat]
  \cup [op : Writes, kind : Kinds, copy : Nat \ {0}, more : BOOLEAN]

\* Every row, key and request keeps its type.
UserPagesTypeOK ==
  /\ userRows \in [user : Nat, profile : Nat, secret : Nat \ {0}]
  /\ myself \subseteq Nat /\ detail \subseteq Nat \X Nat
  /\ pages \in [Versions -> SUBSET (Nat \X Nat)]
  /\ listVersion \in 0 .. MaxVersion
  /\ pageCall \in [PageThreads -> PageCalls] /\ pagesLeft \in Nat /\ changes \in Nat
  /\ outrun \subseteq {"myself", "detail", "pages"} /\ {rewound, reverted, revived} \subseteq BOOLEAN
  /\ Cardinality(myself) <= 1 /\ \A c \in {detail} \cup {pages[v] : v \in Versions} : Cardinality(c) <= 1

\* What is cached is the row as it is, unless the row changed while the cache,
\* or a request on its way to it, still held the old one: /me keeps that for
\* ever, the other two until they expire.  A list is out of reach of readers
\* that took their key before the version moved on.
CachesCurrent ==
  /\ "myself" \notin outrun => myself \subseteq {userRows.user}
  /\ "detail" \notin outrun => detail \subseteq {PageOf(userRows)}
  /\ ~rewound /\ "pages" \notin outrun /\ listVersion > 0 => pages[listVersion] \subseteq {PageOf(userRows)}

\* No list waits under a version still to come, unless the version was set
\* back by somebody who had found none.
NoPagesAhead ==
  ~rewound => \A v \in Versions : pages[v] # {} => v <= listVersion

\* A reader on its way to a cache nobody outran holds the row as it is; unless
\* the version was set back no reader holds a key still to come.
ReadersCurrent ==
  \A t \in PageThreads :
    /\ pageCall[t].op \in {"me", "storeMe"} /\ "myself" \notin outrun => pageCall[t].seen = userRows.user
    /\ Serving(t, "detail") /\ "detail" \notin outrun => pageCall[t].seen = PageOf(userRows)
    /\ ~rewound /\ pageCall[t].op \in {"key", "page"} => pageCall[t].v <= listVersion
    /\ ~rewound /\ "pages" \notin outrun /\ Serving(t, "page") /\ pageCall[t].v = listVersion
         => pageCall[t].seen = PageOf(userRows)

\* The password is the last one set, but for edits that saved an older one.
PasswordStands == ~reverted => userRows.secret = newest

\* No request still on its way changes an account once it is gone: whoever is
\* past its lock then is an edit, whose rows will be inserted anew, or a
\* second deletion.
GoneForGood ==
  userRows.user = Gone => /\ userRows.profile = Gone
                         /\ \A t \in PageThreads : RowsOf(pageCall[t]) # {} => Twice(pageCall[t].kind)

\* No two transactions hold the same row, and none commits before its second.
LocksApart ==
  /\ \A t, z \in PageThreads : t # z => RowsOf(pageCall[t]) \cap RowsOf(pageCall[z]) = {}
  /\ \A t \in PageThreads : /\ Serving(t, "write") => pageCall[t].more = Twice(pageCall[t].kind)
                            /\ Serving(t, "commit") => ~pageCall[t].more

\* What the cache and an edit keep of a user as a whole: each cache tells the
\* userRows, and an edit leaves the password alone, but for the races named above.
UserPagesInv ==
  /\ UserPagesTypeOK /\ CachesCurrent /\ NoPagesAhead /\ ReadersCurrent
  /\ PasswordStands /\ GoneForGood /\ LocksApart
=============================================================================
