---------------------------- MODULE RuntimeConfig ----------------------------
(***************************************************************************)
(* One runtime setting that may be overridden in the database, its cache   *)
(* and the processes that read it (src/config).                            *)
(*                                                                         *)
(* get_config asks the cache, then the table, then stores what it read in  *)
(* the cache: three steps.  A process that fails to read the table leaves  *)
(* it alone for a while and falls back to the environment.  An edit        *)
(* through the admin's form empties the cache before its transaction       *)
(* commits; an action on a list of settings does so after.  A cache that   *)
(* fails is passed over in silence, by reads and by edits.                 *)
(* MaxConfigEdits bounds the edits, MaxConfigReads the reads.              *)
(***************************************************************************)
EXTENDS Integers, FiniteSets

CONSTANTS
  Processes,        \* processes of the application
  Settings,         \* values that an edit may give the setting
  Env,              \* "no override": the environment or the default counts
  MaxConfigEdits,   \* bound: edits
  MaxConfigReads    \* bound: reads that get past the cache

ASSUME EnvIsNoValue == Env \notin Settings
ASSUME ConfigNats   == MaxConfigEdits \in Nat /\ MaxConfigReads \in Nat

VARIABLES
  override,     \* the committed row: its value, Env when blank or inactive
  cachedMap,    \* the map in the cache: {} when there is none, or its value
  avoid,        \* processes that leave the table alone for now
  reader,       \* reader[p]: the get_config in progress, past the cache
  edit,         \* the edit in progress
  editsLeft, readsLeft,
  everOverride, \* history: values that were committed
  crossed       \* history: an edit ended while a map, or a read under way,
                \* of another value was left

configVars == <<override, cachedMap, avoid, reader, edit, editsLeft, readsLeft,
                everOverride, crossed>>

Values     == Settings \cup {Env}
NotReading == [at |-> "idle"]
ConfigReaders   == {NotReading, [at |-> "table"]} \cup [at : {"store"}, got : Values]
NoEdit     == [at |-> "idle"]
Edits      == {NoEdit} \cup [at : {"form", "emptied", "action", "written"}, to : Values]

ConfigInit ==
  /\ override = Env /\ cachedMap = {} /\ avoid = {}
  /\ reader = [p \in Processes |-> NotReading]
  /\ edit = NoEdit
  /\ editsLeft = MaxConfigEdits /\ readsLeft = MaxConfigReads
  /\ everOverride = {Env} /\ crossed = FALSE

-----------------------------------------------------------------------------
(* get_config *)

\* Not avoided, and not cached or the cache does not answer: the table is asked.
MissCache(p) ==
  /\ reader[p] = NotReading /\ readsLeft > 0
  /\ p \notin avoid
  /\ readsLeft' = readsLeft - 1
  /\ reader' = [reader EXCEPT ![p] = [at |-> "table"]]
  /\ UNCHANGED <<override, cachedMap, avoid, edit, editsLeft, everOverride, crossed>>
ReadTable(p) ==
  /\ reader[p].at = "table"
  /\ reader' = [reader EXCEPT ![p] = [at |-> "store", got |-> override]]
  /\ UNCHANGED <<override, cachedMap, avoid, edit, editsLeft, readsLeft, everOverride, crossed>>
TableFails(p) ==
  /\ reader[p].at = "table"
  /\ reader' = [reader EXCEPT ![p] = NotReading]
  /\ avoid' = avoid \cup {p}
  /\ UNCHANGED <<override, cachedMap, edit, editsLeft, readsLeft, everOverride, crossed>>
\* A cache that fails keeps what it has.
StoreRead(p) ==
  /\ reader[p].at = "store"
  /\ cachedMap' \in {cachedMap, {reader[p].got}}
  /\ reader' = [reader EXCEPT ![p] = NotReading]
  /\ UNCHANGED <<override, avoid, edit, editsLeft, readsLeft, everOverride, crossed>>

AvoidEnds(p) ==
  /\ p \in avoid
  /\ avoid' = avoid \ {p}
  /\ UNCHANGED <<override, cachedMap, reader, edit, editsLeft, readsLeft, everOverride, crossed>>

\* Maps and reads of a value that is not v.
HeldBut(v) == cachedMap \ {v} # {} \/ \E p \in Processes : reader[p].at = "store" /\ reader[p].got # v
\* CACHE_TTL: once nothing old is held, nothing old can come back.
CacheExpires ==
  /\ cachedMap # {}
  /\ cachedMap' = {}
  /\ crossed' = (crossed /\ \E p \in Processes : reader[p].at = "store" /\ reader[p].got # override)
  /\ UNCHANGED <<override, avoid, reader, edit, editsLeft, readsLeft, everOverride>>

-----------------------------------------------------------------------------
(* Edits *)

OpenEdit(way, v) ==
  /\ edit = NoEdit /\ editsLeft > 0
  /\ editsLeft' = editsLeft - 1
  /\ edit' = [at |-> way, to |-> v]
  /\ UNCHANGED <<override, cachedMap, avoid, reader, readsLeft, everOverride, crossed>>
\* invalidate_cache, which also ends the editing process' own avoidance; a
\* delete that fails is not noticed.
EmptyCache(p) ==
  /\ cachedMap' \in {{}, cachedMap} /\ avoid' = avoid \ {p}
  /\ UNCHANGED <<override, reader, editsLeft, readsLeft, everOverride>>

\* A bug the properties would find: the map is built from the form's value.
EmptyIntoForm(p) ==
  /\ edit.at = "form"
  /\ cachedMap' = {edit.to} /\ avoid' = avoid \ {p}
  /\ edit' = [edit EXCEPT !.at = "emptied"]
  /\ UNCHANGED <<override, reader, editsLeft, readsLeft, everOverride, crossed>>
\* The form: save_model and the signal empty the cache, the view commits.
EmptyInForm(p) ==
  /\ edit.at = "form"
  /\ EmptyCache(p)
  /\ edit' = [edit EXCEPT !.at = "emptied"]
  /\ UNCHANGED crossed
CommitForm ==
  /\ edit.at = "emptied"
  /\ override' = edit.to /\ everOverride' = everOverride \cup {edit.to}
  /\ crossed' = (crossed \/ HeldBut(edit.to))
  /\ edit' = NoEdit
  /\ UNCHANGED <<cachedMap, avoid, reader, editsLeft, readsLeft>>
RollBackForm ==
  /\ edit.at = "emptied"
  /\ edit' = NoEdit
  /\ UNCHANGED <<override, cachedMap, avoid, reader, editsLeft, readsLeft, everOverride, crossed>>

\* A list action: the update commits, the cache is emptied after, unless that
\* fails or the process dies in between.
WriteInAction ==
  /\ edit.at = "action"
  /\ override' = edit.to /\ everOverride' = everOverride \cup {edit.to}
  /\ edit' = [edit EXCEPT !.at = "written"]
  /\ UNCHANGED <<cachedMap, avoid, reader, editsLeft, readsLeft, crossed>>
EmptyAfterAction(p) ==
  /\ edit.at = "written"
  /\ EmptyCache(p)
  /\ crossed' = (crossed \/ \/ cachedMap' \ {override} # {}
                           \/ \E q \in Processes : reader[q].at = "store" /\ reader[q].got # override)
  /\ edit' = NoEdit

ConfigNext ==
  \/ \E p \in Processes :
       \/ MissCache(p) \/ ReadTable(p) \/ TableFails(p) \/ StoreRead(p) \/ AvoidEnds(p)
       \/ EmptyInForm(p) \/ EmptyAfterAction(p)
  \/ \E way \in {"form", "action"}, v \in Values : OpenEdit(way, v)
  \/ CacheExpires \/ CommitForm \/ RollBackForm \/ WriteInAction

ConfigSpec == ConfigInit /\ [][ConfigNext]_configVars

-----------------------------------------------------------------------------
(* Properties *)

\* Every variable keeps its type.
ConfigTypeOK ==
  /\ override \in Values
  /\ cachedMap \subseteq Values /\ Cardinality(cachedMap) <= 1
  /\ avoid \subseteq Processes
  /\ reader \in [Processes -> ConfigReaders]
  /\ edit \in Edits
  /\ editsLeft \in 0 .. MaxConfigEdits /\ readsLeft \in 0 .. MaxConfigReads
  /\ everOverride \subseteq Values /\ crossed \in BOOLEAN

\* What is served from the cache was committed at some time: never the value
\* of an edit that is still open or was rolled back.
ServedWasCommitted ==
  /\ {override} \cup cachedMap \subseteq everOverride
  /\ \A p \in Processes : reader[p].at = "store" => reader[p].got \in everOverride

\* When no edit is under way the cached map is the table's.  It is not after
\* an edit that left another value behind, in a map the cache did not delete,
\* one stored between the form's invalidation and its commit, or a read under
\* way; then only until a map expires with no such read left.
CacheFresh ==
  edit.at # "written" /\ ~crossed => cachedMap \subseteq {override}

\* What CacheFresh rests on: whoever is about to store a map then stores that
\* of the table.
ReadersFresh ==
  edit.at # "written" /\ ~crossed =>
    \A p \in Processes : reader[p].at = "store" => reader[p].got = override

\* The runtime configuration as a whole: the cache serves committed values,
\* and the current one except after the edits that CacheFresh names.
ConfigInv == ConfigTypeOK /\ ServedWasCommitted /\ CacheFresh /\ ReadersFresh
=============================================================================
