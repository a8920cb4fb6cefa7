------------------------------- MODULE Medias -------------------------------
(***************************************************************************)
(* Media rows, the files they name in object storage, and the avatar of a  *)
(* profile (src/medias, src/accounts/tasks.py, utils/staging.py).          *)
(*                                                                         *)
(* A media is an upload through the server (the task stores a file under a *)
(* new key at every run, then saves the whole row), a direct upload to a   *)
(* signed URL that the client confirms, or an image for the avatar (its    *)
(* bytes wait in the cache; the task stores them, drops them, and swaps    *)
(* the avatar under a lock of the profile).  Tasks run at least once: a    *)
(* worker that is lost leaves its task to be run again from the start.     *)
(* Web calls read a row and write later.  Rows are only marked deleted.    *)
(* MaxRuns bounds the runs of an upload, MaxMediaCalls the calls of the    *)
(* web tier, MaxMediaLosses the lost workers.                              *)
(***************************************************************************)
EXTENDS Integers, FiniteSets

CONSTANTS
  Files,            \* media that may come to exist, of one user
  MaxRuns,          \* bound: runs of one upload task
  MediaThreads,     \* threads serving calls
  MaxMediaCalls,    \* bound: calls served
  MaxMediaLosses    \* bound: workers lost

ASSUME MediaNats == MaxRuns \in Nat \ {0} /\ MaxMediaCalls \in Nat /\ MaxMediaLosses \in Nat

VARIABLES
  media,         \* media[m]: the Media row: kind, storage key, status, mark
  store,         \* <<m, k>>: the object that media m has stored under key k
  task,          \* task[m]: the task that processes m
  runs,          \* runs[m]: keys that the uploads of m have drawn
  blob,          \* images whose bytes are staged in the cache
  avatar,        \* UserProfile.avatar: at most one media
  cleanups,      \* media that wait for cleanup_old_profile_image
  cleared,       \* media whose cleanup has removed the file, not yet the row
  drops,         \* objects that wait for delete_media_file
  mediaCall,     \* mediaCall[t]: the call thread t serves
  mediaLeft,     \* calls still to come
  mediaLosses,   \* workers that may still be lost
  restored       \* history: a profile edit put an earlier avatar back

mediaRows == <<media, avatar>>
mediaJobs == <<task, runs, blob, cleanups, cleared, drops>>
mediaWeb  == <<mediaCall, mediaLeft>>
mediaVars == <<mediaRows, store, mediaJobs, mediaWeb, mediaLosses, restored>>

\* Key 0 is the "pending/" key of an upload that has not been stored.
FileKeys       == 0 .. MaxRuns
NoMedia    == [kind |-> "none"]
MediaRows  == [kind : {"upload", "direct", "image"}, key : FileKeys,
               status : {"pending", "ready", "failed"}, live : BOOLEAN]
NoTask     == [at |-> "none"]
Queued     == [at |-> "queued"]
TaskStates == {NoTask, Queued, [at |-> "stored"], [at |-> "dropped"], [at |-> "done"]}
              \cup [at : {"copied"}, live : BOOLEAN]
              \cup [at : {"swapped"}, old : SUBSET Files]
NoRequest  == [op |-> "idle"]
AtMostOne  == {s \in SUBSET Files : Cardinality(s) <= 1}
MediaCalls == {NoRequest}
              \cup [op : {"destroy"}, m : Files, key : FileKeys]
              \cup [op : {"confirm"}, m : Files]
              \cup [op : {"unset"}, old : SUBSET Files]
              \cup [op : {"edit"}, copy : AtMostOne]

Known(m)      == media[m] # NoMedia
FileOf(m)     == <<m, media[m].key>>
IsKind(m, k)  == Known(m) /\ media[m].kind = k

MediaInit ==
  /\ media = [m \in Files |-> NoMedia] /\ avatar = {}
  /\ store = {} /\ runs = [m \in Files |-> 0]
  /\ task = [m \in Files |-> NoTask] /\ blob = {}
  /\ cleanups = {} /\ cleared = {} /\ drops = {}
  /\ mediaCall = [t \in MediaThreads |-> NoRequest]
  /\ mediaLeft = MaxMediaCalls /\ mediaLosses = MaxMediaLosses
  /\ restored = FALSE

-----------------------------------------------------------------------------
(* New media *)

NewRow(m, kind, key) ==
  /\ ~Known(m)
  /\ media' = [media EXCEPT ![m] = [kind |-> kind, key |-> key,
                                    status |-> "pending", live |-> TRUE]]
  /\ UNCHANGED <<avatar, store, runs, cleanups, cleared, drops, mediaWeb, mediaLosses, restored>>

Upload(m)  == /\ NewRow(m, "upload", 0)
              /\ task' = [task EXCEPT ![m] = Queued] /\ UNCHANGED blob
Presign(m) == NewRow(m, "direct", 1) /\ UNCHANGED <<task, blob>>
UploadImage(m) ==
  /\ NewRow(m, "image", 1)
  /\ task' = [task EXCEPT ![m] = Queued] /\ blob' = blob \cup {m}

\* The client uses the signed URL, whatever has become of the row.
ClientPuts(m) ==
  /\ IsKind(m, "direct")
  /\ store' = store \cup {<<m, 1>>}
  /\ UNCHANGED <<mediaRows, mediaJobs, mediaWeb, mediaLosses, restored>>

-----------------------------------------------------------------------------
(* process_media_upload *)

MediaAt(m, stage) == task[m].at = stage
Go(m, next)  == task' = [task EXCEPT ![m] = next]
TaskFrame    == UNCHANGED <<cleanups, cleared, drops, mediaWeb, mediaLosses, restored>>
SetStatus(m, s) == media' = [media EXCEPT ![m].status = s]

StoreFile(m) ==
  /\ IsKind(m, "upload") /\ MediaAt(m, "queued") /\ runs[m] < MaxRuns
  /\ runs' = [runs EXCEPT ![m] = @ + 1]
  /\ store' = store \cup {<<m, runs[m] + 1>>}
  /\ Go(m, [at |-> "stored"])
  /\ UNCHANGED <<mediaRows, blob>> /\ TaskFrame
StoreFails(m) ==
  /\ IsKind(m, "upload") /\ MediaAt(m, "queued")
  /\ SetStatus(m, "failed") /\ Go(m, [at |-> "done"])
  /\ UNCHANGED <<avatar, store, runs, blob>> /\ TaskFrame
\* refresh_from_db, then save() of every column, without a lock in between.
RefreshRow(m) ==
  /\ IsKind(m, "upload") /\ MediaAt(m, "stored")
  /\ Go(m, [at |-> "copied", live |-> media[m].live])
  /\ UNCHANGED <<mediaRows, store, runs, blob>> /\ TaskFrame
SaveRow(m) ==
  /\ MediaAt(m, "copied")
  /\ media' = [media EXCEPT ![m].key = runs[m], ![m].status = "ready",
                            ![m].live = task[m].live]
  /\ Go(m, [at |-> "done"])
  /\ UNCHANGED <<avatar, store, runs, blob>> /\ TaskFrame

-----------------------------------------------------------------------------
(* process_profile_image *)

\* The bytes are gone, or are no image.
ImageFails(m) ==
  /\ IsKind(m, "image") /\ MediaAt(m, "queued")
  /\ SetStatus(m, "failed") /\ blob' = blob \ {m} /\ Go(m, [at |-> "done"])
  /\ UNCHANGED <<avatar, store, runs>> /\ TaskFrame
PutImage(m) ==
  /\ IsKind(m, "image") /\ MediaAt(m, "queued") /\ m \in blob
  /\ store' = store \cup {<<m, 1>>}
  /\ Go(m, [at |-> "stored"])
  /\ UNCHANGED <<mediaRows, runs, blob>> /\ TaskFrame
\* A bug the properties would find: the bytes survive the task.
DropBlobLater(m) ==
  /\ IsKind(m, "image") /\ MediaAt(m, "stored")
  /\ Go(m, [at |-> "dropped"])
  /\ UNCHANGED <<mediaRows, store, runs, blob>> /\ TaskFrame
DropBlob(m) ==
  /\ IsKind(m, "image") /\ MediaAt(m, "stored")
  /\ blob' = blob \ {m} /\ Go(m, [at |-> "dropped"])
  /\ UNCHANGED <<mediaRows, store, runs>> /\ TaskFrame
\* One transaction under the lock of the profile.
Swap(m) ==
  /\ MediaAt(m, "dropped")
  /\ SetStatus(m, "ready") /\ avatar' = {m}
  /\ Go(m, [at |-> "swapped", old |-> avatar \ {m}])
  /\ UNCHANGED <<store, runs, blob>> /\ TaskFrame
QueueCleanup(m) ==
  /\ MediaAt(m, "swapped")
  /\ cleanups' = cleanups \cup task[m].old
  /\ Go(m, [at |-> "done"])
  /\ UNCHANGED <<mediaRows, store, runs, blob, cleared, drops, mediaWeb, mediaLosses, restored>>

\* The worker is lost before it has acknowledged the task.
TaskLostAgain(m) ==
  /\ task[m].at \notin {"none", "queued"} /\ mediaLosses > 0
  /\ mediaLosses' = mediaLosses - 1
  /\ Go(m, Queued)
  /\ UNCHANGED <<mediaRows, store, runs, blob, cleanups, cleared, drops, mediaWeb, restored>>

BlobExpires(m) ==
  /\ m \in blob
  /\ blob' = blob \ {m}
  /\ UNCHANGED <<mediaRows, store, task, runs, cleanups, cleared, drops, mediaWeb,
                 mediaLosses, restored>>

-----------------------------------------------------------------------------
(* cleanup_old_profile_image, delete_media_file *)

ClearFile(m) ==
  /\ m \in cleanups
  /\ store' = store \ {FileOf(m)}
  /\ cleanups' = cleanups \ {m} /\ cleared' = cleared \cup {m}
  /\ UNCHANGED <<mediaRows, task, runs, blob, drops, mediaWeb, mediaLosses, restored>>
ClearRow(m) ==
  /\ m \in cleared
  /\ media' = [media EXCEPT ![m].live = FALSE]
  /\ cleared' = cleared \ {m}
  /\ UNCHANGED <<avatar, store, task, runs, blob, cleanups, drops, mediaWeb, mediaLosses, restored>>

\* A failure of the storage is only logged.
DropFile(f) ==
  /\ f \in drops
  /\ drops' = drops \ {f}
  /\ store' \in {store, store \ {f}}
  /\ UNCHANGED <<mediaRows, task, runs, blob, cleanups, cleared, mediaWeb, mediaLosses, restored>>

-----------------------------------------------------------------------------
(* The web tier *)

Request(t, c) ==
  /\ mediaCall[t] = NoRequest /\ mediaLeft > 0
  /\ mediaLeft' = mediaLeft - 1
  /\ mediaCall' = [mediaCall EXCEPT ![t] = c]
  /\ UNCHANGED <<mediaRows, store, mediaJobs, mediaLosses, restored>>
Answered(t) ==
  /\ mediaCall' = [mediaCall EXCEPT ![t] = NoRequest]
  /\ UNCHANGED <<store, task, runs, blob, cleared, mediaLeft, mediaLosses>>

BeginDestroy(t, m) ==
  /\ Known(m) /\ media[m].live
  /\ Request(t, [op |-> "destroy", m |-> m, key |-> media[m].key])
CommitDestroy(t) ==
  LET c == mediaCall[t]
  IN  /\ c.op = "destroy"
      /\ media' = [media EXCEPT ![c.m].live = FALSE]
      /\ drops' = IF c.key = 0 THEN drops ELSE drops \cup {<<c.m, c.key>>}
      /\ Answered(t) /\ UNCHANGED <<avatar, cleanups, restored>>

\* The object is there: head_object.
MayConfirm(m) == Known(m) /\ media[m].live /\ media[m].status # "ready" /\ FileOf(m) \in store
BeginConfirm(t, m) == MayConfirm(m) /\ Request(t, [op |-> "confirm", m |-> m])
CommitConfirm(t) ==
  /\ mediaCall[t].op = "confirm"
  /\ SetStatus(mediaCall[t].m, "ready")
  /\ Answered(t) /\ UNCHANGED <<avatar, cleanups, drops, restored>>

BeginUnset(t) == avatar # {} /\ Request(t, [op |-> "unset", old |-> avatar])
CommitUnset(t) ==
  /\ mediaCall[t].op = "unset"
  /\ avatar' = {} /\ cleanups' = cleanups \cup mediaCall[t].old
  /\ Answered(t) /\ UNCHANGED <<media, drops, restored>>

\* A profile edit saves every column, the avatar as it was read.
BeginEditAvatar(t) == Request(t, [op |-> "edit", copy |-> avatar])
CommitEditAvatar(t) ==
  /\ mediaCall[t].op = "edit"
  /\ avatar' = mediaCall[t].copy
  /\ restored' = (restored \/ mediaCall[t].copy # avatar)
  /\ Answered(t) /\ UNCHANGED <<media, cleanups, drops>>

-----------------------------------------------------------------------------
MediaTask(m) ==
  \/ StoreFile(m) \/ StoreFails(m) \/ RefreshRow(m) \/ SaveRow(m)
  \/ ImageFails(m) \/ PutImage(m) \/ DropBlob(m) \/ Swap(m) \/ QueueCleanup(m)
  \/ TaskLostAgain(m) \/ BlobExpires(m) \/ ClearFile(m) \/ ClearRow(m)
MediaWeb(t) ==
  \/ \E m \in Files : BeginDestroy(t, m) \/ BeginConfirm(t, m)
  \/ CommitDestroy(t) \/ CommitConfirm(t)
  \/ BeginUnset(t) \/ CommitUnset(t) \/ BeginEditAvatar(t) \/ CommitEditAvatar(t)
MediaNext ==
  \/ \E m \in Files : Upload(m) \/ Presign(m) \/ UploadImage(m) \/ ClientPuts(m) \/ MediaTask(m)
  \/ \E f \in drops : DropFile(f)
  \/ \E t \in MediaThreads : MediaWeb(t)

MediaSpec == MediaInit /\ [][MediaNext]_mediaVars

-----------------------------------------------------------------------------
(* Properties *)

\* Every row, task and call keeps its type.
MediaTypeOK ==
  /\ media \in [Files -> MediaRows \cup {NoMedia}]
  /\ avatar \in AtMostOne
  /\ store \subseteq Files \X FileKeys /\ drops \subseteq Files \X FileKeys
  /\ task \in [Files -> TaskStates] /\ runs \in [Files -> FileKeys]
  /\ blob \subseteq Files /\ cleanups \subseteq Files /\ cleared \subseteq Files
  /\ mediaCall \in [MediaThreads -> MediaCalls]
  /\ mediaLeft \in 0 .. MaxMediaCalls /\ mediaLosses \in 0 .. MaxMediaLosses
  /\ restored \in BOOLEAN

\* Images that no profile shows any more and that a cleanup will remove.
Outgoing == cleanups \cup cleared \cup
            UNION {task[m].old : m \in {x \in Files : MediaAt(x, "swapped")}}
\* Images that are or were the avatar, or may become it again.
Worn == avatar \cup Outgoing
        \cup (UNION {mediaCall[t].old : t \in {x \in MediaThreads : mediaCall[x].op = "unset"}})
        \cup (UNION {mediaCall[t].copy : t \in {x \in MediaThreads : mediaCall[x].op = "edit"}})

\* A file somebody still counts on: the media is ready, or is or may again
\* become the avatar (whatever a repeated task made of its status), or a task
\* or a confirmation on its way will make it ready.
CountedOn(m) ==
  \/ media[m].status = "ready" \/ m \in Worn
  \/ media[m].kind = "image" /\ task[m].at \in {"stored", "dropped"}
  \/ \E t \in MediaThreads : mediaCall[t].op = "confirm" /\ mediaCall[t].m = m
\* A media that is shown as ready, or as the avatar, has its file through
\* repeated runs, confirmations and deletions of others that overlap, until
\* its owner deletes it or its cleanup removes both.
FilesStay ==
  \A m \in Files :
    Known(m) /\ media[m].live /\ CountedOn(m) /\ m \notin cleared => FileOf(m) \in store

\* The avatar of a profile is not one that is being cleaned up, unless a
\* profile edit has put back an avatar it had read before.
AvatarKept == ~restored => avatar \cap Outgoing = {}

\* An object that waits to be deleted is not the file of a media still shown.
DroppedAreGone ==
  \A m \in Files : Known(m) /\ FileOf(m) \in drops => ~media[m].live

\* Keys of an upload that its row, a deletion or a call names.
UsedKeys(m) ==
  {media[m].key} \cup {k \in FileKeys : <<m, k>> \in drops}
  \cup {k \in FileKeys : \E t \in MediaThreads : mediaCall[t] = [op |-> "destroy", m |-> m, key |-> k]}
\* A run of an upload saves a key nobody has named before, under which its
\* file is.
KeysAhead ==
  \A m \in Files : IsKind(m, "upload") =>
    /\ \A k \in UsedKeys(m) : k <= runs[m]
    /\ task[m].at \in {"stored", "copied"} =>
         <<m, runs[m]>> \in store /\ \A k \in UsedKeys(m) : k < runs[m]

\* An image becomes the avatar once: one whose bytes are staged or that its
\* task will swap in never was, and its bytes are gone before the swap.
WornOnce ==
  \A m \in Files :
    /\ m \in blob \/ (IsKind(m, "image") /\ task[m].at \in {"stored", "dropped"}) => m \notin Worn
    /\ MediaAt(m, "dropped") => m \notin blob

\* Tasks, calls and deletions are of media that exist, each of its kind.
KindsFit ==
  /\ \A m \in Files :
       /\ Known(m) /\ media[m].kind # "upload" => media[m].key = 1
       /\ ~MediaAt(m, "none") => Known(m)
       /\ MediaAt(m, "copied") => IsKind(m, "upload")
       /\ task[m].at \in {"dropped", "swapped"} => IsKind(m, "image")
       /\ m \in blob \cup Worn => IsKind(m, "image")
  /\ \A f \in drops : Known(f[1])
  /\ \A t \in MediaThreads : mediaCall[t].op \in {"destroy", "confirm"} => Known(mediaCall[t].m)

\* Uploads and avatars as a whole: neither a ready media nor the avatar shown
\* loses its file to a task, a confirmation or a cleanup that overlaps.  The
\* owner may delete the media that is the avatar: the profile then goes on
\* naming a row marked deleted, whose file is removed.
MediaInv ==
  /\ MediaTypeOK /\ FilesStay /\ AvatarKept
  /\ DroppedAreGone /\ KeysAhead /\ WornOnce /\ KindsFit
=============================================================================
