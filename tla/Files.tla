-------------------------------- MODULE Files ---------------------------------
(***************************************************************************)
(* File transfer (handler/http_upload_file.go, http_download_file.go,      *)
(* cleanup.go): the directory entry and the files row of one file_id, and  *)
(* the goroutines that touch them.  Entries and rows of different ids are  *)
(* independent.                                                            *)
(*                                                                         *)
(* A handler is a series of file system calls and store calls, each atomic *)
(* and interleaved with those of the others.  os.Remove works on the path, *)
(* whatever file it names by then; an open file stays readable and         *)
(* writable after its entry is gone.  A file is named by the upload that   *)
(* created it.                                                             *)
(*                                                                         *)
(* An upload is taken once its parameters, its signature and the mutual    *)
(* contact are verified, a download once its signature is: what is         *)
(* rejected before that changes nothing here.                              *)
(***************************************************************************)
EXTENDS Naturals

CONSTANTS
  Uploads,      \* the upload requests that name this file_id
  Downloads,    \* the recipient's downloads that run at the same time
  None,         \* no entry, no row, no file
  Size,         \* Size[u] is the size that upload u declares
  MaxFileSize   \* config.Cfg.MaxFileSize

ASSUME NoneAssumption == None \notin Uploads
ASSUME SizeAssumption ==
  /\ MaxFileSize \in Nat \ {0}
  /\ Size \in [Uploads -> 1..MaxFileSize]

VARIABLES
  path,       \* the file behind <file_id>.enc, or None
  row,        \* the upload that the files row describes, or None
  length,     \* length[u], the bytes written to the file of u
  aged,       \* the uploads whose row became older than FileTTL
  up,         \* up[u], where the handler of upload u is
  down,       \* down[d], the handler of download d, see Download
  cleaner,    \* where the cleanup goroutine is
  delivered,  \* history: the files that a download wrote out to their end
  exposed     \* history: see Fresh and CheckOrphan

disk == <<path, row, length, aged>>
vars == <<disk, up, down, cleaner, delivered, exposed>>

File == Uploads \cup {None}

\* pc is "idle" until GetFileMeta finds the row; "open" before os.Open;
\* "send" inside io.Copy; "remove" and "forget" before the two deletions.
\* Once it is answered, the client may send the request again.
Download == [pc : {"idle", "open", "send", "remove", "forget"},
             meta : File, fd : File]

Idle == [pc |-> "idle", meta |-> None, fd |-> None]

TypeOK ==
  /\ path \in File
  /\ row \in File
  /\ length \in [Uploads -> 0..(MaxFileSize + 1)]
  /\ aged \subseteq Uploads
  /\ up \in [Uploads -> {"new", "copy", "save", "undo", "ok", "failed"}]
  /\ down \in [Downloads -> Download]
  /\ cleaner \in {"idle", "remove", "forget", "readdir", "check", "orphan"}
  /\ delivered \subseteq Uploads
  /\ exposed \subseteq Uploads

Init ==
  /\ path = None
  /\ row = None
  /\ length = [u \in Uploads |-> 0]
  /\ aged = {}
  /\ up = [u \in Uploads |-> "new"]
  /\ down = [d \in Downloads |-> Idle]
  /\ cleaner = "idle"
  /\ delivered = {}
  /\ exposed = {}

-----------------------------------------------------------------------------
(* Upload. *)

InProgress(u) == up[u] \in {"copy", "save", "undo"}
Serving(d) == down[d].pc # "idle"

\* Nothing is left of an earlier file of this id, and nobody works on one.
Fresh ==
  /\ row = None
  /\ \A u \in Uploads : ~InProgress(u)
  /\ \A d \in Downloads : ~Serving(d)
  /\ cleaner \notin {"remove", "forget", "orphan"}

Upload(u, pc) == up' = [up EXCEPT ![u] = pc]

\* Mutant: O_CREATE without O_EXCL, an upload takes the place of another.
OpenFileAnew(u) ==
  /\ up[u] = "new"
  /\ path' = u
  /\ Upload(u, "copy")
  /\ exposed' = IF Fresh THEN exposed ELSE exposed \cup {u}
  /\ UNCHANGED <<row, length, aged, down, cleaner, delivered>>

\* O_CREATE|O_EXCL: an id whose entry is there is refused as FILE_EXISTS.
OpenFile(u) ==
  /\ up[u] = "new"
  /\ \/ /\ path = None
        /\ path' = u
        /\ Upload(u, "copy")
        /\ exposed' = IF Fresh THEN exposed ELSE exposed \cup {u}
     \/ Upload(u, "failed") /\ UNCHANGED <<path, exposed>>
  /\ UNCHANGED <<row, length, aged, down, cleaner, delivered>>

\* The body is copied and ends or breaks off after n bytes; the copy has to
\* have the size that was declared.  A reader meets a file that is still being
\* written as an empty one.
Received(u, n) ==
  /\ up[u] = "copy"
  /\ length' = [length EXCEPT ![u] = n]
  /\ Upload(u, "undo") \/ (n = Size[u] /\ Upload(u, "save"))
  /\ UNCHANGED <<path, row, aged, down, cleaner, delivered, exposed>>

\* Mutant: the body is copied without a limit.
receiveUnlimited(u) == \E n \in 0..(MaxFileSize + 2) : Received(u, n)

\* Mutant: the bytes are not counted.
receiveUncounted(u) ==
  /\ up[u] = "copy"
  /\ \E n \in 0..(MaxFileSize + 1) : length' = [length EXCEPT ![u] = n]
  /\ Upload(u, "undo") \/ Upload(u, "save")
  /\ UNCHANGED <<path, row, aged, down, cleaner, delivered, exposed>>

\* io.Copy from a LimitReader, which lets one byte more through than the
\* largest file has.
receiveBody(u) == \E n \in 0..(MaxFileSize + 1) : Received(u, n)

\* The INSERT fails when the id has a row, and may fail otherwise.
SaveFileMeta(u) ==
  /\ up[u] = "save"
  /\ \/ row = None /\ row' = u /\ Upload(u, "ok")
     \/ Upload(u, "undo") /\ UNCHANGED row
  /\ UNCHANGED <<path, length, aged, down, cleaner, delivered, exposed>>

\* os.Remove takes away whatever the path names, or fails.
Remove == path' \in {None, path}

\* The file of a failed upload is removed, by its path.
removeUpload(u) ==
  /\ up[u] = "undo"
  /\ Remove
  /\ Upload(u, "failed")
  /\ UNCHANGED <<row, length, aged, down, cleaner, delivered, exposed>>

-----------------------------------------------------------------------------
(* Download. *)

\* GetFileMeta; the caller is the recipient.  Without a row the request is
\* answered with FILE_NOT_FOUND and changes nothing.
GetFileMeta(d) ==
  /\ down[d].pc = "idle"
  /\ row # None
  /\ down' = [down EXCEPT ![d].pc = "open", ![d].meta = row]
  /\ UNCHANGED <<disk, up, cleaner, delivered, exposed>>

\* os.Open of the path, whatever file it names by now.
openFile(d) ==
  /\ down[d].pc = "open"
  /\ down' = IF path = None THEN [down EXCEPT ![d] = Idle]
             ELSE [down EXCEPT ![d].pc = "send", ![d].fd = path]
  /\ UNCHANGED <<disk, up, cleaner, delivered, exposed>>

\* Mutant: an interrupted answer counts as delivered.
sendEndsAnyhow(d) ==
  /\ down[d].pc = "send"
  /\ down' = [down EXCEPT ![d].pc = "remove"]
  /\ UNCHANGED <<disk, up, cleaner, delivered, exposed>>

\* io.Copy returns.  The file counts as delivered when start + written is the
\* size in the row and there was no error: wherever the Range starts, the copy
\* ends at the end of the open file, or fails at the Content-Length when the
\* file is longer.  An interrupted answer, for which the client comes back
\* with a Range, leaves the file in place.
sendEnds(d) ==
  /\ down[d].pc = "send"
  /\ \/ /\ length[down[d].fd] = Size[down[d].meta]
        /\ down' = [down EXCEPT ![d].pc = "remove"]
        /\ delivered' = delivered \cup {down[d].fd}
     \/ /\ down' = [down EXCEPT ![d] = Idle]
        /\ UNCHANGED delivered
  /\ UNCHANGED <<disk, up, cleaner, exposed>>

removeDownloaded(d) ==
  /\ down[d].pc = "remove"
  /\ Remove
  /\ down' = [down EXCEPT ![d].pc = "forget"]
  /\ UNCHANGED <<row, length, aged, up, cleaner, delivered, exposed>>

\* A failed DELETE leaves the row to the cleanup.
DeleteFileMeta(d) ==
  /\ down[d].pc = "forget"
  /\ row' \in {None, row}
  /\ down' = [down EXCEPT ![d] = Idle]
  /\ UNCHANGED <<path, length, aged, up, cleaner, delivered, exposed>>

-----------------------------------------------------------------------------
(* The hourly cleanup. *)

\* FileTTL passes for the row.
expire ==
  /\ row # None
  /\ row \notin aged
  /\ aged' = aged \cup {row}
  /\ UNCHANGED <<path, row, length, up, down, cleaner, delivered, exposed>>

Clean(from, to) == cleaner = from /\ cleaner' = to

\* The goroutine wakes up and lists the expired ids.
ListExpiredFileIDs ==
  /\ Clean("idle", IF row # None /\ row \in aged THEN "remove" ELSE "readdir")
  /\ UNCHANGED <<disk, up, down, delivered, exposed>>

removeExpired ==
  /\ Clean("remove", "forget")
  /\ Remove
  /\ UNCHANGED <<row, length, aged, up, down, delivered, exposed>>

\* The row of the listed id goes, its file or no file; a failure leaves it to the next round.
deleteExpiredMeta ==
  /\ Clean("forget", "readdir")
  /\ row' \in {None, row}
  /\ UNCHANGED <<path, length, aged, up, down, delivered, exposed>>

readDir ==
  /\ Clean("readdir", IF path = None THEN "idle" ELSE "check")
  /\ UNCHANGED <<disk, up, down, delivered, exposed>>

\* GetFileMeta for an entry of the directory: without a row it is an orphan,
\* also when its upload has not saved the row yet.
CheckOrphan ==
  /\ Clean("check", IF row = None THEN "orphan" ELSE "idle")
  /\ exposed' = IF row = None /\ path # None /\ InProgress(path)
                THEN exposed \cup {path} ELSE exposed
  /\ UNCHANGED <<disk, up, down, delivered>>

\* Mutant: orphans are reported and kept.
keepOrphan ==
  /\ Clean("orphan", "idle")
  /\ UNCHANGED <<disk, up, down, delivered, exposed>>

removeOrphan ==
  /\ Clean("orphan", "idle")
  /\ Remove
  /\ UNCHANGED <<row, length, aged, up, down, delivered, exposed>>

\* A listing or a query failed: the round ends.
cleanFails ==
  /\ \E pc \in {"readdir", "check"} : Clean(pc, "idle")
  /\ UNCHANGED <<disk, up, down, delivered, exposed>>

Cleaner ==
  \/ ListExpiredFileIDs
  \/ removeExpired
  \/ deleteExpiredMeta
  \/ readDir
  \/ CheckOrphan
  \/ removeOrphan

-----------------------------------------------------------------------------
\* The process dies and is started again: the handlers are gone, the
\* directory and the database stay.
Crash ==
  /\ up' = [u \in Uploads |-> IF InProgress(u) THEN "failed" ELSE up[u]]
  /\ down' = [d \in Downloads |-> Idle]
  /\ cleaner' = "idle"
  /\ UNCHANGED <<disk, delivered, exposed>>

Next ==
  \/ \E u \in Uploads :
       OpenFile(u) \/ receiveBody(u) \/ SaveFileMeta(u) \/ removeUpload(u)
  \/ \E d \in Downloads :
       GetFileMeta(d) \/ openFile(d) \/ sendEnds(d) \/ removeDownloaded(d) \/ DeleteFileMeta(d)
  \/ expire
  \/ Cleaner
  \/ cleanFails
  \/ Crash

Spec == Init /\ [][Next]_vars

\* Time passes, and the hourly round comes again after every crash.  Each of
\* its calls succeeds in some rounds: neither an error nor a crash meets the
\* same call for ever.  Nothing is assumed of the handlers: a client may
\* stall for ever.
Fairness ==
  /\ WF_vars(expire)
  /\ SF_vars(ListExpiredFileIDs)
  /\ SF_vars(removeExpired)
  /\ SF_vars(deleteExpiredMeta /\ row' = None)
  /\ SF_vars(readDir)
  /\ SF_vars(CheckOrphan)
  /\ SF_vars(removeOrphan /\ path' = None)

FairSpec == Spec /\ Fairness

-----------------------------------------------------------------------------
\* What the answer of upload_file promises (http_upload_file.go: "receiving
\* the meta means the file is already on disk"): the file and its row stay
\* until a download has written the file out to its end, or FileTTL is over.
\* It holds for an upload that started on a fresh id and that no orphan sweep
\* met before it had saved its row, whatever downloads, resumes, retries,
\* sweeps and crashes come later.
UploadedIsKept ==
  \A u \in Uploads :
    up[u] = "ok" /\ u \notin exposed =>
      (path = u /\ row = u) \/ u \in delivered \/ u \in aged

\* A row describes a file that was received completely.  A download looks the
\* row up first and opens the path later, so what it sends may be another file
\* than the one its row describes.  This befalls only a row whose own file had
\* been delivered before, was over its FileTTL or was itself exposed, and the
\* file sent instead began over the remains of the other one: its upload is
\* exposed (http_download_file.go, http_upload_file.go).
ServedAsDescribed ==
  /\ row # None => length[row] = Size[row]
  /\ \A d \in Downloads :
       down[d].fd \notin {None, down[d].meta} =>
         /\ down[d].meta \in delivered \cup aged \cup exposed
         /\ down[d].fd \in exposed

\* The server keeps no file for ever: once no new upload names the id, what
\* was uploaded and what a failed upload, a stalled one or a crash left
\* behind is gone in the end, row and entry (cleanup.go, cleanExpiredFiles).
StorageReclaimed == <>[](row = None /\ path = None)
=============================================================================
