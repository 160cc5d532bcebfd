------------------------------ MODULE FilesProofs ------------------------------
(***************************************************************************)
(* Proofs about Files, for any uploads, downloads and sizes: a download    *)
(* sends the file its row describes, and a file that was answered for      *)
(* stays until it is delivered or FileTTL is over.                         *)
(***************************************************************************)
EXTENDS Files, TLAPS

-----------------------------------------------------------------------------
(* Types *)

\* What a download knows at each place: a row from GetFileMeta on, an open
\* file from os.Open on, and one that it wrote out when it removes it.
DownInv ==
  \A d \in Downloads :
    /\ down[d].pc # "idle" => down[d].meta \in Uploads
    /\ down[d].pc \in {"idle", "open"} => down[d].fd = None
    /\ down[d].pc \in {"send", "remove", "forget"} => down[d].fd \in Uploads
    /\ down[d].pc \in {"remove", "forget"} => down[d].fd \in delivered

TypeInv == TypeOK /\ DownInv

\* Download d goes on with these fields, and the others stay as they are.
Becomes(d, p, m, f) ==
  /\ down' \in [Downloads -> Download]
  /\ \A e \in Downloads \ {d} : down'[e] = down[e]
  /\ down'[d].pc = p /\ down'[d].meta = m /\ down'[d].fd = f

\* What the steps of a download do to it.
LEMMA DownMoves ==
  ASSUME TypeOK, NEW d \in Downloads
  PROVE  /\ GetFileMeta(d) => Becomes(d, "open", row, down[d].fd)
         /\ openFile(d) => \/ Becomes(d, "idle", None, None)
                           \/ path # None /\ Becomes(d, "send", down[d].meta, path)
         /\ sendEnds(d) => \/ /\ Becomes(d, "remove", down[d].meta, down[d].fd)
                              /\ delivered' = delivered \cup {down[d].fd}
                           \/ Becomes(d, "idle", None, None) /\ delivered' = delivered
         /\ removeDownloaded(d) => Becomes(d, "forget", down[d].meta, down[d].fd)
         /\ DeleteFileMeta(d) => Becomes(d, "idle", None, None)
<1> DEFINE k == down[d]
           Pcs == {"idle", "open", "send", "remove", "forget"}
<1>1. /\ down \in [Downloads -> Download] /\ k \in Download
      /\ k.pc \in Pcs /\ k.meta \in File /\ k.fd \in File /\ path \in File /\ row \in File
  BY DEF TypeOK, Download
<1>2. down' = [down EXCEPT ![d] = Idle] => Becomes(d, "idle", None, None)
  <2>1. Idle \in Download /\ Idle.pc = "idle" /\ Idle.meta = None /\ Idle.fd = None
    BY DEF Idle, Download, File
  <2> QED
    BY <1>1, <2>1 DEF Becomes
<1>3. ASSUME NEW p \in Pcs, down' = [down EXCEPT ![d].pc = p]
      PROVE  Becomes(d, p, k.meta, k.fd)
  <2>1. down' = [down EXCEPT ![d] = [k EXCEPT !.pc = p]]
    BY <1>3
  <2>2. [k EXCEPT !.pc = p] \in Download
    BY <1>1 DEF Download
  <2> QED
    BY <1>1, <2>1, <2>2 DEF Becomes, Download
<1>4. ASSUME down' = [down EXCEPT ![d].pc = "open", ![d].meta = row]
      PROVE  Becomes(d, "open", row, k.fd)
  <2>1. down' = [down EXCEPT ![d] = [k EXCEPT !.pc = "open", !.meta = row]]
    BY <1>4
  <2>2. [k EXCEPT !.pc = "open", !.meta = row] \in Download
    BY <1>1 DEF Download
  <2> QED
    BY <1>1, <2>1, <2>2 DEF Becomes, Download
<1>5. ASSUME down' = [down EXCEPT ![d].pc = "send", ![d].fd = path]
      PROVE  Becomes(d, "send", k.meta, path)
  <2>1. down' = [down EXCEPT ![d] = [k EXCEPT !.pc = "send", !.fd = path]]
    BY <1>5
  <2>2. [k EXCEPT !.pc = "send", !.fd = path] \in Download
    BY <1>1 DEF Download
  <2> QED
    BY <1>1, <2>1, <2>2 DEF Becomes, Download
<1>6. ASSUME openFile(d) PROVE \/ Becomes(d, "idle", None, None)
                               \/ path # None /\ Becomes(d, "send", k.meta, path)
  BY <1>2, <1>5, <1>6 DEF openFile
<1> QED
  BY <1>2, <1>3, <1>4, <1>6 DEF GetFileMeta, sendEnds, removeDownloaded, DeleteFileMeta

\* The downloads keep their types and what they know.
LEMMA DownTyping ==
  ASSUME TypeInv, NEW d \in Downloads,
         GetFileMeta(d) \/ openFile(d) \/ sendEnds(d) \/ removeDownloaded(d) \/ DeleteFileMeta(d)
  PROVE  /\ down' \in [Downloads -> Download] /\ delivered' \subseteq Uploads
         /\ DownInv'
<1>1. /\ TypeOK /\ DownInv /\ path \in File /\ row \in File /\ delivered \subseteq Uploads
      /\ down \in [Downloads -> Download]
  BY DEF TypeInv, TypeOK
<1>2. ASSUME NEW p, NEW m, NEW f, Becomes(d, p, m, f), delivered \subseteq delivered',
             p # "idle" => m \in Uploads,
             p \in {"idle", "open"} => f = None,
             p \in {"send", "remove", "forget"} => f \in Uploads,
             p \in {"remove", "forget"} => f \in delivered'
      PROVE  down' \in [Downloads -> Download] /\ DownInv'
  BY <1>1, <1>2 DEF Becomes, DownInv
<1>3. \A x \in File : x # None => x \in Uploads
  BY DEF File
<1>4. Becomes(d, "idle", None, None) /\ delivered' = delivered =>
        down' \in [Downloads -> Download] /\ DownInv'
  BY <1>2
<1>5. CASE GetFileMeta(d)
  <2>1. Becomes(d, "open", row, down[d].fd) /\ row \in Uploads /\ down[d].fd = None
        /\ delivered' = delivered
    BY <1>1, <1>3, <1>5, DownMoves DEF GetFileMeta, DownInv
  <2> QED
    BY <1>1, <1>2, <2>1
<1>6. CASE openFile(d)
  <2>1. down[d].meta \in Uploads /\ delivered' = delivered
    BY <1>1, <1>6 DEF openFile, DownInv
  <2>2. CASE path # None /\ Becomes(d, "send", down[d].meta, path)
    BY <1>1, <1>2, <1>3, <2>1, <2>2
  <2> QED
    BY <1>1, <1>4, <1>6, <2>1, <2>2, DownMoves
<1>7. CASE sendEnds(d)
  <2>1. down[d].meta \in Uploads /\ down[d].fd \in Uploads
    BY <1>1, <1>7 DEF sendEnds, DownInv
  <2>2. CASE /\ Becomes(d, "remove", down[d].meta, down[d].fd)
             /\ delivered' = delivered \cup {down[d].fd}
    BY <1>1, <1>2, <2>1, <2>2
  <2> QED
    BY <1>1, <1>4, <1>7, <2>2, DownMoves
<1>8. CASE removeDownloaded(d)
  <2>1. /\ down[d].meta \in Uploads /\ down[d].fd \in Uploads /\ down[d].fd \in delivered
        /\ delivered' = delivered
    BY <1>1, <1>8 DEF removeDownloaded, DownInv
  <2> QED
    BY <1>1, <1>2, <1>8, <2>1, DownMoves
<1>9. CASE DeleteFileMeta(d)
  BY <1>1, <1>4, <1>9, DownMoves DEF DeleteFileMeta
<1> QED
  BY <1>5, <1>6, <1>7, <1>8, <1>9

\* Every step keeps the types and what the downloads know.
LEMMA NextTypeInv == TypeInv /\ [Next]_vars => TypeInv'
<1> SUFFICES ASSUME TypeInv, [Next]_vars PROVE TypeInv'
  OBVIOUS
<1>1. TypeOK /\ DownInv
  BY DEF TypeInv
<1>2. MaxFileSize \in Nat /\ \A n \in 0..MaxFileSize : n \in 0..(MaxFileSize + 1)
  BY SizeAssumption
<1>3. ASSUME NEW u \in Uploads, NEW pc \in {"new", "copy", "save", "undo", "ok", "failed"},
             Upload(u, pc)
      PROVE  up' \in [Uploads -> {"new", "copy", "save", "undo", "ok", "failed"}]
  BY <1>1, <1>3 DEF Upload, TypeOK
<1>4. ASSUME NEW u \in Uploads, OpenFile(u) \/ receiveBody(u) \/ SaveFileMeta(u) \/ removeUpload(u)
      PROVE  TypeInv'
  <2>1. UNCHANGED <<aged, down, cleaner, delivered>>
    BY <1>4 DEF OpenFile, receiveBody, Received, SaveFileMeta, removeUpload
  <2>2. DownInv'
    BY <1>1, <2>1 DEF DownInv
  <2>3. up' \in [Uploads -> {"new", "copy", "save", "undo", "ok", "failed"}]
    BY <1>3, <1>4 DEF OpenFile, receiveBody, Received, SaveFileMeta, removeUpload
  <2>4. path' \in File /\ row' \in File /\ exposed' \subseteq Uploads
    BY <1>1, <1>4 DEF OpenFile, receiveBody, Received, SaveFileMeta, removeUpload, Remove,
       TypeOK, File
  <2>5. length' \in [Uploads -> 0..(MaxFileSize + 1)]
    BY <1>1, <1>4 DEF OpenFile, receiveBody, Received, SaveFileMeta, removeUpload, TypeOK
  <2> QED
    BY <1>1, <2>1, <2>2, <2>3, <2>4, <2>5 DEF TypeInv, TypeOK
<1>5. ASSUME NEW d \in Downloads,
             GetFileMeta(d) \/ openFile(d) \/ sendEnds(d) \/ removeDownloaded(d)
               \/ DeleteFileMeta(d)
      PROVE  TypeInv'
  <2>1. down' \in [Downloads -> Download] /\ delivered' \subseteq Uploads /\ DownInv'
    BY <1>5, DownTyping
  <2>2. /\ UNCHANGED <<length, aged, up, cleaner, exposed>>
        /\ path' \in {None, path} /\ row' \in {None, row}
    BY <1>5 DEF GetFileMeta, openFile, sendEnds, removeDownloaded, DeleteFileMeta, Remove, disk
  <2> QED
    BY <1>1, <2>1, <2>2 DEF TypeInv, TypeOK, File
<1>6. ASSUME expire \/ Cleaner \/ cleanFails PROVE TypeInv'
  <2>1. UNCHANGED <<length, up, down, delivered>>
    BY <1>6 DEF expire, Cleaner, ListExpiredFileIDs, removeExpired, deleteExpiredMeta, readDir,
       CheckOrphan, removeOrphan, cleanFails, disk
  <2>2. DownInv'
    BY <1>1, <2>1 DEF DownInv
  <2>3. /\ path' \in {None, path} /\ row' \in {None, row}
        /\ aged' \in {aged, aged \cup {row}} /\ (aged' # aged => row # None)
        /\ exposed' \in {exposed, exposed \cup {path}} /\ (exposed' # exposed => path # None)
    BY <1>6 DEF expire, Cleaner, ListExpiredFileIDs, removeExpired, deleteExpiredMeta, readDir,
       CheckOrphan, removeOrphan, cleanFails, disk, Remove
  <2>4. cleaner' \in {"idle", "remove", "forget", "readdir", "check", "orphan"}
    BY <1>1, <1>6 DEF expire, Cleaner, ListExpiredFileIDs, removeExpired, deleteExpiredMeta,
       readDir, CheckOrphan, removeOrphan, cleanFails, Clean, TypeOK
  <2>5. aged' \subseteq Uploads /\ exposed' \subseteq Uploads
    BY <1>1, <2>3 DEF TypeOK, File
  <2> QED
    BY <1>1, <2>1, <2>2, <2>3, <2>4, <2>5 DEF TypeInv, TypeOK, File
<1>7. ASSUME Crash PROVE TypeInv'
  <2>1. Idle \in Download /\ Idle.pc = "idle" /\ Idle.fd = None
    BY DEF Idle, Download, File
  <2>2. down' \in [Downloads -> Download] /\ DownInv'
    BY <1>7, <2>1 DEF Crash, DownInv
  <2> QED
    BY <1>1, <1>7, <2>2 DEF Crash, TypeInv, TypeOK, disk
<1>8. ASSUME UNCHANGED vars PROVE TypeInv'
  BY <1>1, <1>8 DEF vars, disk, TypeInv, TypeOK, DownInv
<1> QED
  BY <1>4, <1>5, <1>6, <1>7, <1>8 DEF Next

\* At the start nothing is on disk and nobody is served.
LEMMA InitTypeInv == Init => TypeInv
<1> SUFFICES ASSUME Init PROVE TypeInv
  OBVIOUS
<1>1. Idle \in Download /\ Idle.pc = "idle" /\ Idle.fd = None
  BY DEF Idle, Download, File
<1>2. 0 \in 0..(MaxFileSize + 1)
  BY SizeAssumption
<1> QED
  BY <1>1, <1>2 DEF Init, TypeInv, TypeOK, DownInv, File

\* Every reachable state of the file handlers is well typed.
THEOREM FilesTypeCorrect == Spec => []TypeOK
<1>1. TypeInv => TypeOK
  BY DEF TypeInv
<1> QED
  BY InitTypeInv, NextTypeInv, <1>1, PTL DEF Spec

-----------------------------------------------------------------------------
(* Files and who may remove them *)

\* u is the file behind the path, and neither an older file of the id nor an
\* orphan sweep got in its way.
Owns(u) == path = u /\ u \notin exposed

\* Nobody works on another file of this id then, and who removes the path or
\* the row has delivered the file, or finds it expired.
Undisturbed(u) ==
  /\ row \in {None, u}
  /\ \A v \in Uploads : InProgress(v) => v = u
  /\ \A d \in Downloads : Serving(d) => down[d].meta = u /\ down[d].fd \in {None, u}
  /\ cleaner \in {"remove", "forget"} => u \in aged
  /\ cleaner = "orphan" => ~InProgress(u) /\ (up[u] = "ok" => u \in delivered \/ u \in aged)

OwnerInv == \A u \in Uploads : Owns(u) => Undisturbed(u)

\* A file that is being received, or waits for its row, is behind the path.
ReceivedInv == \A u \in Uploads : up[u] \in {"copy", "save"} /\ u \notin exposed => path = u

\* The size was checked before a row is saved, and what a row describes, or
\* described when a download or the clock met it, was saved.
SizeInv == \A u \in Uploads : up[u] \in {"save", "ok"} => length[u] = Size[u]

SavedInv ==
  /\ row # None => up[row] = "ok"
  /\ \A u \in aged : up[u] = "ok"
  /\ \A d \in Downloads : Serving(d) => up[down[d].meta] = "ok"

\* The row that download d looked up lost its file, for one of the reasons
\* there are, before a file that is exposed came behind the path.
Misled(d) ==
  /\ down[d].meta \in delivered \cup aged \cup exposed
  /\ down[d].fd \in exposed

\* What a download has open is what its row describes, or it was misled.
OpenInv ==
  \A d \in Downloads : down[d].fd \notin {None, down[d].meta} => Misled(d)

\* The inductive invariant about files.
FileInv ==
  OwnerInv /\ ReceivedInv /\ SizeInv /\ SavedInv /\ OpenInv /\ UploadedIsKept

\* Only OpenFile makes a file the one behind the path, and histories grow.
LEMMA PathSteps ==
  ASSUME [Next]_vars
  PROVE  /\ \/ path' \in {None, path} \/ \E u \in Uploads : OpenFile(u)
         /\ exposed \subseteq exposed' /\ aged \subseteq aged' /\ delivered \subseteq delivered'
<1>1. ASSUME NEW u \in Uploads, OpenFile(u) \/ receiveBody(u) \/ SaveFileMeta(u) \/ removeUpload(u)
      PROVE  /\ path' \in {None, path} \/ OpenFile(u)
             /\ exposed \subseteq exposed' /\ aged' = aged /\ delivered' = delivered
  BY <1>1 DEF OpenFile, receiveBody, Received, SaveFileMeta, removeUpload, Remove
<1>2. ASSUME NEW d \in Downloads,
             GetFileMeta(d) \/ openFile(d) \/ sendEnds(d) \/ removeDownloaded(d)
               \/ DeleteFileMeta(d)
      PROVE  /\ path' \in {None, path}
             /\ exposed' = exposed /\ aged' = aged /\ delivered \subseteq delivered'
  BY <1>2 DEF GetFileMeta, openFile, sendEnds, removeDownloaded, DeleteFileMeta, Remove, disk
<1>3. ASSUME expire \/ Cleaner \/ cleanFails \/ Crash \/ UNCHANGED vars
      PROVE  /\ path' \in {None, path}
             /\ exposed \subseteq exposed' /\ aged \subseteq aged' /\ delivered' = delivered
  BY <1>3 DEF expire, Cleaner, ListExpiredFileIDs, removeExpired, deleteExpiredMeta, readDir,
     CheckOrphan, removeOrphan, cleanFails, Crash, disk, vars, Remove
<1> QED
  BY <1>1, <1>2, <1>3 DEF Next

\* The handlers of uploads leave the file behind the path undisturbed.
LEMMA UploadOwner ==
  ASSUME TypeInv, OwnerInv, NEW w \in Uploads,
         OpenFile(w) \/ receiveBody(w) \/ SaveFileMeta(w) \/ removeUpload(w),
         NEW u \in Uploads, path' = u, u \notin exposed'
  PROVE  Undisturbed(u)'
<1>1. /\ up \in [Uploads -> {"new", "copy", "save", "undo", "ok", "failed"}]
      /\ None \notin Uploads /\ UNCHANGED <<aged, down, cleaner, delivered>>
  BY NoneAssumption DEF TypeInv, TypeOK, OpenFile, receiveBody, Received, SaveFileMeta,
     removeUpload
<1>2. ASSUME NEW pc, Upload(w, pc)
      PROVE  up'[w] = pc /\ \A v \in Uploads \ {w} : up'[v] = up[v]
  BY <1>1, <1>2 DEF Upload
<1>3. ASSUME path = u, u \notin exposed, row' \in {None, u},
             \A v \in Uploads : InProgress(v)' => InProgress(v),
             cleaner = "orphan" /\ up'[u] = "ok" => up[u] = "ok"
      PROVE  Undisturbed(u)'
  <2>1. Undisturbed(u)
    BY <1>3 DEF OwnerInv, Owns
  <2> QED
    BY <1>1, <1>3, <2>1 DEF Undisturbed, Serving
<1>4. ASSUME path = u, u \notin exposed PROVE row \in {None, u}
  BY <1>4 DEF OwnerInv, Owns, Undisturbed
<1>5. ASSUME OpenFile(w), path = None, path' = w, Upload(w, "copy"),
             exposed' = IF Fresh THEN exposed ELSE exposed \cup {w}
      PROVE  Undisturbed(u)'
  <2>1. u = w /\ Fresh
    BY <1>1, <1>5
  <2>2. row' = None
    BY <1>5, <2>1 DEF OpenFile, Fresh
  <2>3. \A v \in Uploads : InProgress(v)' => v = u
    BY <1>2, <1>5, <2>1 DEF Fresh, InProgress
  <2>4. \A d \in Downloads : ~Serving(d)'
    BY <1>1, <2>1 DEF Fresh, Serving
  <2>5. cleaner' \notin {"remove", "forget", "orphan"}
    BY <1>1, <2>1 DEF Fresh
  <2> QED
    BY <2>2, <2>3, <2>4, <2>5 DEF Undisturbed
<1>6. ASSUME OpenFile(w), Upload(w, "failed"), UNCHANGED <<path, exposed>>
      PROVE  Undisturbed(u)'
  <2>1. row' = row
    BY <1>6 DEF OpenFile
  <2>2. /\ \A v \in Uploads : InProgress(v)' => InProgress(v)
        /\ up'[u] = "ok" => up[u] = "ok"
    BY <1>2, <1>6 DEF InProgress
  <2> QED
    BY <1>3, <1>4, <1>6, <2>1, <2>2
<1>7. ASSUME receiveBody(w) PROVE Undisturbed(u)'
  <2>1. /\ up[w] = "copy" /\ UNCHANGED <<path, row, exposed>>
        /\ Upload(w, "undo") \/ Upload(w, "save")
    BY <1>7 DEF receiveBody, Received
  <2>2. /\ \A v \in Uploads : InProgress(v)' => InProgress(v)
        /\ up'[u] = "ok" => up[u] = "ok"
    BY <1>2, <2>1 DEF InProgress
  <2> QED
    BY <1>3, <1>4, <2>1, <2>2
<1>8. ASSUME SaveFileMeta(w) PROVE Undisturbed(u)'
  <2>1. /\ up[w] = "save" /\ UNCHANGED <<path, exposed>>
        /\ \/ row' = w /\ Upload(w, "ok")
           \/ row' = row /\ Upload(w, "undo")
    BY <1>8 DEF SaveFileMeta
  <2>2. Undisturbed(u)
    BY <2>1 DEF OwnerInv, Owns
  <2>3. w = u /\ cleaner # "orphan"
    BY <2>1, <2>2 DEF Undisturbed, InProgress
  <2>4. \A v \in Uploads : InProgress(v)' => InProgress(v)
    BY <1>2, <2>1 DEF InProgress
  <2> QED
    BY <1>3, <1>4, <2>1, <2>3, <2>4
<1>9. ASSUME removeUpload(w) PROVE Undisturbed(u)'
  <2>1. /\ path = u /\ UNCHANGED <<row, exposed>> /\ Upload(w, "failed")
    BY <1>1, <1>9 DEF removeUpload, Remove
  <2>2. /\ \A v \in Uploads : InProgress(v)' => InProgress(v)
        /\ up'[u] = "ok" => up[u] = "ok"
    BY <1>2, <2>1 DEF InProgress
  <2> QED
    BY <1>3, <1>4, <2>1, <2>2
<1> QED
  BY <1>5, <1>6, <1>7, <1>8, <1>9 DEF OpenFile

\* So do the downloads.
LEMMA DownloadOwner ==
  ASSUME TypeInv, OwnerInv, NEW d \in Downloads,
         GetFileMeta(d) \/ openFile(d) \/ sendEnds(d) \/ removeDownloaded(d)
           \/ DeleteFileMeta(d),
         NEW u \in Uploads, path' = u, u \notin exposed'
  PROVE  Undisturbed(u)'
<1>1. /\ TypeOK /\ DownInv /\ None \notin Uploads
      /\ UNCHANGED <<aged, up, cleaner, exposed>> /\ delivered \subseteq delivered'
      /\ path' \in {None, path} /\ row' \in {None, row}
  BY NoneAssumption DEF TypeInv, GetFileMeta, openFile, sendEnds, removeDownloaded,
     DeleteFileMeta, Remove, disk
<1>2. path = u /\ u \notin exposed
  BY <1>1
<1>3. Undisturbed(u)
  BY <1>2 DEF OwnerInv, Owns
<1>4. ASSUME NEW p, NEW m, NEW f, Becomes(d, p, m, f),
             p # "idle" => m = u /\ f \in {None, u}
      PROVE  Undisturbed(u)'
  <2>1. \A e \in Downloads : Serving(e)' => down'[e].meta = u /\ down'[e].fd \in {None, u}
    BY <1>3, <1>4 DEF Becomes, Undisturbed, Serving
  <2>2. \A v \in Uploads : InProgress(v)' <=> InProgress(v)
    BY <1>1 DEF InProgress
  <2> QED
    BY <1>1, <1>3, <2>1, <2>2 DEF Undisturbed
<1>5. down[d].pc # "idle" => down[d].meta = u /\ down[d].fd \in {None, u}
  BY <1>3 DEF Undisturbed, Serving
<1>6. CASE GetFileMeta(d)
  <2>1. row = u /\ down[d].fd = None
    BY <1>1, <1>3, <1>6 DEF GetFileMeta, Undisturbed, DownInv
  <2> QED
    BY <1>1, <1>4, <1>6, <2>1, DownMoves
<1>7. CASE openFile(d)
  <2>1. down[d].meta = u
    BY <1>5, <1>7 DEF openFile
  <2> QED
    BY <1>1, <1>2, <1>4, <1>7, <2>1, DownMoves
<1>8. CASE sendEnds(d)
  <2>1. down[d].meta = u /\ down[d].fd \in {None, u}
    BY <1>5, <1>8 DEF sendEnds
  <2> QED
    BY <1>1, <1>4, <1>8, <2>1, DownMoves
<1>9. CASE removeDownloaded(d)
  <2>1. down[d].meta = u /\ down[d].fd \in {None, u}
    BY <1>5, <1>9 DEF removeDownloaded
  <2> QED
    BY <1>1, <1>4, <1>9, <2>1, DownMoves
<1>10. CASE DeleteFileMeta(d)
  BY <1>1, <1>4, <1>10, DownMoves
<1> QED
  BY <1>6, <1>7, <1>8, <1>9, <1>10

\* So does the cleanup, and a crash.
LEMMA CleanerOwner ==
  ASSUME TypeInv, OwnerInv, UploadedIsKept,
         expire \/ Cleaner \/ cleanFails \/ Crash \/ UNCHANGED vars,
         NEW u \in Uploads, path' = u, u \notin exposed'
  PROVE  Undisturbed(u)'
<1>1. /\ None \notin Uploads /\ path' \in {None, path} /\ row' \in {None, row}
      /\ aged \subseteq aged' /\ delivered' = delivered /\ exposed \subseteq exposed'
  BY NoneAssumption DEF expire, Cleaner, ListExpiredFileIDs, removeExpired, deleteExpiredMeta,
     readDir, CheckOrphan, removeOrphan, cleanFails, Crash, disk, vars, Remove
<1>2. path = u /\ u \notin exposed
  BY <1>1
<1>3. Undisturbed(u)
  BY <1>2 DEF OwnerInv, Owns
<1>4. CASE Crash
  <2>1. /\ \A v \in Uploads : ~InProgress(v)'
        /\ \A d \in Downloads : ~Serving(d)'
        /\ cleaner' = "idle"
    BY <1>4 DEF Crash, InProgress, Serving, Idle
  <2> QED
    BY <1>1, <1>3, <2>1 DEF Undisturbed
<1>5. ASSUME up' = up, down' = down,
             cleaner' \in {"remove", "forget"} => u \in aged',
             cleaner' = "orphan" =>
               ~InProgress(u) /\ (up[u] = "ok" => u \in delivered \/ u \in aged)
      PROVE  Undisturbed(u)'
  <2>1. /\ \A v \in Uploads : InProgress(v)' <=> InProgress(v)
        /\ \A d \in Downloads : Serving(d)' <=> Serving(d)
    BY <1>5 DEF InProgress, Serving
  <2> QED
    BY <1>1, <1>3, <1>5, <2>1 DEF Undisturbed
<1>6. CASE expire \/ UNCHANGED vars
  <2>1. up' = up /\ down' = down /\ cleaner' = cleaner
    BY <1>6 DEF expire, vars
  <2> QED
    BY <1>1, <1>3, <1>5, <2>1 DEF Undisturbed
<1>7. CASE ListExpiredFileIDs
  <2>1. up' = up /\ down' = down /\ cleaner' # "orphan" /\ cleaner' # "forget"
        /\ (cleaner' = "remove" => row # None /\ row \in aged)
    BY <1>7 DEF ListExpiredFileIDs, Clean
  <2>2. row \in {None, u}
    BY <1>3 DEF Undisturbed
  <2> QED
    BY <1>1, <1>5, <2>1, <2>2
<1>8. CASE removeExpired
  <2>1. up' = up /\ down' = down /\ cleaner = "remove" /\ cleaner' = "forget"
    BY <1>8 DEF removeExpired, Clean
  <2> QED
    BY <1>1, <1>3, <1>5, <2>1 DEF Undisturbed
<1>9. CASE CheckOrphan
  <2>1. /\ up' = up /\ down' = down /\ cleaner' \in {"orphan", "idle"}
        /\ cleaner' = "orphan" => row = None
        /\ row = None /\ InProgress(u) => u \in exposed'
    BY <1>1, <1>2, <1>9 DEF CheckOrphan, Clean
  <2>2. row = None /\ up[u] = "ok" => u \in delivered \/ u \in aged
    BY <1>1, <1>2 DEF UploadedIsKept
  <2> QED
    BY <1>5, <2>1, <2>2
<1>10. CASE deleteExpiredMeta \/ readDir \/ removeOrphan \/ cleanFails
  <2>1. /\ up' = up /\ down' = down
        /\ cleaner' \notin {"remove", "forget", "orphan"}
    BY <1>10 DEF deleteExpiredMeta, readDir, removeOrphan, cleanFails, Clean
  <2> QED
    BY <1>5, <2>1
<1> QED
  BY <1>4, <1>6, <1>7, <1>8, <1>9, <1>10 DEF Cleaner

\* Nobody comes in the way of the file behind the path.
LEMMA NextOwnerInv ==
  TypeInv /\ OwnerInv /\ UploadedIsKept /\ [Next]_vars => OwnerInv'
<1> SUFFICES ASSUME TypeInv, OwnerInv, UploadedIsKept, [Next]_vars,
                    NEW u \in Uploads, path' = u, u \notin exposed'
             PROVE  Undisturbed(u)'
  BY DEF OwnerInv, Owns
<1> QED
  BY UploadOwner, DownloadOwner, CleanerOwner DEF Next

\* How the handlers of uploads go on: only from where they are, and for one
\* upload at a time.  An upload that was answered stays answered.
LEMMA UploadSteps ==
  ASSUME TypeInv, [Next]_vars, NEW u \in Uploads
  PROVE  /\ up[u] = "ok" => up'[u] = "ok" /\ length'[u] = length[u]
         /\ up'[u] = "ok" => up[u] = "ok" \/ (SaveFileMeta(u) /\ row = None /\ row' = u)
         /\ up'[u] = "save" => \/ up[u] = "save" /\ length'[u] = length[u]
                               \/ up[u] = "copy" /\ length'[u] = Size[u]
         /\ up'[u] = "copy" => \/ up[u] = "copy"
                               \/ OpenFile(u) /\ path' = u
         /\ SaveFileMeta(u) => up[u] = "save" /\ length'[u] = length[u]
<1>1. /\ up \in [Uploads -> {"new", "copy", "save", "undo", "ok", "failed"}]
      /\ length \in [Uploads -> 0..(MaxFileSize + 1)]
  BY DEF TypeInv, TypeOK
<1>2. ASSUME NEW w \in Uploads, NEW pc, Upload(w, pc)
      PROVE  up'[w] = pc /\ \A v \in Uploads \ {w} : up'[v] = up[v]
  BY <1>1, <1>2 DEF Upload
<1>3. ASSUME NEW w \in Uploads, OpenFile(w)
      PROVE  /\ up[w] = "new" /\ length' = length /\ \A v \in Uploads \ {w} : up'[v] = up[v]
             /\ up'[w] = "failed" \/ (up'[w] = "copy" /\ path' = w)
  BY <1>2, <1>3 DEF OpenFile
<1>4. ASSUME NEW w \in Uploads, receiveBody(w)
      PROVE  /\ up[w] = "copy" /\ \A v \in Uploads \ {w} : up'[v] = up[v]
             /\ \A v \in Uploads \ {w} : length'[v] = length[v]
             /\ up'[w] = "undo" \/ (up'[w] = "save" /\ length'[w] = Size[w])
  <2>1. PICK n \in 0..(MaxFileSize + 1) : Received(w, n)
    BY <1>4 DEF receiveBody
  <2>2. length'[w] = n /\ \A v \in Uploads \ {w} : length'[v] = length[v]
    BY <1>1, <2>1 DEF Received
  <2> QED
    BY <1>2, <2>1, <2>2 DEF Received
<1>5. ASSUME NEW w \in Uploads, SaveFileMeta(w)
      PROVE  /\ up[w] = "save" /\ length' = length /\ \A v \in Uploads \ {w} : up'[v] = up[v]
             /\ up'[w] = "undo" \/ (up'[w] = "ok" /\ row = None /\ row' = w)
  BY <1>2, <1>5 DEF SaveFileMeta
<1>6. ASSUME NEW w \in Uploads, removeUpload(w)
      PROVE  /\ up[w] = "undo" /\ length' = length /\ \A v \in Uploads \ {w} : up'[v] = up[v]
             /\ up'[w] = "failed"
  BY <1>2, <1>6 DEF removeUpload
<1>7. ASSUME NEW d \in Downloads,
             GetFileMeta(d) \/ openFile(d) \/ sendEnds(d) \/ removeDownloaded(d)
               \/ DeleteFileMeta(d)
      PROVE  up' = up /\ length' = length
  BY <1>7 DEF GetFileMeta, openFile, sendEnds, removeDownloaded, DeleteFileMeta, disk
<1>8. ASSUME expire \/ Cleaner \/ cleanFails \/ UNCHANGED vars
      PROVE  up' = up /\ length' = length
  BY <1>8 DEF expire, Cleaner, ListExpiredFileIDs, removeExpired, deleteExpiredMeta, readDir,
     CheckOrphan, removeOrphan, cleanFails, disk, vars
<1>9. ASSUME Crash, NEW v \in Uploads
      PROVE  length' = length /\ (up'[v] = up[v] \/ (up'[v] = "failed" /\ up[v] # "ok"))
  <2>1. up'[v] = IF InProgress(v) THEN "failed" ELSE up[v]
    BY <1>9 DEF Crash
  <2> QED
    BY <1>9, <2>1 DEF Crash, disk, InProgress
<1>10. SaveFileMeta(u) => up[u] = "save" /\ length'[u] = length[u]
  BY <1>5
<1>11. CASE up' = up /\ length' = length
  BY <1>10, <1>11
<1>12. CASE Crash
  BY <1>9, <1>10, <1>12
<1>13. ASSUME NEW w \in Uploads, OpenFile(w) \/ receiveBody(w) \/ SaveFileMeta(w) \/ removeUpload(w)
       PROVE  /\ up[u] = "ok" => up'[u] = "ok" /\ length'[u] = length[u]
              /\ up'[u] = "ok" => up[u] = "ok" \/ (SaveFileMeta(u) /\ row = None /\ row' = u)
              /\ up'[u] = "save" => \/ up[u] = "save" /\ length'[u] = length[u]
                                    \/ up[u] = "copy" /\ length'[u] = Size[u]
              /\ up'[u] = "copy" => \/ up[u] = "copy"
                                    \/ OpenFile(u) /\ path' = u
  <2>1. CASE w = u
    BY <1>3, <1>4, <1>5, <1>6, <1>13, <2>1
  <2>2. CASE w # u
    <3>1. up'[u] = up[u] /\ length'[u] = length[u]
      BY <1>3, <1>4, <1>5, <1>6, <1>13, <2>2
    <3> QED
      BY <3>1
  <2> QED
    BY <2>1, <2>2
<1> QED
  BY <1>7, <1>8, <1>10, <1>11, <1>12, <1>13 DEF Next

\* Who takes the entry or the row away from the file behind the path has
\* delivered it, finds it expired, or met it after its upload ended.
LEMMA Removers ==
  ASSUME TypeInv, OwnerInv, SavedInv, [Next]_vars, NEW u \in Uploads,
         path = u, u \notin exposed
  PROVE  /\ up[u] \in {"copy", "save"} => path' = u
         /\ up[u] = "ok" => path' = u \/ u \in delivered \/ u \in aged
         /\ row = u => row' = u \/ u \in delivered \/ u \in aged
<1>1. Undisturbed(u) /\ DownInv /\ u # None
  BY NoneAssumption DEF OwnerInv, Owns, TypeInv
<1>2. u \in aged => up[u] = "ok"
  BY DEF SavedInv
<1>3. ASSUME NEW d \in Downloads, down[d].pc \in {"remove", "forget"}
      PROVE  u \in delivered /\ up[u] = "ok"
  <2>1. Serving(d) /\ down[d].meta = u /\ down[d].fd \in {None, u}
    BY <1>1, <1>3 DEF Serving, Undisturbed
  <2>2. down[d].fd \in Uploads /\ down[d].fd \in delivered
    BY <1>1, <1>3 DEF DownInv
  <2> QED
    BY <2>1, <2>2, NoneAssumption DEF SavedInv
<1>4. ASSUME NEW w \in Uploads, OpenFile(w) \/ receiveBody(w) \/ SaveFileMeta(w)
      PROVE  path' = u /\ (row = u => row' = u)
  BY <1>1, <1>4 DEF OpenFile, receiveBody, Received, SaveFileMeta
<1>5. ASSUME NEW w \in Uploads, removeUpload(w)
      PROVE  up[u] = "undo" /\ row' = row
  BY <1>1, <1>5 DEF removeUpload, Undisturbed, InProgress
<1>6. ASSUME NEW d \in Downloads, GetFileMeta(d) \/ openFile(d) \/ sendEnds(d)
      PROVE  path' = u /\ row' = row
  BY <1>6 DEF GetFileMeta, openFile, sendEnds, disk
<1>7. ASSUME NEW d \in Downloads, removeDownloaded(d) \/ DeleteFileMeta(d)
      PROVE  u \in delivered /\ up[u] = "ok"
  BY <1>3, <1>7 DEF removeDownloaded, DeleteFileMeta
<1>8. ASSUME removeExpired \/ deleteExpiredMeta PROVE u \in aged /\ up[u] = "ok"
  BY <1>1, <1>2, <1>8 DEF removeExpired, deleteExpiredMeta, Clean, Undisturbed
<1>9. ASSUME removeOrphan
      PROVE  /\ ~InProgress(u) /\ (up[u] = "ok" => u \in delivered \/ u \in aged)
             /\ row' = row
  BY <1>1, <1>9 DEF removeOrphan, Clean, Undisturbed
<1>10. ASSUME expire \/ ListExpiredFileIDs \/ readDir \/ CheckOrphan \/ cleanFails \/ Crash
                \/ UNCHANGED vars
       PROVE  path' = u /\ row' = row
  BY <1>10 DEF expire, ListExpiredFileIDs, readDir, CheckOrphan, cleanFails, Crash, disk, vars
<1> QED
  BY <1>4, <1>5, <1>6, <1>7, <1>8, <1>9, <1>10 DEF Next, Cleaner, InProgress

\* A file that is being received stays behind the path, and one that was
\* answered for stays until it is delivered or expires.
LEMMA NextKept ==
  TypeInv /\ OwnerInv /\ ReceivedInv /\ SavedInv /\ UploadedIsKept /\ [Next]_vars
    => ReceivedInv' /\ UploadedIsKept'
<1> SUFFICES ASSUME TypeInv, OwnerInv, ReceivedInv, SavedInv, UploadedIsKept, [Next]_vars
             PROVE  ReceivedInv' /\ UploadedIsKept'
  OBVIOUS
<1>1. exposed \subseteq exposed' /\ aged \subseteq aged' /\ delivered \subseteq delivered'
  BY PathSteps
<1>2. ASSUME NEW u \in Uploads, up'[u] \in {"copy", "save"}, u \notin exposed' PROVE path' = u
  <2>1. CASE up[u] \in {"copy", "save"}
    BY <1>1, <1>2, <2>1, Removers DEF ReceivedInv
  <2>2. CASE up[u] \notin {"copy", "save"}
    BY <1>2, <2>2, UploadSteps
  <2> QED
    BY <2>1, <2>2
<1>3. ASSUME NEW u \in Uploads, up'[u] = "ok", u \notin exposed'
      PROVE  (path' = u /\ row' = u) \/ u \in delivered' \/ u \in aged'
  <2>1. CASE up[u] = "ok"
    <3>1. CASE path = u /\ row = u
      BY <1>1, <1>3, <2>1, <3>1, Removers
    <3>2. CASE u \in delivered \/ u \in aged
      BY <1>1, <3>2
    <3> QED
      BY <1>1, <1>3, <2>1, <3>1, <3>2 DEF UploadedIsKept
  <2>2. CASE up[u] # "ok"
    <3>1. SaveFileMeta(u) /\ row' = u /\ up[u] = "save"
      BY <1>3, <2>2, UploadSteps
    <3>2. path = u /\ path' = path
      BY <1>1, <1>3, <3>1 DEF ReceivedInv, SaveFileMeta
    <3> QED
      BY <3>1, <3>2
  <2> QED
    BY <2>1, <2>2
<1> QED
  BY <1>2, <1>3 DEF ReceivedInv, UploadedIsKept

\* Rows, expired rows and downloads are about uploads that were saved.
LEMMA NextSaved == TypeInv /\ SizeInv /\ SavedInv /\ [Next]_vars => SizeInv' /\ SavedInv'
<1> SUFFICES ASSUME TypeInv, SizeInv, SavedInv, [Next]_vars PROVE SizeInv' /\ SavedInv'
  OBVIOUS
<1>1. TypeOK /\ TypeOK' /\ DownInv /\ DownInv' /\ None \notin Uploads
  BY NextTypeInv, NoneAssumption DEF TypeInv
<1>2. /\ row \in Uploads \cup {None} /\ row' \in Uploads \cup {None}
      /\ aged \subseteq Uploads
      /\ up' \in [Uploads -> {"new", "copy", "save", "undo", "ok", "failed"}]
  BY <1>1 DEF TypeOK, File
<1>3. \A u \in Uploads : up[u] = "ok" => up'[u] = "ok"
  BY UploadSteps
<1>4. ASSUME NEW u \in Uploads, up'[u] \in {"save", "ok"} PROVE length'[u] = Size[u]
  BY <1>4, UploadSteps DEF SizeInv
<1>5. row' \in {None, row} \/ \E u \in Uploads : row' = u /\ up'[u] = "ok"
  <2>1. ASSUME NEW u \in Uploads, SaveFileMeta(u)
        PROVE  row' = row \/ (row' = u /\ up'[u] = "ok")
    BY <1>1, <2>1 DEF SaveFileMeta, Upload, TypeOK
  <2> QED
    BY <2>1 DEF Next, OpenFile, receiveBody, Received, removeUpload, GetFileMeta, openFile,
       sendEnds, removeDownloaded, DeleteFileMeta, expire, Cleaner, ListExpiredFileIDs,
       removeExpired, deleteExpiredMeta, readDir, CheckOrphan, removeOrphan, cleanFails, Crash,
       disk, vars
<1>6. aged' = aged \/ (row # None /\ aged' = aged \cup {row})
  BY DEF Next, OpenFile, receiveBody, Received, SaveFileMeta, removeUpload, GetFileMeta,
     openFile, sendEnds, removeDownloaded, DeleteFileMeta, expire, Cleaner, ListExpiredFileIDs,
     removeExpired, deleteExpiredMeta, readDir, CheckOrphan, removeOrphan, cleanFails, Crash,
     disk, vars
<1>7. ASSUME NEW d \in Downloads, down'[d].pc # "idle" PROVE up'[down'[d].meta] = "ok"
  <2>1. ASSUME NEW e \in Downloads,
               openFile(e) \/ sendEnds(e) \/ removeDownloaded(e) \/ DeleteFileMeta(e)
        PROVE  down'[d].meta = down[d].meta /\ down[d].pc # "idle"
    <3>1. CASE d = e
      BY <1>1, <1>7, <2>1, <3>1, DownMoves DEF Becomes, openFile, sendEnds, removeDownloaded
    <3>2. CASE d # e
      <4>1. down'[d] = down[d]
        BY <1>1, <2>1, <3>2, DownMoves DEF Becomes
      <4> QED
        BY <1>7, <4>1
    <3> QED
      BY <3>1, <3>2
  <2>2. ASSUME NEW e \in Downloads, GetFileMeta(e)
        PROVE  \/ down'[d].meta = row /\ row # None
               \/ down'[d].meta = down[d].meta /\ down[d].pc # "idle"
    <3>1. Becomes(e, "open", row, down[e].fd) /\ row # None
      BY <1>1, <2>2, DownMoves DEF GetFileMeta
    <3> QED
      BY <1>7, <3>1 DEF Becomes
  <2>3. ASSUME Crash PROVE FALSE
    BY <1>7, <2>3 DEF Crash, Idle
  <2>4. ASSUME down' = down PROVE down'[d].meta = down[d].meta /\ down[d].pc # "idle"
    BY <1>7, <2>4
  <2>5. ASSUME \/ \E u \in Uploads : OpenFile(u) \/ receiveBody(u) \/ SaveFileMeta(u)
                                       \/ removeUpload(u)
               \/ expire \/ Cleaner \/ cleanFails \/ UNCHANGED vars
        PROVE  down' = down
    BY <2>5 DEF OpenFile, receiveBody, Received, SaveFileMeta, removeUpload, expire, Cleaner,
       ListExpiredFileIDs, removeExpired, deleteExpiredMeta, readDir, CheckOrphan, removeOrphan,
       cleanFails, vars
  <2>6. \/ down'[d].meta = row /\ row # None
        \/ down'[d].meta = down[d].meta /\ down[d].pc # "idle"
    BY <2>1, <2>2, <2>3, <2>4, <2>5 DEF Next
  <2>7. down'[d].meta \in Uploads
    BY <1>1, <1>7 DEF DownInv
  <2>8. up[down'[d].meta] = "ok"
    BY <2>6 DEF SavedInv, Serving
  <2> QED
    BY <1>3, <2>7, <2>8
<1>8. row' # None => up'[row'] = "ok"
  BY <1>2, <1>3, <1>5 DEF SavedInv
<1>9. \A u \in aged' : up'[u] = "ok"
  BY <1>2, <1>3, <1>6 DEF SavedInv
<1> QED
  BY <1>4, <1>7, <1>8, <1>9 DEF SizeInv, SavedInv, Serving

\* A download opens the file its row describes or is misled: any other file
\* behind the path was created while the row was in use, and the row's own file,
\* unless it is exposed, was kept until it was delivered or expired.
LEMMA NextOpenInv ==
  TypeInv /\ OwnerInv /\ SavedInv /\ UploadedIsKept /\ OpenInv /\ [Next]_vars => OpenInv'
<1> SUFFICES ASSUME TypeInv, OwnerInv, SavedInv, UploadedIsKept, OpenInv, [Next]_vars,
                    NEW d \in Downloads, down'[d].fd \notin {None, down'[d].meta}
             PROVE  Misled(d)'
  BY DEF OpenInv
<1>1. TypeOK /\ DownInv /\ path \in File
  BY DEF TypeInv, TypeOK
<1>11. exposed \subseteq exposed' /\ aged \subseteq aged' /\ delivered \subseteq delivered'
  BY PathSteps
<1>2. ASSUME down'[d].fd = down[d].fd, down'[d].meta = down[d].meta
      PROVE  Misled(d)'
  BY <1>11, <1>2 DEF OpenInv, Misled
<1>3. ASSUME NEW e \in Downloads, NEW p, Becomes(e, p, down[e].meta, down[e].fd)
      PROVE  down'[d].fd = down[d].fd /\ down'[d].meta = down[d].meta
  BY <1>3 DEF Becomes
<1>4. ASSUME NEW e \in Downloads, Becomes(e, "idle", None, None)
      PROVE  down'[d].fd = down[d].fd /\ down'[d].meta = down[d].meta
  BY <1>4 DEF Becomes
<1>5. ASSUME NEW e \in Downloads, GetFileMeta(e)
      PROVE  down'[d].fd = down[d].fd /\ down'[d].meta = down[d].meta
  <2>1. Becomes(e, "open", row, down[e].fd) /\ down[e].fd = None
    BY <1>1, <1>5, DownMoves DEF GetFileMeta, DownInv
  <2> QED
    BY <2>1 DEF Becomes
<1>6. ASSUME NEW e \in Downloads, openFile(e), path # None,
             Becomes(e, "send", down[e].meta, path)
      PROVE  Misled(d)'
  <2>1. CASE d # e
    <3>1. down'[d] = down[d]
      BY <1>6, <2>1 DEF Becomes
    <3> QED
      BY <1>2, <3>1
  <2>2. CASE d = e
    <3>1. down'[d].fd = path /\ down'[d].meta = down[d].meta /\ Serving(d) /\ path \in Uploads
      BY <1>1, <1>6, <2>2 DEF Becomes, openFile, Serving, File
    <3>2. path \notin exposed => down[d].meta = path
      BY <3>1 DEF OwnerInv, Owns, Undisturbed
    <3>3. down[d].meta \in Uploads /\ up[down[d].meta] = "ok"
      BY <1>1, <3>1 DEF DownInv, SavedInv, Serving
    <3>4. down[d].meta \in delivered \cup aged \cup exposed
      BY <3>1, <3>3 DEF UploadedIsKept
    <3> QED
      BY <1>11, <3>1, <3>2, <3>4 DEF Misled
  <2> QED
    BY <2>1, <2>2
<1>7. ASSUME Crash PROVE FALSE
  BY <1>7 DEF Crash, Idle
<1>8. ASSUME \/ \E u \in Uploads : OpenFile(u) \/ receiveBody(u) \/ SaveFileMeta(u)
                                     \/ removeUpload(u)
             \/ expire \/ Cleaner \/ cleanFails \/ UNCHANGED vars
      PROVE  down' = down
  BY <1>8 DEF OpenFile, receiveBody, Received, SaveFileMeta, removeUpload, expire, Cleaner,
     ListExpiredFileIDs, removeExpired, deleteExpiredMeta, readDir, CheckOrphan, removeOrphan,
     cleanFails, vars
<1>9. ASSUME NEW e \in Downloads,
             openFile(e) \/ sendEnds(e) \/ removeDownloaded(e) \/ DeleteFileMeta(e)
      PROVE  Misled(d)'
  BY <1>1, <1>2, <1>3, <1>4, <1>6, <1>9, DownMoves
<1> QED
  BY <1>2, <1>5, <1>7, <1>8, <1>9 DEF Next

\* Every step keeps the invariant about files.
LEMMA NextFileInv == TypeInv /\ FileInv /\ [Next]_vars => FileInv'
BY NextOwnerInv, NextKept, NextSaved, NextOpenInv DEF FileInv

\* At the start there is no file.
LEMMA InitFileInv == Init => FileInv
BY NoneAssumption DEF Init, Idle, FileInv, OwnerInv, Owns, Undisturbed, ReceivedInv, SizeInv,
   SavedInv, OpenInv, UploadedIsKept, Serving

\* A row describes a file that was received completely; and a download sends
\* another file than the one its row describes only if that one was delivered,
\* expired or exposed before, and then a file whose upload is exposed.
THEOREM DownloadsServeRow == Spec => []ServedAsDescribed
<1>1. TypeInv /\ FileInv => ServedAsDescribed
  BY NoneAssumption DEF TypeInv, TypeOK, File, FileInv, SizeInv, SavedInv, OpenInv,
     Misled, ServedAsDescribed
<1> QED
  BY InitTypeInv, NextTypeInv, InitFileInv, NextFileInv, <1>1, PTL DEF Spec

\* What upload_file answered for is on disk, row and file, until a download
\* has written it out to its end or FileTTL is over.
THEOREM UploadsKept == Spec => []UploadedIsKept
<1>1. FileInv => UploadedIsKept
  BY DEF FileInv
<1> QED
  BY InitTypeInv, NextTypeInv, InitFileInv, NextFileInv, <1>1, PTL DEF Spec
=============================================================================
