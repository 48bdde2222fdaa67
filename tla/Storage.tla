------------------------------- MODULE Storage -------------------------------
(***************************************************************************)
(* The storage services of the server: UploadService, DeleteService,       *)
(* RenameService, DirectoryService and the read side of FileService and    *)
(* DownloadService, over one storage tree.  The services are called by one *)
(* thread (TcpServer::handleClient), so a call is one step.  What can be   *)
(* interleaved is the calls: an upload is a session of many calls, kept in *)
(* a map that belongs to the server and not to a connection, and between   *)
(* two calls of a session any other call can run, or the process can die.  *)
(*                                                                         *)
(* SHA-256 is modelled by the bytes it is the digest of.                   *)
(***************************************************************************)
EXTENDS FileTree

CONSTANTS
  UploadId,    \* the upload ids that clients draw
  Byte,        \* the bytes of files
  Hole,        \* what a file reads as where nobody wrote
  Chunk,       \* the chunks of UPLOAD_CHUNK packets
  UploadBegin, \* the payloads of UPLOAD_BEGIN packets
  Offset,      \* the offsets of UPLOAD_CHUNK packets
  NoDigest,    \* an empty expected_sha256
  RequestPath, \* the paths of requests
  Outside,     \* a request path that resolvePath refuses
  BadName,     \* a file name that is empty or contains a separator
  MaxDepth,    \* bound on the depth of the tree
  Faults       \* the failures the environment may inject

(***************************************************************************)
(*   "open"         open(2) of the upload target fails                     *)
(*   "write"        a write to the upload target fails (disk full)         *)
(*   "close"        the flush inside ofstream::close fails (disk full)     *)
(*   "digest_init"  EVP_DigestInit_ex fails                                *)
(*   "digest_final" EVP_DigestFinal_ex fails                               *)
(*   "restart"      the server process dies and is started again           *)
(* EVP_DigestUpdate on an initialised SHA-256 context has no failure.      *)
(***************************************************************************)
AllFaults == {"open", "write", "close", "digest_init", "digest_final",
              "restart"}

ASSUME StorageAssumption ==
  /\ Hole \in Byte
  /\ Chunk \subseteq Seq(Byte) /\ << >> \notin Chunk
  /\ UploadBegin \subseteq [ dir    : {Outside} \union Path,
                              name   : {BadName} \union Name,
                              size   : Nat,
                              digest : {NoDigest} \union Seq(Byte) ]
  /\ NoDigest \notin Seq(Byte)
  /\ Offset \subseteq Nat
  /\ RequestPath \subseteq Path
  /\ Outside \notin RequestPath
  /\ BadName \notin Name
  /\ Faults \subseteq AllFaults

VARIABLES
  tree,      \* the directories and files under the storage root
  data,      \* the bytes of each inode, as the kernel has them
  sessions,  \* UploadService::sessions_
  reply      \* the bool the last call returned

vars == << tree, data, sessions, reply >>

Session ==
  [ target   : Path,                        \* target_path
    inode    : Inode,                       \* what file_stream is open on
    expected : Nat,                         \* expected_size
    digest   : {NoDigest} \union Seq(Byte), \* expected_sha256
    received : Seq(Byte),                   \* md_ctx; its length is received_bytes
    flushed  : Nat,                         \* how much file_stream wrote out
    failed   : BOOLEAN,                     \* badbit of file_stream
    alone    : BOOLEAN ]                    \* history: see Disturbed

Returns(ok) == reply' = ok

\* A call that fails before it changed anything.
Refuse == Returns(FALSE) /\ UNCHANGED << tree, data, sessions >>

TypeOK ==
  /\ DOMAIN tree \subseteq Path
  /\ \A p \in DOMAIN tree : tree[p] \in Inode \union {Dir}
  /\ data \in [Inode -> Seq(Byte)]
  /\ DOMAIN sessions \subseteq UploadId
  /\ \A u \in DOMAIN sessions : sessions[u] \in Session
  /\ reply \in BOOLEAN

Init ==
  /\ tree = [p \in {Root} |-> Dir]
  /\ data = [i \in Inode |-> << >>]
  /\ sessions = [u \in {} |-> {}]
  /\ reply = TRUE

-----------------------------------------------------------------------------
(* Files and the streams open on them. *)

Used(t, s) == { t[p] : p \in DOMAIN t } \union { s[u].inode : u \in DOMAIN s }

\* The kernel frees a file once it has no name and nobody has it open.
Reclaim(d, t, s) == [i \in Inode |-> IF i \in Used(t, s) THEN d[i] ELSE << >>]

\* The file after bytes from+1 .. to of r were written at offset `from`.
WriteOut(file, r, from, to) ==
  IF from = to
  THEN file
  ELSE [n \in 1..(IF Len(file) > to THEN Len(file) ELSE to) |->
          CASE from < n /\ n <= to          -> r[n]
            [] n <= from /\ n > Len(file)   -> Hole
            [] OTHER                        -> file[n]]

DropSession(u) == [v \in DOMAIN sessions \ {u} |-> sessions[v]]

\* The sessions once inode i was opened for another stream.  The history field
\* `alone` says of a session that nobody else ever opened its file.
Disturbed(i) ==
  [v \in DOMAIN sessions |->
     [sessions[v] EXCEPT !.alone = @ /\ sessions[v].inode # i]]

OpenSession(u, target, i, begin) ==
  LET first == \A v \in DOMAIN sessions : sessions[v].inode # i
      opened == [ target |-> target, inode |-> i, expected |-> begin.size,
                  digest |-> begin.digest, received |-> << >>, flushed |-> 0,
                  failed |-> FALSE, alone |-> first ]
  IN  [v \in DOMAIN sessions \union {u} |->
         IF v = u THEN opened ELSE Disturbed(i)[v]]

-----------------------------------------------------------------------------
(* UploadService *)

\* beginUpload before it touches the disk.
BeginRefused(u, begin) ==
  /\ u \in DOMAIN sessions \/ begin.name = BadName \/ begin.dir = Outside
  /\ Refuse

\* The tree once beginUpload has tried to create the target directory.
WithTargetDirectory(dir) ==
  IF ~Exists(tree, dir) /\ CanCreateDirectories(tree, dir)
  THEN CreateDirectories(tree, dir)
  ELSE tree

\* A mutant of InodesToOpen: a directory opens like a file.
AnythingToOpen(t, target) ==
  { i \in Inode \union {Dir} :
      IF Exists(t, target) THEN i = t[target] ELSE i \notin Used(t, sessions) }

\* The inodes that opening target with trunc can give: the one it has already,
\* or any free one.
InodesToOpen(t, target) ==
  { i \in Inode :
      /\ CanOpen(t, target)
      /\ IF IsFile(t, target) THEN i = t[target] ELSE i \notin Used(t, sessions) }

BeginOnDisk(u, begin) ==
  /\ u \notin DOMAIN sessions /\ begin.name # BadName /\ begin.dir # Outside
  /\ Len(begin.dir) < MaxDepth
  /\ LET made   == WithTargetDirectory(begin.dir)
         target == Append(begin.dir, begin.name)
     IN \/ /\ InodesToOpen(made, target) = {} \/ "open" \in Faults
           /\ tree' = made
           /\ Returns(FALSE)
           /\ UNCHANGED << data, sessions >>
        \/ \E i \in InodesToOpen(made, target) :
             /\ tree' = PutFile(made, target, i)
             /\ data' = [data EXCEPT ![i] = << >>]
             /\ \/ /\ sessions' = OpenSession(u, target, i, begin)
                   /\ Returns(TRUE)
                \/ /\ "digest_init" \in Faults
                   /\ sessions' = Disturbed(i)
                   /\ Returns(FALSE)

BeginUpload(u, begin) == BeginRefused(u, begin) \/ BeginOnDisk(u, begin)

\* A mutant of MayWrite: the limit is checked without the new chunk.
MayWriteUntilFull(u, offset, chunk) ==
  /\ u \in DOMAIN sessions
  /\ offset = Len(sessions[u].received)
  /\ Len(sessions[u].received) <= sessions[u].expected
  /\ ~sessions[u].failed

MayWrite(u, offset, chunk) ==
  /\ u \in DOMAIN sessions
  /\ offset = Len(sessions[u].received)
  /\ Len(sessions[u].received) + Len(chunk) <= sessions[u].expected
  /\ ~sessions[u].failed

\* The stream keeps what it likes of the bytes it has in its buffer, so any
\* part of them may have reached the disk when the call returns.
WriteChunk(u, offset, chunk) ==
  \/ /\ ~MayWrite(u, offset, chunk)
     /\ Refuse
  \/ /\ MayWrite(u, offset, chunk)
     /\ LET s   == sessions[u]
            all == s.received \o chunk
        IN \E n \in s.flushed..Len(all) :
             /\ data' = [data EXCEPT ![s.inode] =
                           WriteOut(@, all, s.flushed, n)]
             /\ \/ /\ sessions' = [sessions EXCEPT ![u] =
                         [@ EXCEPT !.received = all, !.flushed = n]]
                   /\ Returns(TRUE)
                \/ /\ "write" \in Faults /\ n < Len(all)
                   /\ sessions' = [sessions EXCEPT ![u].failed = TRUE]
                   /\ Returns(FALSE)
     /\ UNCHANGED tree

\* file_stream.close(): what is still buffered goes out, or some of it.
Closed(s) ==
  LET reached == IF s.failed \/ "close" \in Faults
                 THEN s.flushed..Len(s.received)
                 ELSE {Len(s.received)}
  IN { [data EXCEPT ![s.inode] = WriteOut(@, s.received, s.flushed, n)] :
         n \in reached }

\* A mutant of SizeMatches: only an overrun is an error.
SizeFits(s) == Len(s.received) <= s.expected

SizeMatches(s) == Len(s.received) = s.expected

DigestMatches(s) == s.digest \in {NoDigest, s.received}

\* A mutant of Abort: the partial file is left behind.
AbortKeepsFile(u, written) ==
  /\ sessions' = DropSession(u)
  /\ data' = Reclaim(written, tree, sessions')
  /\ Returns(FALSE)
  /\ UNCHANGED tree

\* abortUpload removes whatever now has the name of the session's target.
Abort(u, written) ==
  /\ tree' = IF CanRemove(tree, sessions[u].target)
             THEN RemoveEntry(tree, sessions[u].target)
             ELSE tree
  /\ sessions' = DropSession(u)
  /\ data' = Reclaim(written, tree', sessions')
  /\ Returns(FALSE)

Commit(u, written) ==
  /\ sessions' = DropSession(u)
  /\ data' = Reclaim(written, tree, sessions')
  /\ Returns(TRUE)
  /\ UNCHANGED tree

FinishUpload(u) ==
  \/ /\ u \notin DOMAIN sessions
     /\ Refuse
  \/ /\ u \in DOMAIN sessions
     /\ \E written \in Closed(sessions[u]) :
          \/ /\ SizeMatches(sessions[u]) /\ DigestMatches(sessions[u])
             /\ Commit(u, written)
          \/ /\ \/ ~SizeMatches(sessions[u])
                \/ ~DigestMatches(sessions[u])
                \/ "digest_final" \in Faults
             /\ Abort(u, written)

-----------------------------------------------------------------------------
(* DeleteService, RenameService, DirectoryService *)

\* p is a path that resolvePath accepts and that is not the storage root.
Addressable(p) == p \notin {Root, Outside}

Unlink(p) ==
  /\ tree' = RemoveEntry(tree, p)
  /\ data' = Reclaim(data, tree', sessions)
  /\ UNCHANGED sessions

MayDelete(p) == Addressable(p) /\ CanRemove(tree, p)

DeletePath(p) ==
  \/ MayDelete(p) /\ Unlink(p) /\ Returns(TRUE)
  \/ ~MayDelete(p) /\ Refuse

\* A mutant of MayRename: an existing destination is left to rename(2).
MayReplace(src, dst) ==
  /\ Addressable(src) /\ Addressable(dst)
  /\ Exists(tree, src)
  /\ IsDirectory(tree, Parent(dst))
  /\ ~Under(src, dst)

MayRename(src, dst) ==
  /\ Addressable(src) /\ Addressable(dst)
  /\ Exists(tree, src)
  /\ ~Exists(tree, dst)
  /\ IsDirectory(tree, Parent(dst))
  /\ ~Under(src, dst)

RenamePath(src, dst) ==
  \/ /\ MayRename(src, dst)
     /\ tree' = Move(tree, src, dst)
     /\ \A p \in DOMAIN tree' : Len(p) <= MaxDepth
     /\ Returns(TRUE)
     /\ UNCHANGED << data, sessions >>
  \/ ~MayRename(src, dst) /\ Refuse

MayCreateDirectory(p) ==
  Addressable(p) /\ ~Exists(tree, p) /\ CanCreateDirectories(tree, p)

CreateDirectory(p) ==
  \/ /\ MayCreateDirectory(p)
     /\ tree' = CreateDirectories(tree, p)
     /\ Returns(TRUE)
     /\ UNCHANGED << data, sessions >>
  \/ ~MayCreateDirectory(p) /\ Refuse

MayRemoveDirectory(p) ==
  Addressable(p) /\ IsDirectory(tree, p) /\ CanRemove(tree, p)

RemoveDirectory(p) ==
  \/ MayRemoveDirectory(p) /\ Unlink(p) /\ Returns(TRUE)
  \/ ~MayRemoveDirectory(p) /\ Refuse

-----------------------------------------------------------------------------
\* The process dies: the map of sessions is lost with what their streams had
\* buffered, the files stay as the kernel has them.
Restart ==
  /\ "restart" \in Faults
  /\ sessions' = [u \in {} |-> {}]
  /\ data' = Reclaim(data, tree, sessions')
  /\ Returns(TRUE)
  /\ UNCHANGED tree

Requested == RequestPath \union {Outside}

UploadCall ==
  \E u \in UploadId :
    \/ \E begin \in UploadBegin : BeginUpload(u, begin)
    \/ \E offset \in Offset, chunk \in Chunk : WriteChunk(u, offset, chunk)
    \/ FinishUpload(u)

NamespaceCall ==
  \E p \in Requested :
    \/ DeletePath(p)
    \/ CreateDirectory(p)
    \/ RemoveDirectory(p)
    \/ \E q \in Requested : RenamePath(p, q)

Next == UploadCall \/ NamespaceCall \/ Restart

Spec == Init /\ [][Next]_vars

-----------------------------------------------------------------------------
(* What the services promise. *)

\* Whatever calls were made, in whatever order, the storage is a tree: every
\* entry hangs below an existing directory and no file has two names.  The
\* calls that could break it are rename, which moves a whole subtree, the two
\* removals and the abort of an upload, which must spare non-empty
\* directories, and beginUpload, which creates directories on its way.
StorageIsATree == IsTree(tree)

\* While a session is the only one ever opened on its file and no write has
\* failed, the file holds the first bytes of what was received and nothing
\* else: received_bytes, the digest and the offset of the stream agree, so
\* what is verified is what is stored.  It relates the session map to the disk
\* over any number of chunks, buffered in any way.
FileFollowsDigest ==
  \A u \in DOMAIN sessions :
    LET s == sessions[u] IN
    s.alone /\ ~s.failed =>
      /\ Len(s.received) <= s.expected
      /\ s.flushed <= Len(s.received)
      /\ data[s.inode] = SubSeq(s.received, 1, s.flushed)

\* An UPLOAD_END that is answered with success leaves under the target's name
\* a file of the declared size with the declared digest, if the target was not
\* renamed, deleted or opened by another upload in the meantime.
VerifiedUploadIsStored ==
  [][ \A u \in DOMAIN sessions :
        LET s == sessions[u] IN
        /\ reply' /\ FinishUpload(u)
        /\ s.alone /\ Exists(tree, s.target) /\ tree[s.target] = s.inode
        => /\ IsFile(tree', s.target)
           /\ LET stored == data'[tree'[s.target]] IN
              Len(stored) = s.expected /\ s.digest \in {NoDigest, stored}
    ]_vars

\* A file loses its name only by a delete of that very path or by the failed
\* UPLOAD_END of an upload to that very path.  No rename replaces a file, no
\* rmdir or mkdir removes one, no restart loses one.
FilesOutliveOtherCalls ==
  [][ \A p \in DOMAIN tree :
        IsFile(tree, p) /\ (\A q \in DOMAIN tree' : tree'[q] # tree[p])
        => \/ reply' /\ DeletePath(p)
           \/ \E u \in DOMAIN sessions :
                ~reply' /\ sessions[u].target = p /\ FinishUpload(u)
    ]_vars

\* A rejected UPLOAD_END leaves no trace of the upload: if the file is still
\* under the target's name, afterwards it has no name at all.
RejectedUploadIsGone ==
  [][ \A u \in DOMAIN sessions :
        LET s == sessions[u] IN
        /\ ~reply' /\ FinishUpload(u)
        /\ Exists(tree, s.target) /\ tree[s.target] = s.inode
        => \A p \in DOMAIN tree' : tree'[p] # s.inode
    ]_vars
=============================================================================
