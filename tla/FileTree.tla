------------------------------ MODULE FileTree ------------------------------
(***************************************************************************)
(* The storage tree under FileService::root_, as the std::filesystem calls *)
(* of the services see it.                                                 *)
(*                                                                         *)
(* A path is the sequence of names below the storage root, which is what   *)
(* FileService::resolvePath makes of a request's string, so the root is    *)
(* the empty path.  A tree maps every existing path to Dir or to the inode *)
(* of a regular file.  The bytes of a file belong to the inode and not to  *)
(* the path: an open std::ofstream goes on writing to its inode after the  *)
(* path was renamed or deleted.                                            *)
(***************************************************************************)
EXTENDS Naturals, Sequences

CONSTANTS
  Name,   \* the names a directory entry can have
  Inode,  \* the regular files the disk has room for
  Dir     \* what a tree maps a directory to

ASSUME DirIsNoInode == Dir \notin Inode

Root == << >>

\* What resolvePath makes of a string that it takes for one below the root.  (Its
\* comparison of prefixes also takes a sibling of the root whose name begins with
\* the root's; what lies there is no part of a tree.)
Path == Seq(Name)

Parent(p) == SubSeq(p, 1, Len(p) - 1)

\* p lies strictly below d.
Under(d, p) == Len(d) < Len(p) /\ SubSeq(p, 1, Len(d)) = d

\* p and every directory on the way to it.
PathAndAncestors(p) == { SubSeq(p, 1, n) : n \in 0..Len(p) }

Exists(t, p) == p \in DOMAIN t

IsDirectory(t, p) == Exists(t, p) /\ t[p] = Dir

IsFile(t, p) == Exists(t, p) /\ t[p] # Dir

Children(t, d) == { p \in DOMAIN t : p # Root /\ Parent(p) = d }

\* A mutant of CanRemove: unlink without looking for entries.
CanUnlink(t, p) == p # Root /\ Exists(t, p)

\* std::filesystem::remove: a file, or a directory without entries.
CanRemove(t, p) == p # Root /\ Exists(t, p) /\ Children(t, p) = {}

RemoveEntry(t, p) == [q \in DOMAIN t \ {p} |-> t[q]]

\* std::filesystem::create_directories stops at an ancestor that is a file.
CanCreateDirectories(t, p) ==
  \A q \in PathAndAncestors(p) : Exists(t, q) => IsDirectory(t, q)

CreateDirectories(t, p) ==
  [q \in DOMAIN t \union PathAndAncestors(p) |->
     IF q \in DOMAIN t THEN t[q] ELSE Dir]

\* open(2) for writing: the parent is a directory, the target is not one.
CanOpen(t, p) == IsDirectory(t, Parent(p)) /\ ~IsDirectory(t, p)

PutFile(t, p, i) ==
  [q \in DOMAIN t \union {p} |-> IF q = p THEN i ELSE t[q]]

\* rename(2) of src to dst, with everything below src.
InSubtree(d, p) == p = d \/ Under(d, p)

Rebase(p, from, to) == to \o SubSeq(p, Len(from) + 1, Len(p))

Move(t, src, dst) ==
  LET moved == { p \in DOMAIN t : InSubtree(src, p) }
      stays == DOMAIN t \ moved
      lands == { Rebase(p, src, dst) : p \in moved }
  IN  [q \in stays \union lands |->
         IF q \in lands THEN t[Rebase(q, dst, src)] ELSE t[q]]

\* What a file system keeps: all that lies above an entry are directories, and
\* no regular file has two names.
Ancestors(p) == PathAndAncestors(p) \ {p}

IsTree(t) ==
  /\ IsDirectory(t, Root)
  /\ \A p \in DOMAIN t : \A q \in Ancestors(p) : IsDirectory(t, q)
  /\ \A p, q \in DOMAIN t : IsFile(t, p) /\ t[p] = t[q] => p = q
=============================================================================
