------------------------------ MODULE MCStorage ------------------------------
(* A small instance of Storage for TLC. *)
EXTENDS Storage, TLC

CONSTANTS a, b, x, hole, i1, i2, u1, u2

MCName == {a, b}
MCInode == {i1, i2}
MCByte == {x, hole}
MCUploadId == {u1, u2}
MCChunk == { << x >> }

Begin(dir, name, size, digest) ==
  [dir |-> dir, name |-> name, size |-> size, digest |-> digest]

\* Uploads to two targets, one that must fail its checksum, and refused ones.
MCUploadBegin ==
  { Begin(Root, b, 2, << x, x >>), Begin(<< a >>, b, 2, NoDigest),
    Begin(Root, b, 1, << hole >>), Begin(Outside, b, 1, NoDigest),
    Begin(Root, BadName, 1, NoDigest) }

MCOffset == {0, 1}
MCRequestPath == { Root, << a >>, << b >>, << a, b >> }

Symmetry == Permutations(MCInode) \union Permutations(MCUploadId)
=============================================================================
