----------------------------- MODULE MCSailorLink -----------------------------
(* A small instance of SailorLink for TLC. *)
EXTENDS SailorLink, TLC

CONSTANTS a, b, x, hole, i1, i2, c1, c2

MCName == {a, b}
MCInode == {i1, i2}
MCByte == {x, hole}
TwoClients == {c1, c2}
OneClient == {c1}
MCUploadId == Client \X (1..MaxCalls)

TwoBytes == << x, x >>
OneByte == << x >>

MCUploadBegin == { Declared(req) : req \in { r \in Requests : r.op = "UPLOAD" } }
MCChunk == { << x >>, << hole >>, << x, hole >> }
MCOffset == 0..3
MCRequestPath == { Root, << a >>, << b >>, << b, a >> }

On(op, path) == [op |-> op, path |-> path]
Rename(path, to) == [op |-> "RENAME", path |-> path, to |-> to]
Upload(dir, name) == [op |-> "UPLOAD", dir |-> dir, name |-> name]

\* All operations, on names they compete for.
AllRequests ==
  { Upload(Root, a), On("DOWNLOAD", << a >>), On("DELETE", << b >>),
    Rename(<< a >>, << b >>), On("MKDIR", << b, a >>), On("RMDIR", << b >>),
    On("LIST", << b >>), On("LIST", Root) }

FewRequests ==
  { Upload(Root, a), On("DOWNLOAD", << a >>), On("DELETE", << a >>) }

\* One that must fail at its first packet, with the others.
SomeRequests ==
  { Upload(Root, a), Upload(Outside, a), On("DOWNLOAD", << a >>),
    On("MKDIR", << a >>) }

\* The user databases: one that names alice twice and then in a line without a
\* hash, bob with no more than a carriage return and carol with one after her
\* hash, and none at all.
Rows == << << "alice", Digest("old") >>, << "alice", Digest("new") >>,
           << "alice", NoHash >>, << "bob", LoneReturn >>,
           << "carol", Digest("new") >>, << "carol", LoneReturn >> >>
AliceOnly == { [format |-> "text", rows |-> Rows] }
AnyDatabase == { [format |-> f, rows |-> Rows] : f \in {"text", "sqlite", "missing"} }

GoodLogin == { << "alice", "new" >> }
GoodAndBad == { << "alice", "new" >>, << "alice", "old" >> }
AnyLogin == GoodAndBad \union { << "bob", "" >>, << "carol", "new" >> }

Permuted == Permutations({c1, c2}) \union Permutations(MCInode)
=============================================================================
