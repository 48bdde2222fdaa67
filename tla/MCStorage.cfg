SPECIFICATION Spec
CONSTANTS
  a = a
  b = b
  x = x
  hole = hole
  i1 = i1
  i2 = i2
  u1 = u1
  u2 = u2
  Dir = Dir
  NoDigest = NoDigest
  Outside = Outside
  BadName = BadName
  Hole = hole
  MaxDepth = 2
  Name <- MCName
  Inode <- MCInode
  Byte <- MCByte
  UploadId <- MCUploadId
  Chunk <- MCChunk
  UploadBegin <- MCUploadBegin
  Offset <- MCOffset
  RequestPath <- MCRequestPath
  Faults = {"open", "write", "digest_init", "digest_final", "restart"}
SYMMETRY Symmetry
INVARIANTS
  TypeOK
  StorageIsATree
  FileFollowsDigest
PROPERTIES
  VerifiedUploadIsStored
  FilesOutliveOtherCalls
  RejectedUploadIsGone
