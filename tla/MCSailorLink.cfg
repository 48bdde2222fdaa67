SPECIFICATION LinkSpec
CONSTANTS
  a = a
  b = b
  x = x
  hole = hole
  i1 = i1
  i2 = i2
  c1 = c1
  c2 = c2
  Dir = Dir
  NoDigest = NoDigest
  Outside = Outside
  BadName = BadName
  Hole = hole
  MaxDepth = 2
  Name <- MCName
  Inode <- MCInode
  Byte <- MCByte
  UploadId <- MCUploadId
  Chunk <- MCChunk
  UploadBegin <- MCUploadBegin
  Offset <- MCOffset
  RequestPath <- MCRequestPath
  Requests <- AllRequests
  Client <- TwoClients
  LocalFile <- OneByte
  Logins <- GoodAndBad
  Databases <- AliceOnly
  MaxCalls = 3
  MaxConn = 1
  SockBuf = 1
  Faults = {"restart"}
  LinkFaults = {"client_crash", "server_crash", "file_changed", "file_shrank", "file_gone", "local_write"}
CHECK_DEADLOCK FALSE
SYMMETRY Permuted
INVARIANTS
  LinkTypeOK
  RepliesInSync
PROPERTIES
  OkUploadIsStored
  OkDownloadIsCurrent
  OkListIsCurrent
  StorageSpec
