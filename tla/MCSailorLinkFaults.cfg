SPECIFICATION LinkSpec
CONSTANTS
  a = a
  b = b
  x = x
  hole = hole
  i1 = i1
  i2 = i2
  c1 = c1
  c2 = c2
  Dir = Dir
  NoDigest = NoDigest
  Outside = Outside
  BadName = BadName
  Hole = hole
  MaxDepth = 2
  Name <- MCName
  Inode <- MCInode
  Byte <- MCByte
  UploadId <- MCUploadId
  Chunk <- MCChunk
  UploadBegin <- MCUploadBegin
  Offset <- MCOffset
  RequestPath <- MCRequestPath
  Requests <- AllRequests
  Client <- OneClient
  LocalFile <- TwoBytes
  Logins <- AnyLogin
  Databases <- AnyDatabase
  MaxCalls = 4
  MaxConn = 2
  SockBuf = 2
  Faults = {"open", "write", "close", "digest_init", "digest_final", "restart"}
  LinkFaults = {"client_crash", "server_crash", "file_changed", "file_shrank", "file_grew", "file_gone", "no_destination", "local_write", "unreadable", "reconnect", "bad_address"}
CHECK_DEADLOCK FALSE
INVARIANTS
  BothEndsAgreeOnLogin
  NoPeerIsForgotten
PROPERTIES
  LoginIsInDatabase
