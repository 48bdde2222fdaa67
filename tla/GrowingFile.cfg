SPECIFICATION LinkSpec
CONSTANTS
  a = a
  b = b
  x = x
  hole = hole
  i1 = i1
  i2 = i2
  c1 = c1
  c2 = c2
  Dir = Dir
  NoDigest = NoDigest
  Outside = Outside
  BadName = BadName
  Hole = hole
  MaxDepth = 2
  Name <- MCName
  Inode <- MCInode
  Byte <- MCByte
  UploadId <- MCUploadId
  Chunk <- MCChunk
  UploadBegin <- MCUploadBegin
  Offset <- MCOffset
  RequestPath <- MCRequestPath
  Requests <- SomeRequests
  Client <- OneClient
  LocalFile <- OneByte
  Logins <- GoodLogin
  Databases <- AliceOnly
  MaxCalls = 4
  MaxConn = 1
  SockBuf = 3
  Faults = {}
  LinkFaults = {"file_grew", "file_changed"}
CHECK_DEADLOCK FALSE
PROPERTIES
  OkUploadIsStored
