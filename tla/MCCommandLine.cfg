SPECIFICATION CliSpec
CONSTANTS
  a = a
  b = b
  x = x
  hole = hole
  i1 = i1
  i2 = i2
  c1 = c1
  c2 = c2
  Dir = Dir
  NoDigest = NoDigest
  Outside = Outside
  BadName = BadName
  Hole = hole
  MaxDepth = 2
  Name <- MCName
  Inode <- MCInode
  Byte <- MCByte
  UploadId <- MCUploadId
  Chunk <- MCChunk
  UploadBegin <- MCUploadBegin
  Offset <- MCOffset
  RequestPath <- MCRequestPath
  Requests <- SomeRequests
  Client <- TwoClients
  LocalFile <- TwoBytes
  Logins <- GoodAndBad
  Databases <- AliceOnly
  MaxCalls = 2
  MaxConn = 1
  SockBuf = 1
  Faults = {"restart"}
  LinkFaults = {"bad_address", "client_crash", "server_crash", "local_write", "file_changed", "file_shrank"}
CHECK_DEADLOCK FALSE
INVARIANTS
  OkConnectIsLogin
PROPERTIES
  EveryCallReturns
  EveryCommandExits
  ServerComesFree
