SPECIFICATION MCSpec
CONSTANTS
    ByteCount = 2
    CountBytes = 2
    MaxFrame = 2
    MaxMessages = 3
    PortCount = 5
    BindAttempts = 3
    LengthCount = 8
    AssetSizeLimit = 4
    MinCompression = 3
    Dirs <- MCDirs
    Files <- MCFiles
    Links <- MCLinks
    AssetsPath <- MCAssetsPath
    NotUtf8 <- MCNotUtf8
INVARIANT PortsInRange
INVARIANT PortsOfOneProject
INVARIANT AssetsWhole
INVARIANT FilesFoundByKey
INVARIANT KeysKeepFiles
INVARIANT MessagesIntact
INVARIANT HeadersRead
CHECK_DEADLOCK FALSE
