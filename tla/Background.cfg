\* One part at a time, each with what can go wrong around it.
SPECIFICATION Spec
CONSTANTS
    Parts <- MCParts
    Shards = {"ann", "shared"}
    Shared = "shared"
    ShardOf <- MCShardOf
    BlobId <- MCBlobId
    Images = {"s1"}
    Touched = {"s1"}
    Slice = 2
    IvfMinItems = 2
    MaxResidentShards = 2
    MaxVersion = 2
    MaxFailures = 1
    MaxRequests = 2
    Idle = Idle
    Networks = {"Home", "Home!"}
    SafeName <- MCSafeName
    WifiRequests = {1, 2}
    MaxWifiCalls = 3
    MaxUpsets = 1
    NoNetwork = NoNetwork
    Setups = {1, 2}
    Changes = {1, 2}
    Nobody = Nobody
INVARIANTS
    VectorsAgree
    AskedIsFound
    PasswordsUnstaged
    LocalIsServed
PROPERTY
    RunEnds
    WifiSettles
    NextSetupMayBegin
CHECK_DEADLOCK FALSE
