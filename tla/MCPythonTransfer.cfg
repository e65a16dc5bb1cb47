SPECIFICATION Spec
CONSTANTS
    f1 = f1
    s1 = s1
    s2 = s2
    s3 = s3
    g1 = g1
    File = {f1}
    Satellite = {s1, s2, s3}
    Target <- MCTarget
    Satellites <- MCSatellites
    Chunks <- MCChunks
    GroundNodes <- MCGroundNodes
    Peers <- MCPeers
    MaxRetries = 2
    MaxFailures = 1
    MaxHops = 3
INVARIANTS TypeOK SavedWhole
PROPERTIES Settles Delivered
CHECK_DEADLOCK FALSE
