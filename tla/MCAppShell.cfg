SPECIFICATION Spec

CONSTANTS
    Regions <- MCRegions
    Blobs <- MCBlobs
    Packs <- MCPacks
    Callers <- MCCallers
    Hosts = {host}
    None = None
    MaxFaults = 1
    Overlapping = FALSE

INVARIANTS
    SelectionsKept
    
    StatusTruthful
