SPECIFICATION Spec

CONSTANTS
    Regions <- MCRegions
    Blobs <- MCBlobs
    Packs <- MCPacks
    Callers <- MCCallers
    Hosts = {host, other}
    None = None
    MaxFaults = 0
    Overlapping = TRUE

INVARIANTS
    SavedSettingsReload
