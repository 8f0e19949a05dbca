SPECIFICATION Spec

CONSTANTS
    Extracts <- MCExtracts
    Regions <- MCRegions
    Configs <- MCConfigs
    Cover <- MCCover
    Single <- MCSingle
    MaxServices = 1
    MaxDate = 2
    MaxFaults = 1
    None = None

INVARIANTS
    GraphsSound
    RoutesOnOwnGraph
    ServicesAccounted
