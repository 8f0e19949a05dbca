SPECIFICATION Spec

CONSTANTS
    Packs <- MCPacks
    Seeds <- MCSeeds
    MaxVehicles = 4
    Fleets <- MCFleets
    OldVehicles = 3
    None = None

INVARIANTS
    PlacementSound
    StartKeepsPromise
