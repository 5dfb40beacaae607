SPECIFICATION Spec
CONSTANTS
    SCN = 5
    SP = 3
    Acts = {1}
    StoreAct = 1
    Items <- MCItems
    None = None
    Scene <- MCScene
    SpawnX <- MCSpawnX
    Reach <- MCReach
    Managers <- MCManagers
    Cams <- MCCams
    Spawns <- MCSpawns
    Window = 3
    Margin = 2
    Offset = 1
    Drift = 1
INVARIANTS PinnedNotDropped
