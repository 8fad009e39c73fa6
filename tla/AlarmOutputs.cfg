CONSTANTS
    hall = hall  attic = attic  None = None
    Outputs = {1, 2, 3, 4, 5, 6, 7}
    Scenarios <- MCScenarios
    Zone <- MCZone
    Channel <- MCChannel
    Class <- MCClass
    Duration <- MCDuration
    Budget = 2
    Window = 1
    Activations = {1, 2, 3}
    Prompt = TRUE
SPECIFICATION FairSpec
INVARIANTS SounderGuarded LedgerCovers
PROPERTIES StopAllSparesOthers NoiseEnds
