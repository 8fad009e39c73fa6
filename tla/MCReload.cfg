SPECIFICATION Spec
CONSTANTS
    door = door
    motion = motion
    smoke = smoke
    away = away
    home = home
    None = None
    Sensors = {door, smoke}
    Modes = {away}
    SensorConfig <- DoorAndSmoke
    ZoneConfig <- DisarmingZone
    IdOrder <- Order
    LoopBreakerK = 1
    MaxIncidents = 1
    MaxRestarts = 0
    MaxFaults = 0
    MaxWrites = 1
    Conditions = {}
    FailingWrites = {}
INVARIANTS
    ReferencesAreConfigured
    RearmOnlyWhileOff
