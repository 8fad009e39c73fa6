SPECIFICATION Spec
CONSTANTS
    door = door
    motion = motion
    smoke = smoke
    away = away
    home = home
    None = None
    Sensors = {door}
    Modes = {away}
    SensorConfig <- FrontDoor
    ZoneConfig <- StrictZone
    IdOrder <- Order
    LoopBreakerK = 1
    MaxIncidents = 1
    MaxRestarts = 1
    MaxFaults = 1
    MaxWrites = 0
    Conditions = {"unreachable", "low_battery"}
    FailingWrites = {"inc", "close", "row"}
INVARIANTS
    TypeOK
    IncidentIffTriggered
    SilencedNeverSounds
    ModeMatchesState
PROPERTIES
    NothingBypassedSilently
