SPECIFICATION Spec
CONSTANTS
    door = door
    motion = motion
    smoke = smoke
    away = away
    home = home
    None = None
    Sensors = {door}
    Modes = {away}
    SensorConfig <- Guarded
    ZoneConfig <- DisarmingZone
    IdOrder <- Order
    LoopBreakerK = 1
    MaxIncidents = 1
    MaxRestarts = 0
    MaxFaults = 0
    MaxWrites = 0
    Conditions = {}
    FailingWrites = {}
PROPERTIES
    OpeningIsAnswered
