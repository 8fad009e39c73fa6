SPECIFICATION FairHistorySpec
CONSTANTS
    door = door
    motion = motion
    smoke = smoke
    away = away
    home = home
    None = None
    Sensors = {door}
    Modes = {away}
    SensorConfig <- EntryDoor
    ZoneConfig <- ReturningZone
    IdOrder <- Order
    LoopBreakerK = 1
    MaxIncidents = 2
    MaxRestarts = 2
    MaxFaults = 0
    MaxWrites = 0
    Conditions = {}
    FailingWrites = {}
INVARIANTS
    StaysOff
    TimerDiscipline
    NoPreTriggerResidue
    CycleBound
    RowIsCurrent
    OpenIncidentHasOwner
PROPERTIES
    IncidentsClose
    EntryResolves
    RestartSeesOpenings
    RestartKeepsProtection
