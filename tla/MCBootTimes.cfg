CONSTANTS
    MaxBootTimes = 200
    ConfigBoots = 4
    Erased = 65535
    BootBound = 203
SPECIFICATION Spec
INVARIANTS
    TypeOK
    ConfigModeNeedsShortBoots
    ShortBootsGiveConfigMode
    CountHonest
PROPERTIES
    CounterCleared
CHECK_DEADLOCK FALSE
