SPECIFICATION FairSpec
CONSTANTS
    RomBits = 3
    FamilyBits = 2
    DS18S20 = 1
    DS18B20 = 3
    MAX_WIFIUP_RETRY_ATTEMPTS = 1
    MAX_TELEMETRY_RETRY_ATTEMPTS = 1
    MAX_TELEMETRY = 2
    TRAIT_EXPECTED_THERMALS1 = 2
    Raws = {401, 32768, 65527}
INVARIANTS
    LeftInOrder
    NoCallbackOnFreed
    NapMeansOutcome
    SensorsRight
PROPERTY SleepsAgain
\* A sensor that is left to its console stops.
CHECK_DEADLOCK FALSE
