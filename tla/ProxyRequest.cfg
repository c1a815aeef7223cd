\* The proxy from its start to the last byte of a request.
SPECIFICATION ProxySpec
CONSTANTS
    k1 = k1
    k2 = k2
    own = own
    Keys <- MCKeys
    NoKey = NoKey
    Blank = Blank
    Settings <- MCSettings
    SafeFields <- MCSafeFields
    Profiles <- MCProfiles
    Nestings <- MCNestings
    MaxJsonDepth = 3
    Bodies <- MCBodies
    Events <- MCEvents
    MaxEvents = 3
    ChunkSize = 3
    MaxScanBytes = 4
    MaxScanEvents = 2
INVARIANTS
    BodyRight
    ServedRight
    RelayFaithful
    LeakWithheld
PROPERTIES
    ImplementsContract
