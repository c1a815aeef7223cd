\* The catalog's worker and the sync, with a user, crashes and restarts.
SPECIFICATION FairSystemSpec
CONSTANTS
    a = a
    b = b
    retired = retired
    legacy = legacy
    own = own
    template = template
    none = none
    limitB = limitB
    manual = manual
    local = local
    direct = direct
    other = other
    LastList = 2
    RefreshDelay = 3
    MaxBackoff = 2
    MaxFailures = 3
    Models <- MCModels
    Retired = {retired}
    Legacy = {legacy}
    Registry <- MCRegistry
    Template = template
    NoLimit = none
    LocalProvider = local
    DirectProviders = {direct}
    Listing <- MCListing
    UserConfigs <- MCUserConfigs
    LastEdit = 2
INVARIANTS
    SystemTypeOK
PROPERTIES
    NeverBackwards
    CacheSurvives
    EditsKept
    OnlyLiveLists
    SyncSettles
    UserEntriesKept
    ConfigConverges
