CONSTANTS
    Ids <- MCIds
    Profiles <- MCProfiles
    Configs <- MCConfigs
    Tokens <- MCTokens
    Codes <- MCCodes
    Pools <- MCPools
    AgeCap = 3
    MaxUpserts = 1
SPECIFICATION Spec
INVARIANTS
    ServedInScope
    ServedIsRecent
    CacheWithinLive
    SelectsBest
