SPECIFICATION MCSpec
CONSTANTS
    Replicas = {p1, p2}
    Requests = {r1, r2}
    Tokens = {t1}
    Human = Human
    Scopes = {work, sync, tokens}
    WriteScopes = {work, sync}
    OutwardScopes = {sync}
    HumanOnlyScopes = {tokens}
    None = None
    CacheTtl = 1
    CacheMax = 1
    SwitchTtl = 2
    MaxLifetime = 1
    LastTick = 2
    MaxPresented = 2
    MaxChanges = 1
SYMMETRY Symmetry
PROPERTIES
    RevocationIsImmediate
    FreezeTakesHold
CHECK_DEADLOCK FALSE
