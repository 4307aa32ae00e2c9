SPECIFICATION Spec
CONSTANTS
    t1 = t1
    t2 = t2
    b1 = b1
    b2 = b2
    m = m
    Threads = {t1, t2}
    Wrappers = {m}
    Blocks = {b1, b2}
    OnceClosures = {}
    MutClosures = {m}
    ZstClosures = {}
    SendClosures = {}
    SyncClosures = {m}
    FactoryClosures = {m}
    StorageTypes = {{"Send"}}
    StaticClosures = {m}
    SendHandles = {m}
    MaxDepth = 2
    NoWrapper = NoWrapper
    NoBlock = NoBlock
    NoThread = NoThread
    NoCode = NoCode
    Junk = Junk
    User = User
INVARIANTS
    FactoriesStayHome
SYMMETRY Symmetry
CHECK_DEADLOCK FALSE
