SPECIFICATION FairSpec
CONSTANTS
    t1 = t1
    t2 = t2
    b1 = b1
    o = o
    n = n
    Threads = {t1, t2}
    Wrappers = {o, n}
    Blocks = {b1}
    OnceClosures = {o}
    MutClosures = {n}
    ZstClosures = {n}
    SendClosures = {o}
    SyncClosures = {o}
    FactoryClosures = {o}
    StorageTypes = {{}, {"Send"}, {"Sync"}, {"Send", "Sync"}}
    StaticClosures = {o, n}
    SendHandles = {o, n}
    MaxDepth = 2
    NoWrapper = NoWrapper
    NoBlock = NoBlock
    NoThread = NoThread
    NoCode = NoCode
    Junk = Junk
    User = User
INVARIANTS
    CodeInv
    LifeInv
    HomeInv
    DestroyedAtMostOnce
    NonSendStaysHome
PROPERTIES
    ConstructionEnds
    DropEnds
    ImplementsBareFn
CHECK_DEADLOCK FALSE
