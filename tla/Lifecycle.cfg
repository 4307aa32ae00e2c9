SPECIFICATION Spec
CONSTANTS
    t1 = t1
    t2 = t2
    b1 = b1
    b2 = b2
    m = m
    f = f
    Threads = {t1, t2}
    Wrappers = {m, f}
    Blocks = {b1, b2}
    OnceClosures = {}
    MutClosures = {m}
    ZstClosures = {}
    SendClosures = {m, f}
    SyncClosures = {f}
    FactoryClosures = {}
    StorageTypes = {{"Send"}}
    StaticClosures = {m}
    SendHandles = {m}
    MaxDepth = 2
    NoWrapper = NoWrapper
    NoBlock = NoBlock
    NoThread = NoThread
    NoCode = NoCode
    Junk = Junk
    User = User
INVARIANTS
    TypeOK
    CallsRunOwnThunk
    DropAloneFrees
    BlocksExclusive
    UserCodeExecutable
    AllocatorOutlivesCode
    ReleasedWhereAllocated
PROPERTIES
    WritesAreUnprotected
    LeakedStays
    ImplementsBareFn
SYMMETRY Symmetry
CHECK_DEADLOCK FALSE
