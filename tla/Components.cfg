SPECIFICATION Spec
CONSTANTS
    Keys = {1, 2, 3, 4, 5, 6}
    Values <- TwoValues
    MaxNodes = 7
    Objs = {o1, o2, o3, o4}
    Empty = Empty
    FirstMax = 2
    AddSize = 2
    MaxCap = 4
    MaxAdds = 6
    SortValues = {0, 1, 2, 3}
    MaxSort = 6
    PerPool = 3
    MaxPools = 3
    PoolCount <- FewCells
    RecvSize = 3
    Slack = 2
    NoPtr = NoPtr
    Calls = {}
    MaxHolders = 2
    MaxLen = 5
    Nums = {0, 1, 2}
    AVG_COUNT = 2
    MaxFiles = 2
    MaxParsed = 4
    Header = 2
    RecvBuf = 10
    Bodies <- SmallBodies
    MaxPackets = 4
    Lens = {1, 3}
    FirstArgs = 1
    MaxArgs = 4
    Room = 1
    Class <- ByFour
    Hosts = {h1, h2}
    NoHost = NoHost
    MaxSum = 9
    Uses = {}
    ThreadCount = 3
    Socks = {s1, s2}
    Servers = {a1, a2}
    NoSock = NoSock
    MaxQueue = 2
    MaxDrops = 2
    lt1 = lt1
    lt2 = lt2
    l1 = l1
    l2 = l2
    l3 = l3
    l4 = l4
    NoItem = NoItem
    ListThreads <- TwoThreads
    ListObjs <- FourObjs
    MaxCount = 3
    ListUses <- RoomyUses
    FirstIdx <- AnyIdx
    Pushers = {p1, p2}
    Consumer = Consumer
    Cap = 1
    MaxRings = 3
    MaxPush <- PushBounds
    OverlapPush = 3
    TurnPush = 9
INVARIANTS
    TreeIsSound ListKeepsIndex SortReturnsSorted SlotMemoryIsOwnedOnce
       CommandsAreWhole
      QueueIsExact
PROPERTIES
    WorkersStart
CHECK_DEADLOCK FALSE
