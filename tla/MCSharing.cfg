SPECIFICATION SpecSharing
CONSTANTS
    Threads = {t1, t2}
    Ids = {1, 2}
    Objs = {o1, o2, o3}
    Refs = {r1}
    None = None
    Scheme = "atomic"
    MAX_CACHE_SIZE = 2
    MaxPopularity = 2
    Workers = {w1, w2}
    seg_size = 2
    Jobs <- MCJobs
    urls_vec <- MCUrls
    Lengths <- MCLengths
    threadNum = 2
    FileLengths <- MCFileLengths
    ULONG_MAX = 15
    NoByte = NoByte
    NoThread = NoThread
    WORK_PROCESSES_NUM = 2
    log_max_size = 2
    MaxLines = 1
    LogNames = {na, nb}
    NoName = NoName
    FILE_MAX_SIZE = 3
    LineLengths = {1, 2}
    MaxLogLength = 8
CHECK_DEADLOCK FALSE
INVARIANTS
    
    NoUseAfterFree
    CountUnderLock
    BytesWhereTheyBelong
    LogsKept
    FinishMeansDoneIfCounted
    
PROPERTIES
    FullCacheFrozen
    DownloadsEnd
