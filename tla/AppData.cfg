\* Two uploads in one shard, two parts of the first, which is finished twice,
\* one upload in one piece; two meta events; two threads; fair.
SPECIFICATION FairSpec
CONSTANTS
    u1 = u1
    u2 = u2
    t1 = t1
    t2 = t2
    f1 = f1
    f2 = f2
    m1 = m1
    m2 = m2
    Plain = {p1}
    Upload <- MCUpload
    Part <- MCPart
    Fin <- MCFin
    FileOf <- MCFileOf
    ShardOf <- MCShardOf
    Threads = 2
    Meta <- MCMeta
    StatusOf <- MCStatusOf
    Good = "good"
    None = None
INVARIANTS
    TypeOK
    StatusTold
PROPERTIES
    FinishSeals
    LockIsGiven
CHECK_DEADLOCK FALSE
