SPECIFICATION FairSpec
CONSTANTS
    d1 = d1
    d2 = d2
    f1 = f1
    f2 = f2
    t1 = t1
    t2 = t2
    t3 = t3
    Dirs = {d1, d2}
    Files = {f1, f2}
    Entries <- MCEntries
    Unreadable = {d2}
    Tasks = {t1, t2, t3}
    NoDir = NoDir
    MaxCalls = 2
INVARIANT TypeOK
INVARIANT OneTaskAtATime
INVARIANT NoUploadBeforeAllocation
INVARIANT UploadedAsOftenAsAsked
PROPERTY TaskEnds
CHECK_DEADLOCK FALSE
