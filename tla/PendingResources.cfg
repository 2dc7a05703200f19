SPECIFICATION FairSpec
CONSTANTS
    i1 = i1
    i2 = i2
    i3 = i3
    r1 = r1
    r2 = r2
    r3 = r3
    Items <- MCItems
    Readers <- MCReaders
INVARIANT TypeOK
INVARIANT SleepersNotLeftAlone
INVARIANT LoneReaderNotified
PROPERTY LoneReaderServed
CHECK_DEADLOCK FALSE
