SPECIFICATION MCSpec
CONSTANTS
    Writers = {w}
    Exporters = {x1, x2}
    w = w
    x1 = x1
    x2 = x2
    Free = Free
    MaxEntriesPerSegment = 1
    MaxSegmentsPerRun = 2
    Formats = {1, 2}
    MaxHead = 2
    MaxFaults = 2
    Histories <- MCHistories
    SegmentCaps <- MCSegmentCaps
    Sha <- MCSha
CHECK_DEADLOCK FALSE
INVARIANTS SegmentsTileChain ExportsAgree ArchivesVerify
PROPERTIES AllExported
