SPECIFICATION Spec
CONSTANTS
    a = a
    b = b
    one = one
    big = big
    f = f
    g = g
    h = h
    k = k
    NoURL = NoURL
    URLs = {a, b, one, big}
    FileNames = {f, g, h, k}
    FileName <- DistinctNames
    Archive <- MCArchive
    Messages <- MCMessages
    InitialTopics <- ArchiveTopics
    MaxOffset = 2
    AckChannelBufferSize = 1
    DownloadChannelBufferSize = 1
    UntarChannelBufferSize = 1
    EventChannelBufferSize = 2
    MaxGoroutines = 2
    Faults = {"crash", "signal", "download"}
INVARIANTS
    CommittedArchiveWritten
    HeldOnce
PROPERTIES
    ShutdownTerminates
