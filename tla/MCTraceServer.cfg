SPECIFICATION Spec
CONSTANTS
    r1 = r1
    r2 = r2
    r3 = r3
    m = m
    n = n
    s1 = s1
    s2 = s2
    empty = empty
    fuzzy = fuzzy
    url1 = url1
    url2 = url2
    NoMeta = NoMeta
    EmptyMeta = EmptyMeta
    Junk = Junk
    NoFuzzy = NoFuzzy
    garbled = garbled
    Requests <- MCRequests
    Names <- MCNames
    Files <- MCFilesAndEmpty
    EmptyFile = empty
    Ssdeep <- MCSsdeep
    EventLimit = 2
    EventInputs <- MCEventInputs
    Similarity <- MCSimilarity
    IsSsdeep <- MCIsSsdeep
INVARIANTS
    TypeOK
    ChainSound
    AckedEventShown
    ExactMatchBacked
    AckedVersionKept
    RowEditDetected
SYMMETRY MCSymmetry
CHECK_DEADLOCK FALSE
PROPERTIES
    SavedStays
