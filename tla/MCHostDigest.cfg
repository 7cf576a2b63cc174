SPECIFICATION Spec
CONSTANTS
    odd = odd
    fine = fine
    task = task
    text = text
    file = file
    url = url
    Null = Null
    Empty = Empty
    Malformed = Malformed
    Unreadable = Unreadable
    End = End
    NoOne = NoOne
    Events <- MCEvents
    Analyses <- MCAnalyses
    RequestsOf <- MCRequestsOf
    Rewrites <- MCRewrites
    Versions = 2
INVARIANT FingerprintIsWhatChromeSaw
CHECK_DEADLOCK FALSE
