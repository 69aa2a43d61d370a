SPECIFICATION FairSpec
CONSTANTS
    Pages = {root, a, b, c, e, off, out}
    Root = root
    root = root
    a = a
    b = b
    c = c
    e = e
    off = off
    out = out
    MaxLinks = 2
    Inside = {a, b, c, e}
    LinkSets <- FewLinks
    Depth = 2
    MaxPages = 4
    SameDomainOnly = TRUE
    OnDomain = {root, a, b, c, e, out}
    IncludePatterns = {{a, b}, {c, e, off, out}}
    ExcludePatterns = {{out}, {}}
    Skipped = {}
INVARIANT TypeOK
INVARIANT VisitedOnce
INVARIANT LimitHolds
INVARIANT ShortestDepth
INVARIANT NothingMissed
INVARIANT ExactlyReachable
PROPERTY CrawlEnds
CHECK_DEADLOCK FALSE
