SPECIFICATION FairSpec
CONSTANTS
    name = name
    tag = tag
    boss = boss
    friend = friend
    gone = gone
    nick = nick
    s1 = s1
    s2 = s2
    NoPattern = NoPattern
    NoView = NoView
    Attrs <- MCAttrs
    ManyAttrs <- MCMany
    RefAttrs <- MCRefAttrs
    Refs <- MCRefs
    MaxPullDepth = 2
    Tables <- MCTables
    Shown <- MCShown
    Patterns <- MCPatterns
    Requests <- MCRequests
    MaxCommits = 2
    MaxErrors = 1
INVARIANTS
    PullIsExact
    ListsAreInstants
PROPERTY PullReturns
CHECK_DEADLOCK FALSE
