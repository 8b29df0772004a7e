SPECIFICATION Spec
CONSTANTS
    Paths <- LibAndObjects
    Programs <- OnlyLibA
    Aliases <- TwoAliases
    Contents = {c1, tiny}
    Small = {tiny}
    MaxLinks = 3
    MaxSlot = 2
    MaxInode = 7
    CacheMax = 2
    MaxUpsets = 1
    None = None
INVARIANTS TypeOK NeverProhibited
PROPERTIES SkipIsIngested QuietRunDeduplicates LockLostByRelinkOnly ExecLostByRelinkOnly
