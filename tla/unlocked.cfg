SPECIFICATION Spec
CONSTANTS
    Paths <- OnlyLibA
    Programs <- OnlyLibA
    Aliases <- NoAlias
    Contents = {c1, tiny}
    Small = {tiny}
    MaxLinks = 9
    MaxSlot = 1
    MaxInode = 4
    CacheMax = 2
    MaxUpsets = 0
    None = None
INVARIANTS SlotsLocked
