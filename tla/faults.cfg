SPECIFICATION Spec
CONSTANTS
    Targets = {t1, t2}
    Contents = {c1, c2}
    Workers = {w1, w2}
    Gcs <- NoGc
    Stages <- Stages1
    MaxSlot = 0
    MaxClock = 0
    None = None
    MaxLinks = 9
    CountsLinks = TRUE
    NoReplace = TRUE
    QueueCapacity = 1
    Cooldown = 1
    MayFail = TRUE
    Sweeping = TRUE
    UserKinds <- Rewrites
    Quiet = TRUE
SYMMETRY Symmetry
INVARIANTS TypeOK SlotIntegrity OneSwapper
PROPERTIES Transparent
CHECK_DEADLOCK FALSE
