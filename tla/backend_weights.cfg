SPECIFICATION Spec
CONSTANTS
    Models <- MCModels
    Keys <- CacheKeys
    Size <- MCSize
    Limits = {0, 1, 3}
    Experts = {"e1", "e2"}
    Batch = 2
    Tiles = 2
INVARIANTS WithinBudget OnlyDoubtfulSlotsStale EachTileOnce
