SPECIFICATION ContainersSpec
CONSTANTS
    Keys = {1, 2, 3, 4, 5, 6, 7}
    Hash <- MCHash
    Trees = {a, b}
    TreeKeys = {1, 2, 3, 4, 5}
    Capacity = 5
    MoveClearsKey = FALSE
INVARIANTS Consistent Contents TreeWellFormed TreeContents
