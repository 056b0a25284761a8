SPECIFICATION Spec
CONSTANTS
    Keys = {1, 2, 3, 4, 5, 6, 7}
    Hash <- MCHash
INVARIANT PresentIsRemoved
