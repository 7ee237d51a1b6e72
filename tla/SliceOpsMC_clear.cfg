CONSTANTS
    Chans = {1, 2, 3}
SPECIFICATION Spec
INVARIANT ClearLoopClosesEachOnce
