SPECIFICATION Spec
CONSTANTS
    Jobs = {j1}
    Batches = {}
    Aligns = {}
    MaxRestarts = 0
INVARIANT DeleteDiscardsOutput
CHECK_DEADLOCK FALSE
