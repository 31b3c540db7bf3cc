SPECIFICATION Spec
CONSTANTS
    Jobs = {j1, j2}
    Processes = {p1, p2}
    Idle = idle
    FirstNonce = 1
    FinalityDepth = 3
    MaxFee = 1
    MaxBlocks = 4
INVARIANTS NoncesDense 
 
SYMMETRY Alike
CHECK_DEADLOCK FALSE
