CONSTANTS
    a = a
    b = b
    c = c
    n = n
    m = m
    Fund = fund
    Addresses = {a, b, c}
    Namespaces = {n, m}
    Epochs = {1, 2}
    NextEpoch = 2
    Fee = 1
    Absent = Absent
    Blocks <- MCBlocks
    States <- MCStates
SPECIFICATION Spec
CHECK_DEADLOCK FALSE
INVARIANTS
    SerialOutcome
    NeverOutOfScope
