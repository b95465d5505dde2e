SPECIFICATION SafetySpec
CONSTANTS
    Conn = {c1, c2}
    MaxWrites = 3
SYMMETRY MCSymmetry
INVARIANT NeverStaleWrite
