SPECIFICATION Spec
CONSTANTS
    Pid = {p1, p2, p3}
    Lengths <- MCLengths
SYMMETRY Symmetry
INVARIANT ImportsWhole
