CONSTANTS
    Names = {n1, n2}
    Ids = {u1, u2, u3}
    Procs = {p1, p2}
    None = None
SYMMETRY PolicySymmetry
SPECIFICATION Spec
INVARIANT TypeOK
INVARIANT ConsistentCopies
