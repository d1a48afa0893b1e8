\* Every network of four switches with ports, two fastpath links, three links.
CONSTANTS
    Dps = {s1, s2, s3, s4}
    FpLinks = {f1, f2}
    IslLinks = {l1, l2, l3}
    PortCounts = {1, 2}
    LabelLimit = 7
    Dp0 = Dp0
    None = None
SYMMETRY MCSymmetry
SPECIFICATION Spec
INVARIANTS  LabelsCarried ShortestPath AllLabelled
CHECK_DEADLOCK FALSE
