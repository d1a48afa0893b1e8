\* Three switches in a row, two links that share a port, VM ports on two of them.
CONSTANTS
    None = None
    v1 = v1  v2 = v2
    p1 = p1  p2 = p2  p3 = p3  p4 = p4  p5 = p5  vp = vp
    sw1 = sw1  sw2 = sw2  sw3 = sw3  rfvs = rfvs
    m1 = m1  m2 = m2  m3 = m3  m4 = m4
    VmPorts = {v1, v2}
    DpPorts = {p1, p2, p3, p4, p5}
    DpOf <- MCDpOf
    Rfvs = {rfvs}
    Config <- MCLinkedConfig
    Eths = {m1, m2, m3, m4}
    IslConf <- MCTwoIsl
    VsOf <- MCVsOf
    Overlap = FALSE
    MaxDowns = 1
    MaxRouteMods = 1
    MaxRestarts = 0
SPECIFICATION Spec
INVARIANTS ConfigFirst IslMatchesPorts
CHECK_DEADLOCK FALSE
