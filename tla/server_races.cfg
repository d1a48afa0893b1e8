\* Every interleaving of the two listener threads: two VM ports on one switch, a restart.
CONSTANTS
    None = None
    v1 = v1  v2 = v2
    p1 = p1  p2 = p2  p3 = p3  p4 = p4  p5 = p5  vp = vp
    sw1 = sw1  sw2 = sw2  sw3 = sw3  rfvs = rfvs
    m1 = m1  m2 = m2  m3 = m3  m4 = m4
    VmPorts = {v1, v2}
    DpPorts = {p1, p2}
    DpOf <- MCDpOf
    Rfvs = {rfvs}
    Config <- MCConfig
    Eths = {m1, m2, m3, m4}
    IslConf <- MCNoIsl
    VsOf <- MCVsOf
    Overlap = TRUE
    MaxDowns = 2
    MaxRouteMods = 0
    MaxRestarts = 1
SPECIFICATION Spec
INVARIANTS TypeOK ConfigRespected ClientAgrees
CHECK_DEADLOCK FALSE
