SPECIFICATION Spec
CONSTANTS
    MaxSends = 2
    Threads = {t1, t2}
    Attempts = 2
    HWM = 1
    MaxBreaks = 1
    CC_SIZE = 3
    PENDINGLIMIT = 1
    MaxCrashes = 1
PROPERTIES Channels PeerHeard EnvelopesRead
CHECK_DEADLOCK FALSE
