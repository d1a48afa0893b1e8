\* The client's window: four RouteMods of one or two messages each, a restart.
CONSTANTS
    max_rm_outstanding = 1
    Modulus = 8
    MinRms = 1
    MaxRms = 2
    MaxProduced = 4
    MaxRestarts = 1
SPECIFICATION FairSpec
INVARIANTS TypeOK WindowBounded CounterExact
 
CHECK_DEADLOCK FALSE
