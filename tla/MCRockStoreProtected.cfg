CONSTANTS
    k1 = k1
    k2 = k2
    Users = {e1, e2}
    Keys = {k1, k2}
    Cells = {1, 2}
    WorkerOf <- MCWorkerOf
    HashOf <- MCHashOf
    Leftovers <- MCLeftovers
    QueueCapacity = 1
    MaxWrites = 2
    MaxRestarts = 1
    None = None
CHECK_DEADLOCK FALSE
SPECIFICATION RockSpec
PROPERTY ReadersProtected
