CONSTANTS
    Slot = Slot
    Users = {u1, u2, u3}
    Locks = {Slot}
    NoLock = NoLock
    Keys = {k1, k2}
    SlotOf <- MCSlotOf
    MaxWrites = 2
SPECIFICATION MapSpec
SYMMETRY UserSymmetry
INVARIANTS
    ReadersUndisturbed
    WriteableIffWriter
PROPERTIES
    ImplementsLock
    ImplementsCache
    FreedNeverServed
