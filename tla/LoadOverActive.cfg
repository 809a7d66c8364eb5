SPECIFICATION ServerSpec
CONSTANTS
    Adapters = {a1, a2}
    Workers = {w1}
    Boots = {b1}
    Attempts = {t1}
    Devices = {d1}
    Revisions = {r1}
    Sizes = {2}
    Presented <- MCPresented
    MaxGen = 3
    MaxEpoch = 0
    MaxInst = 2
    MaxPins = 0
    Nil = Nil
    None = None
    Clients = {c1}
    Offered = {"load", "activate"}
    MaxConns = 1
    MaxReqs = 3
    DeviceLimit = 1
    WordSize = 4
INVARIANT ConflictHasHolder
