SPECIFICATION ServerSpec
CONSTANTS
    Adapters = {a1}
    Workers = {w1}
    Boots = {b1}
    Attempts = {t1}
    Devices = {d1}
    Revisions = {r1}
    Sizes = {2}
    Presented <- MCPresented
    MaxGen = 1
    MaxEpoch = 0
    MaxInst = 1
    MaxPins = 0
    Nil = Nil
    None = None
    Clients = {c1}
    Offered = {"load"}
    MaxConns = 2
    MaxReqs = 2
    DeviceLimit = 1
    WordSize = 4
INVARIANT ReadyOnLiveBoot
