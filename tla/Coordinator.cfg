SPECIFICATION ServerSpec
CONSTANTS
    Adapters = {a1}
    Workers = {w1}
    Boots = {b1, b2}
    Attempts = {t1}
    Devices = {d1}
    Revisions = {r1}
    Sizes = {2}
    Presented <- MCPresented
    MaxGen = 1
    MaxEpoch = 1
    MaxInst = 2
    MaxPins = 1
    Nil = Nil
    None = None
    Clients = {c1, c2}
    Offered = {"load", "activate", "evict"}
    MaxConns = 2
    MaxReqs = 3
    DeviceLimit = 1
    WordSize = 4
CONSTRAINT NotAllAtOnce
SYMMETRY Symmetry
INVARIANTS
    ServerTypeOK
    AuthorityOnLiveBoot
    AnswersCorrelated
    ReservationsBacked
PROPERTIES
    GrantIsCurrent
