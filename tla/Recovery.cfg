SPECIFICATION RecoverySpec
CONSTANTS
    Adapters = {a1, a2}
    Workers = {w1}
    Boots = {b1}
    Attempts = {t1}
    Devices = {d1}
    Revisions = {r1}
    Sizes = {1}
    BaseModels = {bm1, bm2}
    Policies = {p1}
    Modules = {m1, m2, m3}
    m1 = m1
    m2 = m2
    m3 = m3
    bm1 = bm1
    bm2 = bm2
    Manifest <- MCManifest
    Presented <- MCPresented
    WordSize = 2
    MaxGen = 3
    MaxEpoch = 1
    MaxInst = 1
    MaxPins = 0
    MaxCount = 2
    MaxMembers = 2
    MaxComps = 1
    Nil = Nil
    None = None
    Damaged = Damaged
CONSTRAINT FewOperations
SYMMETRY Symmetry
INVARIANTS
    RecoveryTypeOK
    ReadableWithinCaps
    CompositionsCoherent
    CountersAhead
