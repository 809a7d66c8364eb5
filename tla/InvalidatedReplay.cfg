SPECIFICATION Spec
CONSTANTS
    Adapters = {a1, a2}
    Workers = {w1}
    Boots = {b1, b2}
    Attempts = {t1, t2}
    Devices = {d1}
    Revisions = {r1}
    Sizes = {1}
    Presented <- MCPresented
    MaxGen = 2
    MaxEpoch = 1
    MaxInst = 2
    MaxPins = 1
    Nil = Nil
    None = None
CONSTRAINT FewMarks
PROPERTY InvalidatedFenceRetired
