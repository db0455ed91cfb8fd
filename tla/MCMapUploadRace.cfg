SPECIFICATION Spec
CONSTANTS
    a = a
    b = b
    c = c
    f1 = f1
    f2 = f2
    m1 = m1
    m2 = m2
    Workers = {w1, w2}
    Uploads = {b, c}
    Maps = {m1, m2}
    Files = {f1, f2}
    None = None
    MapOf <- MCMapOf
    FileOf <- MCFileOf
    Chunks <- ShortChunks
INVARIANTS
    SavedUnlessSpoiled
CHECK_DEADLOCK FALSE
