CONSTANTS
    w1 = w1  w2 = w2  e1 = e1  e2 = e2  a1 = a1  r1 = r1  c1 = c1  c2 = c2
    VaultIds = {w1, w2}
    DocIds = {e1, e2}
    AuthIds = {a1}
    RPs = {r1}
    Contents = {c1, c2}
    NoId = NoId
SPECIFICATION Spec
PROPERTIES
    AckedNeverNotFound
