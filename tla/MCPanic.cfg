CONSTANTS
    d1 = d1  d2 = d2  q1 = q1  q2 = q2  v0 = v0  v1 = v1  P1 = P1  P2 = P2
    z1 = z1  z2 = z2  z3 = z3  z4 = z4
    ZcapIds = {zE, zK, zC, z1, z2, z3}
    DIDs = {u, h, c, t}
    Actions <- MCActions
    Segments <- MCSegments
    NoZcap = NoZcap
    Docs = {d1, d2}
    Paths = {p1}
    Vals = {v0}
    QueryIds = {q1, q2}
    ProfileIds = {P1}
    User = u
    Hub = h
    Vault = "vlt"
    EdvHost <- MCEdvHost
    EdvBase <- MCEdvBase
    KmsTarget <- MCKmsTarget
    HubBase <- MCHubBase
    RootEdv = zE
    RootKms = zK
    MaxTime = 1
    NoQuery = NoQuery
    Cmp = c
    Parties = {t}
    Forgers = {}
    RootCmp = zC
    CmpProfile = P1
    CaveatChoices <- MCCaveatChoices
    MaxArgs = 1
    NoField = NoField
SYMMETRY MCSymmetry
SPECIFICATION Spec
INVARIANTS
    EveryComparisonAnswered
