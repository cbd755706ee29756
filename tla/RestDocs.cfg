CONSTANTS
    w1 = w1
    v1 = v1
    Clients = {w1, v1}
    Docs = {d1, d2}
    Does <- MCDoes
    MaxRevs = 3
    MaxUpdates = 2
SPECIFICATION Spec
INVARIANTS UpdatesCounted ReturnsTrue ChangesFollowed
SYMMETRY Alike
