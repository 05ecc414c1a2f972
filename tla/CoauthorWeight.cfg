SPECIFICATION Spec
CONSTANTS
    e1 = e1  e2 = e2  e3 = e3  s1 = s1  s2 = s2  w1 = w1  w2 = w2  r1 = r1  r2 = r2
    None = None
    Entities = {e1, e2, e3}
    Scopes = {s1}
    Writers = {w1, w2}
    Loops = {}
    Requests = {}
    MaxMoves = 0
    MaxForced = 0
INVARIANT ContributesOnce
