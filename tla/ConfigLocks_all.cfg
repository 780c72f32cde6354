SPECIFICATION Spec
CONSTANTS
    t1 = t1
    t2 = t2
    t3 = t3
    p1 = p1
    p2 = p2
    None = None
    Preference = Preference
    Processes = {p1, p2}
    Tasks = {t1, t2, t3}
    Home <- MCHome
    MaxCrashes = 1
SYMMETRY Symmetry
INVARIANTS TypeOK InsideAlone
PROPERTY KeepsCell
