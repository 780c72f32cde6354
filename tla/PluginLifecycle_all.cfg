SPECIFICATION Spec
CONSTANTS
    c1 = c1
    c2 = c2
    None = None
    Callers = {c1, c2}
    MaxBundle = 2
    MaxTokens = 1
SYMMETRY Symmetry
INVARIANTS TypeOK Authorised ConsentIsForThisCode EnabledIsRunning
