CONSTANTS
    a1 = a1  a2 = a2  d1 = d1
    None = None
    Archives = {a1, a2}
    Deletes = {d1}
    target <- MCTarget
    Vectors = {d1}
    MaxPath = 1
    MaxEdits = 2
    Faults <- AllFaults
SPECIFICATION Spec
INVARIANTS TypeOK 
PROPERTIES PrimaryKept UserFilesSurvive
