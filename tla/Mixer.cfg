\* Joins, leaves, rebuilds, mutes, sources and panics of two legs.
SPECIFICATION Spec
CONSTANTS
    l1 = l1  l2 = l2  s1 = s1
    p1 = p1  p2 = p2  p3 = p3
    c1 = c1  c2 = c2
    k1 = k1
    None = None
    Legs = {l1, l2}
    Sources = {s1}
    Roles <- TheRoles
    Matrices <- TheMatrices
    Callers = {k1}
    Parts = {p1, p2, p3}
    Chans = {c1, c2}
    Scenarios <- TheScenarios
SYMMETRY Symmetry
INVARIANTS TypeOK LegsAreServed 
PROPERTIES SuccessorSurvives
CHECK_DEADLOCK FALSE
