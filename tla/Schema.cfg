SPECIFICATION FairSpec
CONSTANTS
    Procs = {p1, p2, p3}
    LastRow = 3
INVARIANTS OneFiller CompleteUnlessBroken
PROPERTY StartLeadsToSchema
