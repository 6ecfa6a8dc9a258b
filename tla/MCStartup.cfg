SPECIFICATION StartupSpec
CONSTANTS
    Procs = {p1, p2, p3, p4}
    None = None
    MaxFiles = 3
    Commands <- MCCommands
    PlainCommands <- MCPlainCommands
SYMMETRY Symmetry
INVARIANTS StartupTypeOK NothingLeft NamesNobodyGone AloneUntilForked WritesUndisturbed OptionsAsGiven 
CHECK_DEADLOCK FALSE
