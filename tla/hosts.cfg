SPECIFICATION Spec
CONSTANTS
    MaxHosts = 2
    Copies = 2
    NoHost = NoHost
    Registrars = {r1, r2}
    Queuers = {q1, q2}
    IoPerHost = {0, 1, 4}
    SnMod = 4
    MaxSn = 5
SYMMETRY Symmetry
INVARIANTS OnePerNumber WholeOrNothing NoEmptySlot Balanced
CHECK_DEADLOCK FALSE
