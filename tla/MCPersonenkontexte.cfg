\* Two requests or cron jobs side by side, four in all, with a failing call.
SPECIFICATION Spec
CONSTANTS
    Job = {j1, j2}
    k1 = k1
    k2 = k2
    Kontext = {k1, k2}
    Befristbar = {k1}
    RollenartOf <- Rollenarten
    MaxRequests = 4
    MaxTroubles = 1
SYMMETRY Symmetry
INVARIANTS
    DateMatchesContexts
    OneRollenart
PROPERTY
    ReadsWhatWasSeen
CHECK_DEADLOCK FALSE
