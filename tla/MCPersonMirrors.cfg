\* One request at a time beside the handlers: changes of contexts, name and
\* locks, a synchronisation, a deletion, with one failing call or restart.
SPECIFICATION MCSpec
CONSTANTS
    Job = {j1}
    k1 = k1
    k2 = k2
    s1 = s1
    Kontext = {k1, k2}
    Befristbar = {k1}
    RollenartOf <- Rollenarten
    Schule = {s1}
    SchuleOf <- Schulen
    Uem = {k1}
    Itslearning = {k1}
    Email = {k1, k2}
    MaxRenames = 1
    MaxAsks = 2
    MaxTotal = 3
    MaxRequests = 2
    MaxTroubles = 1
INVARIANTS
    MirrorsAgree
    DeletedIsForgotten
CHECK_DEADLOCK FALSE
