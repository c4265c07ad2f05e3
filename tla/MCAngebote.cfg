\* Two requests, side by side or one after another, a change in VIDIS, a restart.
SPECIFICATION Spec
CONSTANTS
    s1 = s1
    s2 = s2
    land = land
    m1 = m1
    l1 = l1
    v1 = v1
    f1 = f1
    f2 = f2
    a = a
    b = b
    c = c
    x = x
    y = y
    r1 = r1
    A = A
    B = B
    School = {s1, s2}
    Land = land
    None = None
    Sp = {m1, l1, v1, f1, f2}
    Offer = {a, b, c}
    Name = {y}
    Title = {x, y}
    Rolle = {r1}
    Art = {A, B}
    ArtOf <- Arts
    RolleAt <- Places
    Start <- Beginning
    Job = {j1, j2}
    PageSize = 2
    MaxItems = 1
    MaxRequests = 2
    MaxChanges = 1
    MaxCrashes = 1
SYMMETRY Symmetry
INVARIANT
    ErweiterungenAdmitted
PROPERTIES
    RollenStayAllowed
    SyncedWithVidis
CHECK_DEADLOCK FALSE
