\* Two requests side by side, each of any kind and on any organisation.
SPECIFICATION Spec
CONSTANTS
    None = None
    oeffentlich = oeffentlich
    ersatz = ersatz
    traeger1 = traeger1
    traeger2 = traeger2
    schule1 = schule1
    schule2 = schule2
    behoerde1 = behoerde1
    behoerde2 = behoerde2
    klasse1 = klasse1
    klasse2 = klasse2
    n1 = n1
    n2 = n2
    Orga = {oeffentlich, ersatz, traeger1, traeger2, schule1, schule2, klasse1, klasse2, behoerde1, behoerde2}
    Ersatz = {ersatz}
    TypOf <- TypesIn
    Name = {n1, n2}
    Start <- Tree
    Place <- Places
    Job = {j1, j2}
    MaxRequests = 2
SYMMETRY Symmetry
INVARIANTS
    NoCircle
    ParentsExist
    NamesUnique
PROPERTY
    NoLostUpdate
CHECK_DEADLOCK FALSE
