SPECIFICATION Spec
CONSTANTS
    Ids = {c1}
    Tenants = {t1, t2}
    Actors = {a1, a2}
    Instances = {i1}
    Calls = {r1, r2, r3}
    None = None
    MaximumLifetime = 2
    MaxSkew = 0
    MaxTime = 2
SYMMETRY Symmetry
INVARIANTS TypeOK Manageable RevocationsAgree UseIsRecorded
PROPERTY RevocationIsFinal
