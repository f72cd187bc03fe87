SPECIFICATION Spec
CONSTANTS
    Ids = {c1}
    Tenants = {t1}
    Actors = {a1}
    Instances = {i1, i2}
    Calls = {r1, r2}
    None = None
    MaximumLifetime = 2
    MaxSkew = 1
    MaxTime = 2
SYMMETRY Symmetry
INVARIANT Manageable
