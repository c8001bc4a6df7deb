SPECIFICATION Spec
CONSTANTS
    o1 = o1
    o2 = o2
    o3 = o3
    a1 = a1
    d1 = d1
    Occupiers = {o1, o2}
    Abilities = {a1}
    Devices = {d1}
    Forwarded = {a1}
    Requests = {1, 2}
    Serial = FALSE
SYMMETRY Symmetric
INVARIANTS OneOwner
