SPECIFICATION Spec
CONSTANTS
    c1 = c1
    c2 = c2
    c3 = c3
    s1 = s1
    s2 = s2
    numThreads = 2
    Conns = {c1, c2, c3}
    Sends <- TwoServants
    Capacity = 4
    Servants = {s1, s2}
    Cities <- CitiesDeclared
    Mortal = {}
    unwritten = unwritten
    Memory = {unwritten}
    Stack <- JustJunk
    Disturbances = {}
    MaxAccepted = 3
CHECK_DEADLOCK FALSE
INVARIANTS
    DeclarationIsKept
    NoUnnoticedSharing
PROPERTIES
    RegistryOnlyGrows
    ImplementsService
