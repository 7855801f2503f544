SPECIFICATION Spec
CONSTANTS
    Items = {f1, f2, f3}
    Garbage = {junk}
    Capacity = 3
INVARIANT IInv
PROPERTY ImplementsFifo
