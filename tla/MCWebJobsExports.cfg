SPECIFICATION Spec
CONSTANTS
    c1 = c1
    c2 = c2
    Kinds <- MCKinds
    Calls <- MCCalls
    KindOf <- MCKindOf
    MaxStops = 1
    MaxCrashes = 0
PROPERTY ExportsIndependent
CHECK_DEADLOCK FALSE
