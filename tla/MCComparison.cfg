SPECIFICATION Spec
CONSTANTS
    any = any
    name = name
    a = a
    b = b
    Wildcard <- any
    Noise = 10
    Cases <- MCCases
INVARIANTS
    RightVerdict
\* One message is compared.
CHECK_DEADLOCK FALSE
