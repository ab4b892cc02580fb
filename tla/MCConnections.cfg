SPECIFICATION Spec
CONSTANTS
    c1 = c1  c2 = c2  c3 = c3  c4 = c4
    Conns <- MCConns
    MaxConns = 2
    Fds = 3
    MaxErrors = 1
    W4 = 2
    W6 = 4
    MAPPED = 1
    NoIp = NoIp
    Numerals <- MCNumerals
    Opaque = Opaque
    Messages <- MCMessages
INVARIANTS
    PermitsConserved
    ClientIsTheSender
    OneReading
    OnlyOwnClaims
PROPERTY NobodyStarves
CHECK_DEADLOCK FALSE
