SPECIFICATION FairSpec
CONSTANTS
    Clients = {c1, c2, c3}
    Writers = {w1, w2}
INVARIANTS
    TypeOK
    NobodyForgotten
PROPERTIES
    ToldOnceQuiet
CHECK_DEADLOCK FALSE
