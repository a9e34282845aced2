\* Safety: three refreshes at the same time, four tokens.
CONSTANTS
    Tokens = {t1, t2, t3, t4}
    Requests = {w1, w2, w3}
    NoToken = NoToken
SPECIFICATION TokensSpec
SYMMETRY Symmetry
INVARIANT OnlyLeavesLive
PROPERTY DeadFamiliesStayDead
CHECK_DEADLOCK FALSE
