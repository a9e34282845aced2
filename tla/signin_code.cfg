\* Safety: three requests at the same time, two challenges of two attempts, a
\* lockout after two wrong passwords that may run out once.
CONSTANTS
    Workers = {w1, w2, w3}
    Challenges = {c1, c2}
    MaxAttempts = 2
    MfaAttempts = 2
    MaxLockouts = 1
    None = None
SPECIFICATION Spec
SYMMETRY Symmetry
INVARIANTS CodeUsedOnce GuessesAreBounded
PROPERTY LockoutStands
CHECK_DEADLOCK FALSE
