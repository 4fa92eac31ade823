\* A password reset, and a login with the temporary password.
SPECIFICATION Spec
CONSTANTS
    User = {u1}
    Slot = {s1}
    None = None
    Sequential = TRUE
    RedisMayFail = FALSE
    MaxTokens = 2
    MaxCodes = 0
    MaxPasswords = 2
INVARIANT SignedInMayAct
CHECK_DEADLOCK FALSE
