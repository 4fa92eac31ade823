\* Three handlers of one user at once: sign-ins one at a time, requests, suspensions,
\* resets and a deletion; Redis fails and recovers at any moment.
SPECIFICATION Spec
CONSTANTS
    User = {u1}
    Slot = {s1, s2, s3}
    None = None
    Sequential = TRUE
    RedisMayFail = TRUE
    MaxTokens = 2
    MaxCodes = 2
    MaxPasswords = 2
SYMMETRY Symmetry
INVARIANTS TypeOK BarredAreRefused OneSession CodesWorkOnce
CHECK_DEADLOCK FALSE
