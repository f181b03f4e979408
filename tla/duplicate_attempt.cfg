\* Two run commands on one task at the same time.
CONSTANTS
    c1 = c1
    c2 = c2
    Callers = {c1, c2}
    MaxAttempts = 2
    BuildFailures <- RetryOnly
    MaxCommands = 2
SPECIFICATION Spec
INVARIANTS
    OneRowPerAttempt
CHECK_DEADLOCK FALSE
