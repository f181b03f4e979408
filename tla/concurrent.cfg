\* Two callers on one task, as the HTTP API allows.
CONSTANTS
    c1 = c1
    c2 = c2
    Callers = {c1, c2}
    MaxAttempts = 2
    BuildFailures <- RetryOnly
    MaxCommands = 2
SPECIFICATION FairSpec
INVARIANTS
    OverrunBounded
PROPERTIES
    CommandsEnd
CHECK_DEADLOCK FALSE
