\* One caller at a time, as the CLI is used.
CONSTANTS
    Callers = {c1}
    c1 = c1
    MaxAttempts = 3
    BuildFailures <- AllRules
    MaxCommands = 3
SPECIFICATION Spec
INVARIANTS
    TypeOK
    NumberedInOrder
    RetriesFollowPolicy
    TaskShowsItsAttempt
    HistoryIsEarlier
PROPERTIES
    LedgerKept
CHECK_DEADLOCK FALSE
