\* The agent by the fallback rules, with one command from outside.
CONSTANTS
    a = a
    c = c
    Callers = {a, c}
    Agent = a
    MaxAttempts = 1
    MaxSteps = 4
    UseModel = FALSE
    BuildFailures <- RetryOnly
    MaxCommands = 1
SPECIFICATION AgentSpec
INVARIANTS
    WritesFindTheirRow
CHECK_DEADLOCK FALSE
