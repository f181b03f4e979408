\* A model that analyses again between two attempts.
CONSTANTS
    a = a
    Callers = {a}
    Agent = a
    MaxAttempts = 2
    MaxSteps = 5
    UseModel = TRUE
    BuildFailures <- AgentFailures
    MaxCommands = 0
SPECIFICATION AgentSpec
INVARIANTS
    AgentBudget
CHECK_DEADLOCK FALSE
