SPECIFICATION SubagentsSpec
CONSTANTS
    Instrs = {i1, i2}
    MAX_CONCURRENT = 2
    MAX_TOTAL = 1
    MaxAgentRuns = 2
INVARIANT
    LateInstructionsAreRead
CHECK_DEADLOCK FALSE
