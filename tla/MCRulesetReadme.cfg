SPECIFICATION Spec
CONSTANTS
    Rules = {"r1", "r2"}
    Contents <- MCContents
    MaxRuns = 1
INVARIANT ExistingRulesKept
CHECK_DEADLOCK FALSE
