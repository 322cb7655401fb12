SPECIFICATION Spec
CONSTANTS
    CommandLines <- MCCommandLines
    MaxInvocations = 2
    NL = "nl"
    Lines <- MCLines
    MaxLines = 2
    TextContents <- MCTextContents
    Rules = {"r1", "r2"}
    RuleContents <- MCRuleContents
INVARIANTS
    TypeOK
    NoMergedLines
    WritesItsRules
    RulesInOrder
    
    
PROPERTY
    ImplementsLog
CHECK_DEADLOCK FALSE
