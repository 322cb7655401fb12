SPECIFICATION Spec
CONSTANTS
    Kinds = {"map", "group", "mph", "ac"}
    Patterns <- MCPatterns
    Preloads <- MCPreloads
    Queries <- MCQueries
    MaxAdds = 2
    RegexFinds <- MCRegexFinds
    CharCode <- MCCharCode
    HashPrime = 3
    HashModulus = 32
    StrHash <- MCStrHash
    MaxSeed = 3
    MapOrders <- MCMapOrders
    Bits <- MCBits
    Ranges <- MCRanges
    MaxTexts = 3
    Sources <- MCSources
    Texts <- MCTexts
    Options <- MCOptions
    W4 = 2
    Mapped = 3
    MaxCalls = 3
    Rules <- MCRules
    MaxDepth = 2
    RuleSets <- MCRuleSets
    Covers <- MCCovers
    Foreign <- MCForeign
    WordSize = 8
    Base = 10
    Units <- MCUnits
    Signs = {"none", "+", "-"}
    Terms <- MCTerms
    MaxTerms = 3
    FloatTimes <- MCFloatTimes
    Precision = 4
INVARIANT SubstrFound
CHECK_DEADLOCK FALSE
