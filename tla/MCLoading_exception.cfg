SPECIFICATION Spec
CONSTANTS
    RulesSets = {"server"}
    Directives <- RuleDirectives
    NumPhases = 2
    MaxDirectives = 3
    MaxMerges = 2
PROPERTIES
    FileWithErrorAddsNoRules
CHECK_DEADLOCK FALSE
