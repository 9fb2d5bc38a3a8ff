SPECIFICATION Spec
CONSTANTS
    Keys <- MCKeys
    HashOf <- MCHashOf
    STARTING_CAPACITY = 2
    Texts <- MCTexts
    MAX_NESTING = 3
    MaxFailures = 1
CHECK_DEADLOCK FALSE
INVARIANTS
    TableIsMap
    NoLeak
    AcceptsTheGrammar
