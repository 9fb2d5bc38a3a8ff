SPECIFICATION Spec
CONSTANTS
    PAGE_SIZE = 262144
    MAX_CLIENTS = 1000
    HISTORY_SIZE = 128
    Lens <- ExampleLens
    EntryLens <- ExampleEntryLens
    Tables <- MCTables
    MaxReports = 1
INVARIANTS
    AnswerFits
