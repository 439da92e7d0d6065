SPECIFICATION NavigationSpec
CONSTANTS
    storage = storage
    locale = locale
    accounts = accounts
    summary = summary
    unknown = unknown
    Id <- MCId
    Registered <- MCRegistered
    NoStep = NoStep
SYMMETRY Interchangeable
INVARIANTS
    Navigable
    BackAndForth
PROPERTIES
    NothingSkipped
\* The frontend has shut down, or its installer could not be built.
CHECK_DEADLOCK FALSE
