SPECIFICATION DocumentsSpec
CONSTANTS
    a = a
    b = b
    empty = empty
    absent = absent
    kernel = kernel
    editor = editor
    Text <- MCText
    Empty = empty
    Absent = absent
    Package <- MCPackage
    Mandatory <- MCMandatory
    DefaultOf <- MCDefaultOf
    Collected <- MCCollected
    MaxEdits = 2
INVARIANTS
    DocumentsOK
    MergePrefersLive
PROPERTIES
    EditsAreLocal
