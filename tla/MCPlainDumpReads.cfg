CONSTANTS
    Catalog <- MCCatalog
    Sources <- MCViews
SPECIFICATION Spec
CHECK_DEADLOCK FALSE
INVARIANT
    ReadsPrecede
