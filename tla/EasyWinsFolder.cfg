SPECIFICATION Spec
CONSTANTS
    Owner <- SomeOwners
    Options <- DefaultOptions
    Parametric = {"parametric-python"}
    Versions <- SomeVersions
    Cases <- FolderCases
INVARIANT StaysDeactivated
CHECK_DEADLOCK FALSE
