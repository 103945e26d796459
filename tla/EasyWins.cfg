SPECIFICATION Spec
CONSTANTS
    Owner <- SomeOwners
    Options <- SomeOptions
    Parametric = {"parametric-python"}
    Versions <- SomeVersions
    Cases <- SomeCases
INVARIANTS StaysDeactivated EditIsScoped WinsAreActivated
CHECK_DEADLOCK FALSE
