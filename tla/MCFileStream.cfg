\* Four initializations: both streams are opened, closed and opened again.
CONSTANTS
    MaxBytes = 3
    MaxInits = 4
SPECIFICATION Spec
INVARIANTS
    TypeOK
    ReadsFromTheStart
    EofHidesNothing
    OwnedDescriptors
PROPERTIES
    WrittenStays
