SPECIFICATION Spec
CONSTANTS
    Clients = {c1}
    Overwrite = {c1}
    Marked = {c1}
    MaxMishaps = 1
PROPERTIES
    PriorTargetPreserved
