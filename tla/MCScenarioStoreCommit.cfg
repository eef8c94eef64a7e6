SPECIFICATION Spec
CONSTANTS
    p1 = p1
    p2 = p2
    Request <- Requests
    Name = {n1}
    User = {u1}
    Admin = {u1}
    Yaml = {y1, y2}
    Broken = {y2}
    MaxScenarios = 1
    MaxRevs = 2
    MaxCrashes = 0
SYMMETRY Symmetry
PROPERTY FailedIsUnsaved
