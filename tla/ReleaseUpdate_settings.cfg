SPECIFICATION Spec
CONSTANTS
    p1 = p1
    p2 = p2
    p3 = p3
    NoPackage = NoPackage
    Package = {p1, p2, p3}
    Version <- Releases
    Factory = 1
    Browser = {b1}
    Job = {j1}
    MaxKills = 0
PROPERTY SettingsKept
CHECK_DEADLOCK FALSE
