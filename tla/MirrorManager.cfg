CONSTANTS
    Mirrors = {m1}
    Requests = {r1}
    Checks = {h1, h2}
    FailureThreshold = 2
    Cooldown = 1
    MayChange = TRUE
SPECIFICATION FairSpec
PROPERTIES BackInRotation OutOfRotation
