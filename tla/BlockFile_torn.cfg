CONSTANTS
    small = small large = large
    Blocks = {small, large}
    Size <- MCSize
    MaxFileSize = 7
    MaxFiles = 2
SPECIFICATION BlockSpec
INVARIANT AcceptedReloaded
