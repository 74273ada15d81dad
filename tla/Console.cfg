SPECIFICATION FairSpec
CONSTANTS
    Modules <- MCModules
    MaxFails = 1
    MaxPackets = 2
    MaxPresses = 1
INVARIANTS TypeOK NoStaleCommand ReadyComplete ModesAgree
PROPERTIES BootCompletes ResetRestarts PowerRestarts
CHECK_DEADLOCK FALSE
