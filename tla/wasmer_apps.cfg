SPECIFICATION FairSpec
CONSTANTS
    a1 = a1
    a2 = a2
    a3 = a3
    Apps = {a1, a2, a3}
    Pool = {9000, 9001}
    ConfiguredPort <- Ports
    Checked = {a1}
    Called = {a1}
CHECK_DEADLOCK FALSE
INVARIANT PortsAccounted
INVARIANT AllocatedDistinct
INVARIANT ServedUnlessCut
INVARIANT AllStopped
PROPERTY StopCompletes
