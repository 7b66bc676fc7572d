\* Two deployments and two builds, upgrades included, with a death possible after every step.
SPECIFICATION ReleaseSpec
CONSTANTS
    Builds = {b1, b2}
    None = None
    PageSize = 1
    MaxDeployments = 2
    MaxFigure = 1
    MaxWindows = 2

    
PROPERTIES
    
    SuccessIsUsable
