SPECIFICATION FairSpec
CONSTANTS
    Selection = {"base", "desktop-common", "develop", "server", "cosmic", "gnome", "plasma", "windowmanager", "kernel-common", "kernel-desktop"}
    Name = {"base", "desktop-common", "develop", "server", "cosmic", "gnome", "plasma", "windowmanager", "kernel-common", "kernel-desktop", "missing"}
    Hidden = {"base", "desktop-common", "develop", "kernel-common", "kernel-desktop"}
    Implicit <- MCImplicit
    Headless = "server"
    Base = "base"
    Common = "desktop-common"
    Package = {"base", "desktop-common", "develop", "server", "cosmic", "gnome", "plasma", "windowmanager", "kernel-common", "kernel-desktop", "networkmanager"}
    PackagesOf <- MCPackagesOf
    Definitions <- MCDefinitions
INVARIANTS
    LoopInv
    ResolvesClosure
    MandatoryCarried
PROPERTY
    Returns
\* resolve returns.
CHECK_DEADLOCK FALSE
