CONSTANTS
    Config <- Configs
    Plugin <- Plugins
    PackArg <- Packs
    ToolArg <- ToolNames
    Thread = {th1, th2}
    Nobody = Nobody
SPECIFICATION Spec
INVARIANT AdvertisingInv
PROPERTIES LawfulChange StartUpHonoursConfig
\* Start-up may fail, which ends the process.
CHECK_DEADLOCK FALSE
