CONSTANTS
    core = core
    x = x
    y = y
    z = z
    bin = bin
    py = py
    srv = srv
    Tool = {core, x, y, z}
    Core = {core}
    Bin = {bin}
    Dir = {py, srv}
    McpStdio = {srv}
    Outside = {}
    Allowed = {bin, py}
    NoName = NoName
    None = None
    MaxStamp <- MCMaxStamp
    MaxVersion <- MCMaxVersion
    Deployed <- MCDeployed
    Offers <- MCOffers
SPECIFICATION FairSpec
INVARIANT RegistryInv
PROPERTIES LawfulReload SavedPluginServed ExitsUnlessHung
CHECK_DEADLOCK FALSE
