SPECIFICATION Spec
CONSTANTS
    lang = lang
    image = image
    cli = cli
    server = server
    other = other
    Threads = {lang, image, cli}
    Processes = {server, other}
    ProcOf <- MCProcOf
    Servers = {lang, image}
    Penalty = 2
    MayCrash = TRUE
INVARIANTS
    TypeOK
    OneResident
    LoadsAreManaged
    NoGhostWaiters
    OwnedHasAnOwner
PROPERTY KeepsTheSlot
