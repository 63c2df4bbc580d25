CONSTANTS
    Calls = {c1, c2}
    Roots = {array, vms, ups}
    OptionalRoots = {vms, ups}
    Types = {Disk}
    Fields = {free, used, state, runtime}
    Large = {free, used, runtime}
    Asks <- MCAsks
    Selections <- MCSelections
    Tools <- MCTools
    Targets = {vm}
    VMs = {vm}
    VmsRoot = vms
    MAX_RETRIES = 1
    MaxRounds = 2
    MaxChanges = 1
    MaxLost = 1
    c1 = c1
    c2 = c2
    array = array
    vms = vms
    ups = ups
    free = free
    used = used
    state = state
    runtime = runtime
    Disk = Disk
    vm = vm
SPECIFICATION Spec
INVARIANTS ToldTheTruth HealthIsTrue
PROPERTIES OverflowsEnd
