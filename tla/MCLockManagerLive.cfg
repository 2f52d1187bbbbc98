CONSTANTS
    l1 = l1
    l2 = l2
    l3 = l3
    p1 = p1
    p2 = p2
    Lockers = {l1, l2, l3}
    Partitions = {p1, p2}
    PartitionOf <- MCPartitionOf
    Globals = {FALSE}
    RequestModes = {"IX", "S", "X"}
    Upgrades = {}
    MaxRecursion = 1
    Cleaner = Cleaner
    Faults = {}
SPECIFICATION FairSpec
PROPERTY WaiterIsServed
