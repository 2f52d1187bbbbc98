CONSTANTS
    l1 = l1
    l2 = l2
    l3 = l3
    p1 = p1
    p2 = p2
    Lockers = {l1, l2, l3}
    Partitions = {p1, p2}
    PartitionOf <- MCPartitionOf
    Globals = {FALSE}
    RequestModes = {"IS", "IX", "S", "X"}
    Upgrades <- AllUpgrades
    MaxRecursion = 2
    Cleaner = Cleaner
    Faults = {"LateGrant"}
SPECIFICATION Spec
INVARIANT MutualExclusion
SYMMETRY SamePartition
