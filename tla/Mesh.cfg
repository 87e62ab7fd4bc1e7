SPECIFICATION MeshSpec
CONSTANTS
    n1 = n1
    n2 = n2
    n3 = n3
    Nodes = {n1, n2, n3}
    Seeds <- StarSeeds
    MaxStarts = 2
    MaxFaults = 1
INVARIANTS NetTypeOK FileRemembers
PROPERTIES MeshCompletes
CHECK_DEADLOCK FALSE
