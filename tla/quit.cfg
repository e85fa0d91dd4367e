SPECIFICATION FairSpec
CONSTANTS
    o1 = o1
    o2 = o2
    Operators = {o1}
    Sends <- ModbusOnly
    Hasty = FALSE
    Teardown = Teardown
    Ids = {i1, i2, i3}
    Clients = {k1}
    Null = Null
PROPERTIES QuitDisablesOutputs
\* The process ends, one way or the other.
CHECK_DEADLOCK FALSE
