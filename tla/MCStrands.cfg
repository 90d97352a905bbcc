CONSTANTS
    Workers = {w1}
    Diskers = {d1}
    Ports = {p1, p2}
    MaxDeaths = 1
    None = None
SYMMETRY MCPorts
SPECIFICATION StrandsSpec
INVARIANTS
    StrandsTypeOK
    RegisteredIsCurrent
    NoForgottenSearch
    ListensAsAsked
