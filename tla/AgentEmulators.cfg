SPECIFICATION AgentSpec
CONSTANTS
    Avds = {a1, a2}
    Jobs = {j1, j2, j3}
    Ports = {1, 2, 3}
    None = None
    Idle = Idle
SYMMETRY Symmetry
INVARIANTS
    AgentTypeOK
    

    
