CONSTANTS
    Clients = {c1, c2}
    Handlers = {h1, h2}
    Depth = 2
    Silence = 1
    MaxBatch = 1
    Hang = 2
SPECIFICATION Spec
INVARIANT ThreadsAgree
PROPERTIES MainReturns RelaysSwitched HostSilenced
