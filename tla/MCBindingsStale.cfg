SPECIFICATION BindSpec
CONSTANTS
    LastAddress = 1
    Ifaces = {i1}
    Elsewhere = elsewhere
    Unbound = unbound
    Queries = {""}
    Contested = {}
    LastWrite = 3
    MaxReads = 2
INVARIANTS
    BoundListFresh
