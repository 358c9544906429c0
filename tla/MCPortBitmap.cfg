CONSTANTS
    Clients = {p1, p2, p3}
    PortMin = 1
    PortMax = 6
    MaxCount = 3
    NoClient = NoClient
SPECIFICATION Spec
INVARIANTS
    TypeOK
    NoPortLostOrShared
PROPERTIES
    ImplementsAllocator
    FailsOnlyWhenFragmented
    NoQuickReuse
    CallReturns
