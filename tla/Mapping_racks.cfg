SPECIFICATION Spec
CONSTANTS
    Link <- MCLink
    NumHosts = 4
    RackSize = 2
    HostPerRack = 2
    HostLinks <- MCHostLinks
INVARIANTS TypeOK IteratorSuffices EvenLoad OneResponsible
