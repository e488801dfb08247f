SPECIFICATION Spec
CONSTANTS
    alice = alice
    bob = bob
    carol = carol
    None = None
    Clients <- MCClients
    Addrs <- MCAddrs
    Dynamic <- MCDynamic
    Owner <- MCOwner
    LeaseTime = 2
    OfferHold = 1
    MaxTime = 3
INVARIANTS
    TypeOK
    ReservationHonoured
    OneLiveAddress
    TermsBounded
PROPERTIES
    LiveBindingEnds
    QuarantineHeld
    RefinesRegistry
