SPECIFICATION ServerSpec
CONSTANTS
    alice = alice
    bob = bob
    here = here
    there = there
    None = None
    Elsewhere = Elsewhere
    Us = here
    Them = there
    Relay = Relay
    Broadcast = Broadcast
    Clients <- MCClients
    Addrs <- MCOneAddr
    Dynamic <- MCOneAddr
    Owner <- MCOneOwner
    Relayed <- MCRelayed
    Broadcasting <- MCBroadcasting
    LeaseTime = 2
    OfferHold = 1
    MaxTime = 3
    MaxDoubles = 1
    Came <- MCNoneCame
    MaxXid <- MCMaxXid
CHECK_DEADLOCK FALSE
INVARIANT OneHolder
