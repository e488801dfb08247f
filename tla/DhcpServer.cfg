SPECIFICATION ServerSpec
CONSTANTS
    alice = alice
    bob = bob
    here = here
    there = there
    None = None
    Elsewhere = Elsewhere
    Us = here
    Them = there
    Relay = Relay
    Broadcast = Broadcast
    Clients <- MCClients
    Addrs <- MCAddrs
    Dynamic <- MCAddrs
    Owner <- MCOwner
    Relayed <- MCRelayed
    Broadcasting <- MCBroadcasting
    LeaseTime = 2
    OfferHold = 1
    MaxTime = 3
    MaxDoubles = 1
    Came <- MCCame
    MaxXid <- MCMaxXid
CHECK_DEADLOCK FALSE
INVARIANTS
    ServerTypeOK
    BeliefBacked
    BeliefReported
    GoodStandingKept
    AnswersArrive
