\* Two slots for four operations of two capability calls and of none.
SPECIFICATION SlotsFairSpec
CONSTANTS
    o1 = o1  o2 = o2  o3 = o3  o4 = o4  narrow = narrow  wide = wide
    NoCapability = NoCapability
    Session = Session
    Ops = {o1, o2, o3, o4}
    Capabilities = {narrow, wide}
    CapabilityOf <- Capability
    CapabilityLimit <- Limits
    SlotLimit = 2
INVARIANTS TokensAccounted SmallerLimitHolds
PROPERTIES ClosedWhileWaiting EveryOperationEnds
