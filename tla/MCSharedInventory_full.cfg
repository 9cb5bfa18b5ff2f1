\* Two calls on an inventory that an operation of Doctor remembers too.
SPECIFICATION FairSpec
CONSTANTS
    c1 = c1  c2 = c2  c3 = c3  r = r  k1 = k1
    NoCapability = NoCapability
    Session = Session
    None = None
    Unreadable = Unreadable
    Ops = {c1, c2, r}
    Calls = {c1, c2}
    Readers = {r}
    Keys = {k1}
    KeyOf <- OneKey
    Capabilities = {}
    CapabilityOf <- Unlimited
    CapabilityLimit <- NoLimits
    SlotLimit = 1
    Versions = {0, 1}
    EmptyVersions = {}
    NilKeys = {}
INVARIANTS TypeOK OneSnapshot
PROPERTIES NeverForgets EveryCallReturns
